----------------------- MODULE BinarySerializerProofs -----------------------
(***************************************************************************)
(* Proofs about the binary serializer: the image of a call reaches the     *)
(* buffer whole, and an image can be read back.  What FlattenSeq computes  *)
(* is shown by induction, which the library offers as a fact about sets:   *)
(* a set of natural numbers has a least element.                           *)
(***************************************************************************)
EXTENDS BinarySerializer, TLAPS, SequenceTheorems, WellFoundedInduction

-----------------------------------------------------------------------------
(* Induction *)

(* A set of natural numbers has a least element. *)
LEMMA LeastNatural ==
  ASSUME NEW T, T \subseteq Nat, T # {}
  PROVE  \E x \in T : \A y \in T : x <= y
<1>. DEFINE R == OpToRel(<, Nat)
<1>1. IsWellFoundedOn(R, Nat)
  BY NatLessThanWellFounded
<1>2. \A x, y \in Nat : x < y => <<x, y>> \in R
  BY DEF OpToRel
<1>. HIDE DEF R
<1>3. PICK x \in T : \A y \in T : ~ (<<y, x>> \in R)
  BY <1>1, WFMin
<1>4. ASSUME NEW y \in T PROVE x <= y
  <2>1. x \in Nat /\ y \in Nat
    OBVIOUS
  <2>2. ~(y < x)
    BY <1>2, <1>3, <2>1
  <2>. QED
    BY <2>1, <2>2
<1>. QED
  BY <1>4

(* A set with 0 and every successor has all natural numbers. *)
LEMMA Induction ==
  ASSUME NEW T, T \subseteq Nat, 0 \in T, \A n \in T : n + 1 \in T
  PROVE  T = Nat
<1>. SUFFICES ASSUME Nat \ T # {} PROVE FALSE
  OBVIOUS
<1>1. PICK x \in Nat \ T : \A y \in Nat \ T : x <= y
  <2>. DEFINE rest == Nat \ T
  <2>1. rest \subseteq Nat /\ rest # {}
    OBVIOUS
  <2>. HIDE DEF rest
  <2>2. \E x \in rest : \A y \in rest : x <= y
    BY <2>1, LeastNatural
  <2>. QED
    BY <2>2 DEF rest
<1>2. x - 1 \in T
  BY <1>1
<1>. QED
  BY <1>1, <1>2

-----------------------------------------------------------------------------
(* FlattenSeq *)

(* The partial concatenations of a sequence of sequences. *)
IsPartial(s, g) ==
  /\ DOMAIN g = 0..Len(s)
  /\ g[0] = << >>
  /\ \A i \in 1..Len(s) : g[i] = g[i - 1] \o s[i]

(* They exist. *)
LEMMA PartialExists ==
  ASSUME NEW S, NEW s \in Seq(Seq(S))
  PROVE  \E g \in [0..Len(s) -> Seq(S)] : IsPartial(s, g)
<1>. DEFINE P(n) == \E g \in [0..n -> Seq(S)] :
                      g[0] = << >> /\ \A i \in 1..n : g[i] = g[i - 1] \o s[i]
            T == {n \in Nat : n <= Len(s) => P(n)}
<1>1. P(0)
  <2>. DEFINE h == [i \in 0..0 |-> << >>]
  <2>1. h \in [0..0 -> Seq(S)] /\ h[0] = << >>
    OBVIOUS
  <2>2. \A i \in 1..0 : h[i] = h[i - 1] \o s[i]
    OBVIOUS
  <2>. HIDE DEF h
  <2>. QED
    BY <2>1, <2>2
<1>2. ASSUME NEW n \in Nat, n + 1 <= Len(s), P(n) PROVE P(n + 1)
  <2>1. PICK g \in [0..n -> Seq(S)] :
          g[0] = << >> /\ \A i \in 1..n : g[i] = g[i - 1] \o s[i]
    BY <1>2
  <2>2. s[n + 1] \in Seq(S) /\ g[n] \in Seq(S)
    BY <1>2
  <2>3. g[n] \o s[n + 1] \in Seq(S)
    BY <2>2, ConcatProperties
  <2>. DEFINE h == [i \in 0..(n + 1) |-> IF i = n + 1 THEN g[n] \o s[n + 1] ELSE g[i]]
  <2>4. h \in [0..(n + 1) -> Seq(S)]
    BY <2>3
  <2>5. h[0] = << >> /\ h[n + 1] = g[n] \o s[n + 1] /\ \A i \in 0..n : h[i] = g[i]
    <3>1. /\ n + 1 \in 0..(n + 1) /\ 0 \in 0..n
          /\ \A i \in 0..n : i \in 0..(n + 1) /\ i # n + 1
      OBVIOUS
    <3>. QED
      BY <2>1, <3>1, Zenon
  <2>. HIDE DEF h
  <2>6. ASSUME NEW i \in 1..(n + 1) PROVE h[i] = h[i - 1] \o s[i]
    <3>1. CASE i = n + 1
      <4>1. i - 1 = n /\ n \in 0..n
        BY <3>1
      <4>2. h[n] = g[n]
        BY <2>5, <4>1
      <4>. QED
        BY <2>5, <3>1, <4>1, <4>2
    <3>2. CASE i # n + 1
      <4>1. i \in 1..n /\ i - 1 \in 0..n /\ i \in 0..n
        BY <3>2
      <4>. QED
        BY <2>1, <2>5, <4>1
    <3>. QED
      BY <3>1, <3>2
  <2>. QED
    BY <2>4, <2>5, <2>6
<1>. HIDE DEF P
<1>3. Len(s) \in Nat
  OBVIOUS
<1>4. T = Nat
  <2>1. T \subseteq Nat /\ 0 \in T
    BY <1>1
  <2>2. ASSUME NEW n \in T PROVE n + 1 \in T
    BY <1>2, <1>3
  <2>. HIDE DEF T
  <2>. QED
    BY <2>1, <2>2, Induction
<1>5. P(Len(s))
  BY <1>3, <1>4
<1>. QED
  BY <1>5 DEF IsPartial, P

(* FlattenSeq is the last of them. *)
LEMMA FlattenPartial ==
  ASSUME NEW S, NEW s \in Seq(Seq(S)), NEW g \in [0..Len(s) -> Seq(S)], IsPartial(s, g)
  PROVE  FlattenSeq(s) = g[Len(s)]
<1>1. CASE Len(s) = 0
  <2>1. s = << >> /\ g[0] = << >>
    BY <1>1, EmptySeq, Zenon DEF IsPartial
  <2>2. FlattenSeq(<< >>) = << >>
    BY DEF FlattenSeq
  <2>. QED
    BY <1>1, <2>1, <2>2, Zenon
<1>3. /\ \A i \in 1..Len(s) : g[i] = g[i - 1] \o s[i] /\ g[i - 1] \in Seq(S)
      /\ Len(s) > 0 => g[1] = s[1]
  <2>1. \A i \in 1..Len(s) : g[i] = g[i - 1] \o s[i] /\ g[i - 1] \in Seq(S)
    <3>1. \A i \in 1..Len(s) : i - 1 \in 0..Len(s)
      OBVIOUS
    <3>. QED
      BY <3>1, Zenon DEF IsPartial
  <2>2. ASSUME Len(s) > 0 PROVE g[1] = s[1]
    <3>1. 1 \in 1..Len(s) /\ s[1] \in Seq(S)
      BY <2>2
    <3>2. \A i \in 1..Len(s) : i = 1 => g[i] = << >> \o s[i]
      <4>. SUFFICES ASSUME NEW i \in 1..Len(s), i = 1 PROVE g[i] = << >> \o s[i]
        OBVIOUS
      <4>1. i - 1 = 0
        OBVIOUS
      <4>. QED
        BY <2>1, <4>1 DEF IsPartial
    <3>3. g[1] = << >> \o s[1]
      BY <3>1, <3>2
    <3>. QED
      BY <3>1, <3>3, ConcatEmptySeq
  <2>. QED
    BY <2>1, <2>2
<1>2. CASE Len(s) # 0
  <2>. DEFINE Step(f) == [i \in 1..Len(s) |-> IF i = 1 THEN s[i] ELSE f[i - 1] \o s[i]]
              f == CHOOSE f : f = Step(f)
  <2>1. FlattenSeq(s) = f[Len(s)]
    BY <1>2 DEF FlattenSeq
  <2>2. f = Step(f)
    <3>. DEFINE h == [i \in 1..Len(s) |-> g[i]]
    <3>1. ASSUME NEW i \in 1..Len(s)
          PROVE  h[i] = IF i = 1 THEN s[i] ELSE h[i - 1] \o s[i]
      <4>1. CASE i = 1
        BY <1>3, <4>1
      <4>2. CASE i # 1
        <5>1. i - 1 \in 1..Len(s)
          BY <4>2
        <5>2. h[i] = g[i] /\ h[i - 1] = g[i - 1]
          BY <5>1
        <5>. QED
          BY <1>3, <4>2, <5>2
      <4>. QED
        BY <4>1, <4>2
    <3>2. h = Step(h)
      BY <3>1
    <3>. QED
      BY <3>2
  <2>. HIDE DEF f
  <2>3. \A i \in 1..Len(s) : f[i] = IF i = 1 THEN s[i] ELSE f[i - 1] \o s[i]
    BY <2>2
  <2>. DEFINE P(n) == f[n + 1] = g[n + 1]
              T == {n \in Nat : n + 1 <= Len(s) => P(n)}
  <2>4. P(0)
    <3>1. 1 \in 1..Len(s)
      BY <1>2
    <3>. QED
      BY <1>3, <2>3, <3>1
  <2>5. ASSUME NEW n \in Nat, (n + 1) + 1 <= Len(s), P(n) PROVE P(n + 1)
    <3>. DEFINE i == (n + 1) + 1
    <3>1. i \in 1..Len(s) /\ i # 1 /\ i - 1 = n + 1
      BY <2>5
    <3>2. f[i] = f[i - 1] \o s[i] /\ g[i] = g[i - 1] \o s[i]
      BY <1>3, <2>3, <3>1
    <3>. QED
      BY <2>5, <3>1, <3>2
  <2>. HIDE DEF P
  <2>6. Len(s) \in Nat
    OBVIOUS
  <2>7. T = Nat
    <3>1. T \subseteq Nat /\ 0 \in T
      BY <2>4
    <3>2. ASSUME NEW n \in T PROVE n + 1 \in T
      BY <2>5, <2>6
    <3>. HIDE DEF T
    <3>. QED
      BY <3>1, <3>2, Induction
  <2>8. P(Len(s) - 1)
    <3>1. Len(s) - 1 \in Nat /\ (Len(s) - 1) + 1 <= Len(s)
      BY <1>2, <2>6
    <3>. QED
      BY <2>7, <3>1
  <2>9. (Len(s) - 1) + 1 = Len(s)
    BY <2>6
  <2>. QED
    BY <2>1, <2>8, <2>9 DEF P
<1>. QED
  BY <1>1, <1>2

(* A concatenation of sequences is one. *)
LEMMA FlattenTyped ==
  ASSUME NEW S, NEW s \in Seq(Seq(S))
  PROVE  FlattenSeq(s) \in Seq(S)
<1>1. PICK g \in [0..Len(s) -> Seq(S)] : IsPartial(s, g)
  BY PartialExists
<1>2. FlattenSeq(s) = g[Len(s)]
  BY <1>1, FlattenPartial
<1>. QED
  BY <1>2

(* Nothing to concatenate. *)
LEMMA FlattenEmpty == FlattenSeq(<< >>) = << >>
  BY DEF FlattenSeq

(* One sequence. *)
LEMMA FlattenOne ==
  ASSUME NEW S, NEW e \in Seq(S)
  PROVE  FlattenSeq(<<e>>) = e
<1>. DEFINE g == [i \in 0..1 |-> IF i = 0 THEN << >> ELSE e]
<1>1. <<e>> \in Seq(Seq(S)) /\ Len(<<e>>) = 1 /\ <<e>>[1] = e
  OBVIOUS
<1>2. g \in [0..1 -> Seq(S)] /\ g[0] = << >> /\ g[1] = e
  OBVIOUS
<1>3. << >> \o e = e
  BY ConcatEmptySeq
<1>. HIDE DEF g
<1>4. \A i \in 1..1 : g[i] = g[i - 1] \o <<e>>[i]
  <2>. SUFFICES ASSUME NEW i \in 1..1 PROVE g[i] = g[i - 1] \o <<e>>[i]
    OBVIOUS
  <2>1. i = 1 /\ i - 1 = 0
    OBVIOUS
  <2>. QED
    BY <1>1, <1>2, <1>3, <2>1
<1>5. IsPartial(<<e>>, g)
  BY <1>1, <1>2, <1>4 DEF IsPartial
<1>. QED
  BY <1>1, <1>2, <1>5, FlattenPartial

(* Concatenation is associative. *)
LEMMA Regroup ==
  /\ \A a, b, c \in Seq(Nat) : (a \o b) \o c = a \o (b \o c)
  /\ \A a, b, c \in Seq(Seq(Nat)) : (a \o b) \o c = a \o (b \o c)
<1>1. ASSUME NEW a \in Seq(Nat), NEW b \in Seq(Nat), NEW c \in Seq(Nat)
      PROVE  (a \o b) \o c = a \o (b \o c)
  BY ConcatAssociative
<1>2. ASSUME NEW a \in Seq(Seq(Nat)), NEW b \in Seq(Seq(Nat)), NEW c \in Seq(Seq(Nat))
      PROVE  (a \o b) \o c = a \o (b \o c)
  BY ConcatAssociative
<1>. QED
  BY <1>1, <1>2, Zenon

Grouped(a, b, c) == (a \o b) \o c = a \o (b \o c)

LEMMA RegroupAny ==
  ASSUME NEW S
  PROVE  \A a, b, c \in Seq(S) : Grouped(a, b, c)
  BY ConcatAssociative DEF Grouped

(* Two parts are concatenated one by one. *)
LEMMA FlattenConcat ==
  ASSUME NEW S, NEW s \in Seq(Seq(S)), NEW t \in Seq(Seq(S))
  PROVE  FlattenSeq(s \o t) = FlattenSeq(s) \o FlattenSeq(t)
<1>0. \A a, b, c \in Seq(S) : Grouped(a, b, c)
  BY RegroupAny
<1>1. PICK g \in [0..Len(s) -> Seq(S)] : IsPartial(s, g)
  BY PartialExists
<1>2. PICK h \in [0..Len(t) -> Seq(S)] : IsPartial(t, h)
  BY PartialExists
<1>. DEFINE m == Len(s)
            n == Len(t)
            k == [i \in 0..(m + n) |-> IF i <= m THEN g[i] ELSE g[m] \o h[i - m]]
<1>3. /\ m \in Nat /\ n \in Nat
      /\ s \o t \in Seq(Seq(S)) /\ Len(s \o t) = m + n
      /\ \A i \in 1..(m + n) : (s \o t)[i] = IF i <= m THEN s[i] ELSE t[i - m]
  BY ConcatProperties
<1>4. /\ g[0] = << >> /\ \A i \in 1..m : g[i] = g[i - 1] \o s[i]
      /\ h[0] = << >> /\ \A i \in 1..n : h[i] = h[i - 1] \o t[i]
  BY <1>1, <1>2 DEF IsPartial
<1>5. /\ \A i \in 1..m : s[i] \in Seq(S)
      /\ \A i \in 1..n : t[i] \in Seq(S)
  OBVIOUS
<1>6. g[m] \in Seq(S) /\ \A i \in 0..n : g[m] \o h[i] \in Seq(S)
  <2>1. m \in 0..m
    BY <1>3
  <2>2. g[m] \in Seq(S) /\ \A i \in 0..n : h[i] \in Seq(S)
    BY <2>1
  <2>. QED
    BY <2>2, ConcatProperties
<1>. HIDE DEF m, n
<1>7. k \in [0..(m + n) -> Seq(S)]
  <2>1. ASSUME NEW i \in 0..(m + n) PROVE (IF i <= m THEN g[i] ELSE g[m] \o h[i - m]) \in Seq(S)
    <3>1. CASE i <= m
      <4>1. i \in 0..m
        BY <1>3, <3>1
      <4>2. \A l \in 0..m : g[l] \in Seq(S)
        BY DEF m
      <4>. QED
        BY <3>1, <4>1, <4>2
    <3>2. CASE ~(i <= m)
      <4>1. i - m \in 0..n
        BY <1>3, <3>2
      <4>. QED
        BY <1>6, <3>2, <4>1
    <3>. QED
      BY <3>1, <3>2
  <2>. QED
    BY <2>1
<1>8. /\ \A i \in 0..m : k[i] = g[i]
      /\ \A i \in 0..n : k[m + i] = g[m] \o h[i]
  <2>1. \A i \in 0..m : k[i] = g[i]
    BY <1>3
  <2>2. ASSUME NEW i \in 0..n PROVE k[m + i] = g[m] \o h[i]
    <3>1. CASE i = 0
      <4>1. k[m + i] = g[m]
        BY <1>3, <3>1
      <4>. QED
        BY <1>4, <1>6, <3>1, <4>1, ConcatEmptySeq
    <3>2. CASE i # 0
      <4>1. m + i \in 0..(m + n) /\ ~(m + i <= m) /\ (m + i) - m = i
        BY <1>3, <3>2
      <4>. QED
        BY <4>1
    <3>. QED
      BY <3>1, <3>2
  <2>. QED
    BY <2>1, <2>2
<1>. HIDE DEF k
<1>9. ASSUME NEW i \in 1..(m + n) PROVE k[i] = k[i - 1] \o (s \o t)[i]
  <2>1. CASE i <= m
    <3>1. i \in 1..m /\ i \in 0..m /\ i - 1 \in 0..m
      BY <1>3, <2>1
    <3>. QED
      BY <1>3, <1>4, <1>8, <2>1, <3>1
  <2>2. CASE ~(i <= m)
    <3>1. PICK j \in 1..n : i = m + j
      <4>1. i - m \in 1..n /\ i = m + (i - m)
        BY <1>3, <2>2
      <4>. QED
        BY <4>1
    <3>2. j \in 0..n /\ j - 1 \in 0..n /\ i - 1 = m + (j - 1) /\ i - m = j
      BY <1>3, <3>1
    <3>3. k[i] = g[m] \o h[j] /\ k[i - 1] = g[m] \o h[j - 1] /\ (s \o t)[i] = t[j]
      BY <1>3, <1>8, <2>2, <3>1, <3>2
    <3>4. h[j] = h[j - 1] \o t[j]
      BY <1>4
    <3>5. g[m] \in Seq(S) /\ h[j - 1] \in Seq(S) /\ t[j] \in Seq(S)
      <4>1. g[m] \in Seq(S)
        <5>1. m \in 0..m
          BY <1>3
        <5>. QED
          BY <5>1 DEF m
      <4>2. h[j - 1] \in Seq(S)
        BY <3>2 DEF n
      <4>. QED
        BY <1>5, <4>1, <4>2
    <3>6. (g[m] \o h[j - 1]) \o t[j] = g[m] \o (h[j - 1] \o t[j])
      <4>1. PICK a \in Seq(S), b \in Seq(S), c \in Seq(S) : a = g[m] /\ b = h[j - 1] /\ c = t[j]
        BY <3>5, Zenon
      <4>2. (a \o b) \o c = a \o (b \o c)
        <5>1. Grouped(a, b, c)
          BY <1>0, Zenon
        <5>. QED
          BY <5>1, Zenon DEF Grouped
      <4>. QED
        BY <4>1, <4>2, Zenon
    <3>. QED
      BY <3>3, <3>4, <3>6
  <2>. QED
    BY <2>1, <2>2
<1>10. IsPartial(s \o t, k)
  <2>1. k[0] = << >>
    BY <1>3, <1>4, <1>8
  <2>2. DOMAIN k = 0..(m + n)
    BY <1>7
  <2>. QED
    BY <1>3, <1>9, <2>1, <2>2 DEF IsPartial
<1>11. FlattenSeq(s \o t) = k[m + n]
  BY <1>3, <1>7, <1>10, FlattenPartial
<1>12. FlattenSeq(s) = g[m] /\ FlattenSeq(t) = h[n]
  BY <1>1, <1>2, FlattenPartial DEF m, n
<1>13. n \in 0..n
  BY <1>3
<1>. QED
  BY <1>8, <1>11, <1>12, <1>13

(* The first sequence comes first. *)
LEMMA FlattenFirst ==
  ASSUME NEW S, NEW e \in Seq(S), NEW t \in Seq(Seq(S))
  PROVE  FlattenSeq(<<e>> \o t) = e \o FlattenSeq(t)
<1>1. <<e>> \in Seq(Seq(S))
  OBVIOUS
<1>2. FlattenSeq(<<e>> \o t) = FlattenSeq(<<e>>) \o FlattenSeq(t)
  BY <1>1, FlattenConcat
<1>3. FlattenSeq(<<e>>) = e
  BY FlattenOne
<1>. QED
  BY <1>2, <1>3

(* Sequences of sequences can be concatenated one by one. *)
LEMMA FlattenTwice ==
  ASSUME NEW S, NEW ss \in Seq(Seq(Seq(S)))
  PROVE  FlattenSeq(FlattenSeq(ss)) = FlattenSeq([i \in DOMAIN ss |-> FlattenSeq(ss[i])])
<1>1. PICK g \in [0..Len(ss) -> Seq(Seq(S))] : IsPartial(ss, g)
  BY PartialExists
<1>. DEFINE n == Len(ss)
            each == [i \in DOMAIN ss |-> FlattenSeq(ss[i])]
            k == [i \in 0..n |-> FlattenSeq(g[i])]
<1>2. n \in Nat /\ DOMAIN ss = 1..n /\ \A i \in 1..n : ss[i] \in Seq(Seq(S))
  OBVIOUS
<1>3. /\ each \in Seq(Seq(S)) /\ Len(each) = n
      /\ \A i \in 1..n : each[i] = FlattenSeq(ss[i])
  <2>1. \A i \in 1..n : FlattenSeq(ss[i]) \in Seq(S)
    BY <1>2, FlattenTyped
  <2>. QED
    BY <1>2, <2>1
<1>4. \A i \in 0..n : g[i] \in Seq(Seq(S))
  OBVIOUS
<1>5. g[0] = << >> /\ \A i \in 1..n : g[i] = g[i - 1] \o ss[i]
  BY <1>1 DEF IsPartial
<1>. HIDE DEF n, each
<1>6. k \in [0..n -> Seq(S)] /\ \A i \in 0..n : k[i] = FlattenSeq(g[i])
  <2>1. \A i \in 0..n : FlattenSeq(g[i]) \in Seq(S)
    BY <1>4, FlattenTyped
  <2>. QED
    BY <2>1
<1>. HIDE DEF k
<1>7. IsPartial(each, k)
  <2>1. k[0] = << >>
    <3>1. 0 \in 0..n
      BY <1>2
    <3>. QED
      BY <1>5, <1>6, <3>1, FlattenEmpty
  <2>2. ASSUME NEW i \in 1..n PROVE k[i] = k[i - 1] \o each[i]
    <3>1. i \in 0..n /\ i - 1 \in 0..n
      BY <1>2
    <3>2. g[i - 1] \in Seq(Seq(S)) /\ ss[i] \in Seq(Seq(S))
      BY <1>2, <1>4, <3>1
    <3>3. FlattenSeq(g[i - 1] \o ss[i]) = FlattenSeq(g[i - 1]) \o FlattenSeq(ss[i])
      BY <3>2, FlattenConcat
    <3>. QED
      BY <1>3, <1>5, <1>6, <3>1, <3>3
  <2>. QED
    BY <1>3, <1>6, <2>1, <2>2 DEF IsPartial
<1>8. FlattenSeq(each) = k[n]
  BY <1>3, <1>6, <1>7, FlattenPartial
<1>9. FlattenSeq(ss) = g[n]
  BY <1>1, FlattenPartial DEF n
<1>10. n \in 0..n
  BY <1>2
<1>. QED
  BY <1>6, <1>8, <1>9, <1>10 DEF each

-----------------------------------------------------------------------------
(* Codes *)

(* A code is a function to sequences of numbers.  It can be read back if no
   word of it is the beginning of another one, so that what follows a word
   cannot be mistaken for a part of it. *)
Agree(a, s, b, t) == a \o s = b \o t

Decodable(E) ==
  \A a, b \in DOMAIN E : \A s, t \in Seq(Nat) : Agree(E[a], s, E[b], t) => a = b /\ s = t

Coded(E, xs) == FlattenSeq([i \in DOMAIN xs |-> E[xs[i]]])

(* Words of one length are told apart by their numbers. *)
LEMMA EquallyLong ==
  ASSUME NEW a \in Seq(Nat), NEW b \in Seq(Nat), NEW s \in Seq(Nat), NEW t \in Seq(Nat),
         Len(a) = Len(b), Agree(a, s, b, t)
  PROVE  a = b /\ s = t
<1>. USE DEF Agree
<1>1. a = b
  <2>1. ASSUME NEW i \in 1..Len(a) PROVE a[i] = b[i]
    <3>1. (a \o s)[i] = a[i] /\ (b \o t)[i] = b[i]
      OBVIOUS
    <3>. QED
      BY <3>1
  <2>. QED
    BY <2>1, SeqEqual
<1>2. s = t
  <2>1. \A u, v, w \in Seq(Nat) : u \o v = u \o w => v = w
    BY ConcatSimplifications
  <2>. QED
    BY <1>1, <2>1
<1>. QED
  BY <1>1, <1>2

(* Single numbers can be read back. *)
LEMMA NumberFirst ==
  ASSUME NEW a \in Nat, NEW b \in Nat, NEW s \in Seq(Nat), NEW t \in Seq(Nat),
         Agree(<<a>>, s, <<b>>, t)
  PROVE  a = b /\ s = t
<1>1. <<a>> \in Seq(Nat) /\ <<b>> \in Seq(Nat) /\ Len(<<a>>) = Len(<<b>>)
  OBVIOUS
<1>2. <<a>> = <<b>> /\ s = t
  BY <1>1, EquallyLong
<1>. QED
  BY <1>2

(* The terminator ends a name: it is in no name (WriteString). *)
LEMMA StringFirst ==
  ASSUME NEW a \in Seq(Nat \ {0}), NEW b \in Seq(Nat \ {0}),
         NEW s \in Seq(Nat), NEW t \in Seq(Nat), Agree(String(a), s, String(b), t)
  PROVE  a = b /\ s = t
<1>1. ASSUME NEW x \in Seq(Nat \ {0}), NEW u \in Seq(Nat)
      PROVE  /\ String(x) \in Seq(Nat) /\ Len(String(x)) = Len(x) + 1
             /\ \A i \in 1..Len(x) : (String(x) \o u)[i] = x[i] /\ x[i] # 0
             /\ (String(x) \o u)[Len(x) + 1] = 0
  <2>1. x \in Seq(Nat)
    BY SeqMonotonic
  <2>2. /\ String(x) \in Seq(Nat) /\ Len(String(x)) = Len(x) + 1
        /\ \A i \in 1..Len(x) : String(x)[i] = x[i]
        /\ String(x)[Len(x) + 1] = 0
    BY <2>1, AppendProperties DEF String
  <2>3. \A i \in 1..(Len(x) + 1) : (String(x) \o u)[i] = String(x)[i]
    BY <2>2
  <2>4. \A i \in 1..Len(x) : x[i] # 0
    OBVIOUS
  <2>5. Len(x) \in Nat
    OBVIOUS
  <2>. QED
    BY <2>2, <2>3, <2>4, <2>5
<1>2. Len(a) \in Nat /\ Len(b) \in Nat
  OBVIOUS
<1>. DEFINE word == String(a) \o s
<1>3. /\ String(a) \in Seq(Nat) /\ Len(String(a)) = Len(a) + 1
      /\ \A i \in 1..Len(a) : word[i] = a[i] /\ a[i] # 0
      /\ word[Len(a) + 1] = 0
  BY <1>1
<1>4. /\ String(b) \in Seq(Nat) /\ Len(String(b)) = Len(b) + 1
      /\ \A i \in 1..Len(b) : word[i] = b[i] /\ b[i] # 0
      /\ word[Len(b) + 1] = 0
  <2>1. word = String(b) \o t
    BY DEF Agree
  <2>. HIDE DEF word
  <2>. QED
    BY <1>1, <2>1
<1>5. Len(a) = Len(b)
  <2>. HIDE DEF word
  <2>1. CASE Len(a) < Len(b)
    <3>1. Len(a) + 1 \in 1..Len(b)
      BY <1>2, <2>1
    <3>. QED
      BY <1>3, <1>4, <3>1
  <2>2. CASE Len(b) < Len(a)
    <3>1. Len(b) + 1 \in 1..Len(a)
      BY <1>2, <2>2
    <3>. QED
      BY <1>3, <1>4, <3>1
  <2>. QED
    BY <1>2, <2>1, <2>2
<1>6. String(a) = String(b) /\ s = t
  <2>1. /\ String(a) \in Seq(Nat) /\ String(b) \in Seq(Nat)
        /\ Len(String(a)) = Len(String(b))
    BY <1>3, <1>4, <1>5
  <2>. QED
    BY <2>1, EquallyLong
<1>7. a = b
  <2>1. \A i \in 1..Len(a) : a[i] = b[i]
    BY <1>5, <1>3, <1>4
  <2>. QED
    BY <1>5, <2>1, SeqEqual
<1>. QED
  BY <1>6, <1>7

(* A word that begins with a part. *)
LEMMA FlattenBegins ==
  ASSUME NEW e \in Seq(Nat), NEW r \in Seq(Seq(Nat)), NEW s \in Seq(Nat)
  PROVE  FlattenSeq(<<e>> \o r) \o s = e \o (FlattenSeq(r) \o s)
<1>1. FlattenSeq(<<e>> \o r) = e \o FlattenSeq(r) /\ FlattenSeq(r) \in Seq(Nat)
  BY FlattenFirst, FlattenTyped
<1>2. (e \o FlattenSeq(r)) \o s = e \o (FlattenSeq(r) \o s)
  BY <1>1, ConcatAssociative
<1>. QED
  BY <1>1, <1>2

(* What is left of two words that agree and begin with parts. *)
LEMMA PartsAgree ==
  ASSUME NEW d \in Seq(Nat), NEW e \in Seq(Nat),
         NEW q \in Seq(Seq(Nat)), NEW r \in Seq(Seq(Nat)),
         NEW s \in Seq(Nat), NEW t \in Seq(Nat),
         Agree(FlattenSeq(<<d>> \o q), s, FlattenSeq(<<e>> \o r), t)
  PROVE  /\ FlattenSeq(q) \o s \in Seq(Nat) /\ FlattenSeq(r) \o t \in Seq(Nat)
         /\ Agree(d, FlattenSeq(q) \o s, e, FlattenSeq(r) \o t)
<1>1. /\ FlattenSeq(<<d>> \o q) \o s = d \o (FlattenSeq(q) \o s)
      /\ FlattenSeq(<<e>> \o r) \o t = e \o (FlattenSeq(r) \o t)
  BY FlattenBegins
<1>2. FlattenSeq(q) \in Seq(Nat) /\ FlattenSeq(r) \in Seq(Nat)
  BY FlattenTyped
<1>3. FlattenSeq(q) \o s \in Seq(Nat) /\ FlattenSeq(r) \o t \in Seq(Nat)
  BY <1>2, ConcatProperties
<1>. QED
  BY <1>1, <1>3 DEF Agree

(* A number in front is read. *)
LEMMA NumberRead ==
  ASSUME NEW a \in Nat, NEW b \in Nat, NEW q \in Seq(Seq(Nat)), NEW r \in Seq(Seq(Nat)),
         NEW s \in Seq(Nat), NEW t \in Seq(Nat),
         Agree(FlattenSeq(<< <<a>> >> \o q), s, FlattenSeq(<< <<b>> >> \o r), t)
  PROVE  a = b /\ Agree(FlattenSeq(q), s, FlattenSeq(r), t)
<1>1. <<a>> \in Seq(Nat) /\ <<b>> \in Seq(Nat)
  OBVIOUS
<1>2. /\ FlattenSeq(q) \o s \in Seq(Nat) /\ FlattenSeq(r) \o t \in Seq(Nat)
      /\ Agree(<<a>>, FlattenSeq(q) \o s, <<b>>, FlattenSeq(r) \o t)
  BY <1>1, PartsAgree
<1>3. a = b /\ FlattenSeq(q) \o s = FlattenSeq(r) \o t
  BY <1>2, NumberFirst
<1>. QED
  BY <1>3 DEF Agree

(* And so is a name. *)
LEMMA StringRead ==
  ASSUME NEW a \in Seq(Nat \ {0}), NEW b \in Seq(Nat \ {0}),
         NEW q \in Seq(Seq(Nat)), NEW r \in Seq(Seq(Nat)),
         NEW s \in Seq(Nat), NEW t \in Seq(Nat),
         Agree(FlattenSeq(<<String(a)>> \o q), s, FlattenSeq(<<String(b)>> \o r), t)
  PROVE  a = b /\ Agree(FlattenSeq(q), s, FlattenSeq(r), t)
<1>1. String(a) \in Seq(Nat) /\ String(b) \in Seq(Nat)
  BY SeqMonotonic, AppendProperties DEF String
<1>2. /\ FlattenSeq(q) \o s \in Seq(Nat) /\ FlattenSeq(r) \o t \in Seq(Nat)
      /\ Agree(String(a), FlattenSeq(q) \o s, String(b), FlattenSeq(r) \o t)
  BY <1>1, PartsAgree
<1>3. a = b /\ FlattenSeq(q) \o s = FlattenSeq(r) \o t
  BY <1>2, StringFirst
<1>. QED
  BY <1>3 DEF Agree

(* A list of words, from its first one on. *)
LEMMA CodedFirst ==
  ASSUME NEW S, NEW E \in [S -> Seq(Nat)], NEW xs \in Seq(S)
  PROVE  /\ Coded(E, xs) \in Seq(Nat)
         /\ xs = << >> => Coded(E, xs) = << >>
         /\ xs # << >> => Coded(E, xs) = E[Head(xs)] \o Coded(E, Tail(xs))
<1>. DEFINE Words(ys) == [i \in DOMAIN ys |-> E[ys[i]]]
<1>1. ASSUME NEW ys \in Seq(S)
      PROVE  /\ Words(ys) \in Seq(Seq(Nat)) /\ Len(Words(ys)) = Len(ys)
             /\ \A i \in 1..Len(ys) : Words(ys)[i] = E[ys[i]]
  <2>1. DOMAIN ys = 1..Len(ys) /\ Len(ys) \in Nat /\ \A i \in 1..Len(ys) : ys[i] \in S
    OBVIOUS
  <2>2. \A i \in 1..Len(ys) : E[ys[i]] \in Seq(Nat)
    BY <2>1
  <2>. QED
    BY <2>1, <2>2
<1>2. xs = << >> => Words(xs) = << >>
  OBVIOUS
<1>3. ASSUME xs # << >> PROVE Words(xs) = <<E[Head(xs)]>> \o Words(Tail(xs))
  <2>1. /\ Head(xs) \in S /\ Head(xs) = xs[1] /\ Tail(xs) \in Seq(S)
        /\ Len(Tail(xs)) = Len(xs) - 1 /\ Len(xs) \in Nat \ {0}
        /\ \A i \in 1..Len(Tail(xs)) : Tail(xs)[i] = xs[i + 1]
    BY <1>3, HeadTailProperties, EmptySeq
  <2>. DEFINE both == <<E[Head(xs)]>> \o Words(Tail(xs))
  <2>2. <<E[Head(xs)]>> \in Seq(Seq(Nat)) /\ Len(<<E[Head(xs)]>>) = 1
    BY <2>1
  <2>3. /\ both \in Seq(Seq(Nat)) /\ Len(both) = Len(xs)
        /\ both[1] = E[xs[1]]
        /\ \A i \in 1..Len(Tail(xs)) : both[i + 1] = Words(Tail(xs))[i]
    BY <1>1, <2>1, <2>2
  <2>4. ASSUME NEW i \in 1..Len(xs) PROVE both[i] = Words(xs)[i]
    <3>1. CASE i = 1
      BY <1>1, <2>3, <3>1
    <3>2. CASE i # 1
      <4>1. i - 1 \in 1..Len(Tail(xs)) /\ (i - 1) + 1 = i
        BY <2>1, <3>2
      <4>2. both[i] = Words(Tail(xs))[i - 1]
        BY <2>3, <4>1
      <4>3. Words(Tail(xs))[i - 1] = E[Tail(xs)[i - 1]]
        BY <1>1, <2>1, <4>1
      <4>. QED
        BY <1>1, <2>1, <4>1, <4>2, <4>3
    <3>. QED
      BY <3>1, <3>2
  <2>. HIDE DEF both, Words
  <2>5. both = Words(xs)
    BY <1>1, <2>3, <2>4, SeqEqual
  <2>. QED
    BY <2>5 DEF both
<1>. HIDE DEF Words
<1>4. Coded(E, xs) = FlattenSeq(Words(xs)) /\ Coded(E, Tail(xs)) = FlattenSeq(Words(Tail(xs)))
  BY DEF Coded, Words
<1>5. ASSUME xs # << >>
      PROVE  FlattenSeq(<<E[Head(xs)]>> \o Words(Tail(xs)))
               = E[Head(xs)] \o FlattenSeq(Words(Tail(xs)))
  <2>1. E[Head(xs)] \in Seq(Nat) /\ Words(Tail(xs)) \in Seq(Seq(Nat))
    BY <1>1, <1>5, HeadTailProperties
  <2>. QED
    BY <2>1, FlattenFirst
<1>. QED
  BY <1>1, <1>2, <1>3, <1>4, <1>5, FlattenTyped, FlattenEmpty

(* Lists of words can be read back if their number is known, for the words
   can. *)
SameLength(S, E, xs, ys) ==
  /\ E \in [S -> Seq(Nat)] /\ Decodable(E)
  /\ xs \in Seq(S) /\ ys \in Seq(S) /\ Len(xs) = Len(ys)

LEMMA ListRead ==
  ASSUME NEW S, NEW E, NEW xs, NEW ys, SameLength(S, E, xs, ys),
         NEW s \in Seq(Nat), NEW t \in Seq(Nat), Agree(Coded(E, xs), s, Coded(E, ys), t)
  PROVE  xs = ys /\ s = t
<1>. SUFFICES ASSUME E \in [S -> Seq(Nat)], Decodable(E),
                     xs \in Seq(S), ys \in Seq(S), Len(xs) = Len(ys)
              PROVE  xs = ys /\ s = t
  BY DEF SameLength
<1>. DEFINE P(n) == \A v, w \in Seq(S) :
                      (Len(v) = n /\ Len(w) = n /\ Agree(Coded(E, v), s, Coded(E, w), t))
                        => v = w /\ s = t
            T == {n \in Nat : P(n)}
<1>1. P(0)
  <2>. SUFFICES ASSUME NEW v \in Seq(S), NEW w \in Seq(S), Len(v) = 0, Len(w) = 0,
                       Agree(Coded(E, v), s, Coded(E, w), t)
                PROVE  v = w /\ s = t
    OBVIOUS
  <2>1. v = << >> /\ w = << >>
    BY EmptySeq
  <2>2. << >> \o s = << >> \o t
    BY <2>1, CodedFirst DEF Agree
  <2>. QED
    BY <2>1, <2>2, ConcatEmptySeq
<1>2. ASSUME NEW n \in Nat, P(n) PROVE P(n + 1)
  <2>. SUFFICES ASSUME NEW v \in Seq(S), NEW w \in Seq(S), Len(v) = n + 1, Len(w) = n + 1,
                       Agree(Coded(E, v), s, Coded(E, w), t)
                PROVE  v = w /\ s = t
    OBVIOUS
  <2>1. v # << >> /\ w # << >>
    OBVIOUS
  <2>2. /\ Head(v) \in S /\ Tail(v) \in Seq(S) /\ Len(Tail(v)) = n
        /\ Head(w) \in S /\ Tail(w) \in Seq(S) /\ Len(Tail(w)) = n
        /\ \A i \in 1..n : Tail(v)[i] = v[i + 1] /\ Tail(w)[i] = w[i + 1]
    BY <2>1, HeadTailProperties
  <2>3. /\ Coded(E, v) \o s = (E[Head(v)] \o Coded(E, Tail(v))) \o s
        /\ Coded(E, w) \o t = (E[Head(w)] \o Coded(E, Tail(w))) \o t
    BY <2>1, CodedFirst
  <2>4. /\ E[Head(v)] \in Seq(Nat) /\ E[Head(w)] \in Seq(Nat)
        /\ Coded(E, Tail(v)) \in Seq(Nat) /\ Coded(E, Tail(w)) \in Seq(Nat)
    BY <2>2, CodedFirst
  <2>5. Agree(E[Head(v)], Coded(E, Tail(v)) \o s, E[Head(w)], Coded(E, Tail(w)) \o t)
    <3>1. (E[Head(v)] \o Coded(E, Tail(v))) \o s = E[Head(v)] \o (Coded(E, Tail(v)) \o s)
      BY <2>4, Regroup, Zenon
    <3>2. (E[Head(w)] \o Coded(E, Tail(w))) \o t = E[Head(w)] \o (Coded(E, Tail(w)) \o t)
      BY <2>4, Regroup, Zenon
    <3>. QED
      BY <2>3, <3>1, <3>2, Zenon DEF Agree
  <2>6. Coded(E, Tail(v)) \o s \in Seq(Nat) /\ Coded(E, Tail(w)) \o t \in Seq(Nat)
    BY <2>4, ConcatProperties
  <2>7. Head(v) = Head(w) /\ Agree(Coded(E, Tail(v)), s, Coded(E, Tail(w)), t)
    <3>1. \A a, b \in S : \A c, d \in Seq(Nat) : Agree(E[a], c, E[b], d) => a = b /\ c = d
      <4>1. DOMAIN E = S
        OBVIOUS
      <4>. QED
        BY <4>1, Zenon DEF Decodable
    <3>2. PICK a \in S, b \in S, c \in Seq(Nat), d \in Seq(Nat) :
            /\ a = Head(v) /\ b = Head(w)
            /\ c = Coded(E, Tail(v)) \o s /\ d = Coded(E, Tail(w)) \o t
      BY <2>2, <2>6, Zenon
    <3>3. Agree(E[a], c, E[b], d)
      BY <2>5, <3>2, Zenon
    <3>4. a = b /\ c = d
      BY <3>1, <3>3, Zenon
    <3>5. Coded(E, Tail(v)) \o s = Coded(E, Tail(w)) \o t
      BY <3>2, <3>4, Zenon
    <3>. QED
      BY <3>2, <3>4, <3>5, Zenon DEF Agree
  <2>8. Tail(v) = Tail(w) /\ s = t
    BY <1>2, <2>2, <2>7
  <2>9. ASSUME NEW i \in 1..Len(v) PROVE v[i] = w[i]
    <3>1. CASE i = 1
      BY <2>7, <3>1
    <3>2. CASE i # 1
      <4>1. i - 1 \in 1..n /\ (i - 1) + 1 = i
        BY <3>2
      <4>. QED
        BY <2>2, <2>8, <4>1
    <3>. QED
      BY <3>1, <3>2
  <2>. QED
    BY <2>8, <2>9, SeqEqual
<1>. HIDE DEF P
<1>3. T = Nat
  <2>1. T \subseteq Nat /\ 0 \in T /\ \A n \in T : n + 1 \in T
    BY <1>1, <1>2
  <2>. HIDE DEF T
  <2>. QED
    BY <2>1, Induction
<1>4. P(Len(xs))
  <2>1. Len(xs) \in Nat
    OBVIOUS
  <2>. QED
    BY <1>3, <2>1
<1>. QED
  BY <1>4 DEF P

-----------------------------------------------------------------------------
(* The writes of a symbol, one by one *)

(* What is left of a sequence of writes. *)
From(w, k) == SubSeq(w, k, Len(w))

LEMMA FromTyped ==
  ASSUME NEW S, NEW w \in Seq(S), NEW k \in 1..(Len(w) + 1)
  PROVE  /\ From(w, k) \in Seq(S) /\ Len(From(w, k)) = Len(w) + 1 - k
         /\ \A i \in 1..(Len(w) + 1 - k) : From(w, k)[i] = w[k + i - 1]
  BY SubSeqProperties DEF From

(* The next write is taken from them. *)
LEMMA FromNext ==
  ASSUME NEW S, NEW w \in Seq(S), NEW k \in 1..Len(w)
  PROVE  From(w, k) = <<w[k]>> \o From(w, k + 1)
<1>1. k \in 1..Len(w) /\ Len(w) \in k..Len(w)
  OBVIOUS
<1>. QED
  BY <1>1, SubSeqRecursiveFirst DEF From

(* At the beginning and at the end. *)
LEMMA FromEnds ==
  ASSUME NEW S, NEW w \in Seq(S)
  PROVE  From(w, 1) = w /\ From(w, Len(w) + 1) = << >>
<1>1. From(w, 1) = w
  <2>1. /\ From(w, 1) \in Seq(S) /\ Len(From(w, 1)) = Len(w)
        /\ \A i \in 1..Len(w) : From(w, 1)[i] = w[i]
    <3>1. 1 \in 1..(Len(w) + 1) /\ Len(w) + 1 - 1 = Len(w) /\ \A i \in Nat : 1 + i - 1 = i
      OBVIOUS
    <3>2. /\ From(w, 1) \in Seq(S) /\ Len(From(w, 1)) = Len(w) + 1 - 1
          /\ \A i \in 1..(Len(w) + 1 - 1) : From(w, 1)[i] = w[1 + i - 1]
      BY <3>1, FromTyped, Zenon
    <3>. QED
      BY <3>1, <3>2
  <2>. QED
    BY <2>1, SeqEqual
<1>2. From(w, Len(w) + 1) \in Seq(S) /\ Len(From(w, Len(w) + 1)) = 0
  BY FromTyped
<1>. QED
  BY <1>1, <1>2, EmptySeq

(* A part of the writes that comes after others. *)
LEMMA FromConcat ==
  ASSUME NEW S, NEW p \in Seq(S), NEW m \in Seq(S)
  PROVE  From(p \o m, Len(p) + 1) = m
<1>1. PICK w \in Seq(S) : w = p \o m
  BY ConcatProperties
<1>2. /\ Len(w) = Len(p) + Len(m) /\ Len(p) \in Nat /\ Len(m) \in Nat
      /\ \A i \in 1..Len(m) : w[Len(p) + i] = m[i]
  BY <1>1
<1>3. Len(p) + 1 \in 1..(Len(w) + 1) /\ Len(w) + 1 - (Len(p) + 1) = Len(m)
  BY <1>2
<1>4. /\ From(w, Len(p) + 1) \in Seq(S) /\ Len(From(w, Len(p) + 1)) = Len(m)
      /\ \A i \in 1..Len(m) : From(w, Len(p) + 1)[i] = w[Len(p) + 1 + i - 1]
  BY <1>3, FromTyped
<1>5. ASSUME NEW i \in 1..Len(m) PROVE From(w, Len(p) + 1)[i] = m[i]
  <2>1. Len(p) + 1 + i - 1 = Len(p) + i
    BY <1>2
  <2>. QED
    BY <1>2, <1>4, <2>1
<1>. QED
  BY <1>1, <1>4, <1>5, SeqEqual

(* Reading on in two sequences of writes that agree from the k-th write on. *)
Reads(w, s, v, t, k) == Agree(FlattenSeq(From(w, k)), s, FlattenSeq(From(v, k)), t)

LEMMA NumberAt ==
  ASSUME NEW w \in Seq(Seq(Nat)), NEW v \in Seq(Seq(Nat)), NEW s \in Seq(Nat), NEW t \in Seq(Nat),
         NEW k \in 1..Len(w), k <= Len(v), Reads(w, s, v, t, k),
         NEW a \in Nat, NEW b \in Nat, w[k] = <<a>>, v[k] = <<b>>
  PROVE  a = b /\ Reads(w, s, v, t, k + 1)
<1>1. /\ From(w, k) = << <<a>> >> \o From(w, k + 1)
      /\ From(v, k) = << <<b>> >> \o From(v, k + 1)
  <2>1. k \in 1..Len(v)
    OBVIOUS
  <2>2. From(w, k) = <<w[k]>> \o From(w, k + 1)
    BY FromNext
  <2>3. From(v, k) = <<v[k]>> \o From(v, k + 1)
    BY <2>1, FromNext
  <2>. QED
    BY <2>2, <2>3, Zenon
<1>2. From(w, k + 1) \in Seq(Seq(Nat)) /\ From(v, k + 1) \in Seq(Seq(Nat))
  BY FromTyped
<1>3. Agree(FlattenSeq(<< <<a>> >> \o From(w, k + 1)), s,
            FlattenSeq(<< <<b>> >> \o From(v, k + 1)), t)
  BY <1>1, Zenon DEF Reads
<1>. QED
  BY <1>2, <1>3, NumberRead DEF Reads

LEMMA StringAt ==
  ASSUME NEW w \in Seq(Seq(Nat)), NEW v \in Seq(Seq(Nat)), NEW s \in Seq(Nat), NEW t \in Seq(Nat),
         NEW k \in 1..Len(w), k <= Len(v), Reads(w, s, v, t, k),
         NEW a \in Seq(Nat \ {0}), NEW b \in Seq(Nat \ {0}), w[k] = String(a), v[k] = String(b)
  PROVE  a = b /\ Reads(w, s, v, t, k + 1)
<1>1. /\ From(w, k) = <<String(a)>> \o From(w, k + 1)
      /\ From(v, k) = <<String(b)>> \o From(v, k + 1)
  <2>1. k \in 1..Len(v)
    OBVIOUS
  <2>2. From(w, k) = <<w[k]>> \o From(w, k + 1)
    BY FromNext
  <2>3. From(v, k) = <<v[k]>> \o From(v, k + 1)
    BY <2>1, FromNext
  <2>. QED
    BY <2>2, <2>3, Zenon
<1>2. From(w, k + 1) \in Seq(Seq(Nat)) /\ From(v, k + 1) \in Seq(Seq(Nat))
  BY FromTyped
<1>3. Agree(FlattenSeq(<<String(a)>> \o From(w, k + 1)), s,
            FlattenSeq(<<String(b)>> \o From(v, k + 1)), t)
  BY <1>1, Zenon DEF Reads
<1>. QED
  BY <1>2, <1>3, StringRead DEF Reads

(* Writes of one kind, numbers or names, are told apart. *)
Numbers == {<<n>> : n \in Nat}
Strings == {String(name) : name \in ByteNames}
SameKind(p, q) == (p \in Numbers /\ q \in Numbers) \/ (p \in Strings /\ q \in Strings)

LEMMA PartAt ==
  ASSUME NEW w \in Seq(Seq(Nat)), NEW v \in Seq(Seq(Nat)), NEW s \in Seq(Nat), NEW t \in Seq(Nat),
         NEW k \in 1..Len(w), k <= Len(v), Reads(w, s, v, t, k), SameKind(w[k], v[k])
  PROVE  w[k] = v[k] /\ Reads(w, s, v, t, k + 1)
<1>1. CASE w[k] \in Numbers /\ v[k] \in Numbers
  <2>1. PICK a \in Nat, b \in Nat : w[k] = <<a>> /\ v[k] = <<b>>
    BY <1>1, Zenon DEF Numbers
  <2>2. a = b /\ Reads(w, s, v, t, k + 1)
    BY <2>1, NumberAt
  <2>. QED
    BY <2>1, <2>2, Zenon
<1>2. CASE w[k] \in Strings /\ v[k] \in Strings
  <2>1. PICK a \in Seq(Nat \ {0}), b \in Seq(Nat \ {0}) : w[k] = String(a) /\ v[k] = String(b)
    BY <1>2, Zenon DEF Strings, ByteNames
  <2>2. a = b /\ Reads(w, s, v, t, k + 1)
    BY <2>1, StringAt
  <2>. QED
    BY <2>1, <2>2, Zenon
<1>. QED
  BY <1>1, <1>2 DEF SameKind

SameKinds(w, v, n) == n <= Len(w) /\ n <= Len(v) /\ \A k \in 1..n : SameKind(w[k], v[k])

SameParts(w, v, n) == \A k \in 1..n : w[k] = v[k]

(* Many of them, by induction. *)
LEMMA PartsRead ==
  ASSUME NEW w \in Seq(Seq(Nat)), NEW v \in Seq(Seq(Nat)), NEW s \in Seq(Nat), NEW t \in Seq(Nat),
         NEW n \in Nat, Reads(w, s, v, t, 1), SameKinds(w, v, n)
  PROVE  Reads(w, s, v, t, n + 1) /\ SameParts(w, v, n)
<1>0. n <= Len(w) /\ n <= Len(v) /\ \A k \in 1..n : SameKind(w[k], v[k])
  BY Zenon DEF SameKinds
<1>. DEFINE P(m) == m <= n => Reads(w, s, v, t, m + 1) /\ \A k \in 1..m : w[k] = v[k]
            T == {m \in Nat : P(m)}
<1>1. P(0)
  OBVIOUS
<1>2. ASSUME NEW m \in Nat, P(m) PROVE P(m + 1)
  <2>. SUFFICES ASSUME m + 1 <= n
                PROVE  /\ Reads(w, s, v, t, (m + 1) + 1)
                       /\ \A k \in 1..(m + 1) : w[k] = v[k]
    OBVIOUS
  <2>1. PICK j \in 1..Len(w) : j = m + 1 /\ j <= Len(v) /\ j \in 1..n
    BY <1>0
  <2>2. Reads(w, s, v, t, j) /\ \A k \in 1..m : w[k] = v[k]
    BY <1>2, <2>1
  <2>3. SameKind(w[j], v[j]) /\ j <= Len(v)
    BY <1>0, <2>1
  <2>4. w[j] = v[j] /\ Reads(w, s, v, t, j + 1)
    BY <2>2, <2>3, PartAt
  <2>5. \A k \in 1..(m + 1) : k = j \/ k \in 1..m
    BY <2>1
  <2>. QED
    BY <2>1, <2>2, <2>4, <2>5
<1>. HIDE DEF P
<1>3. T = Nat
  <2>1. T \subseteq Nat /\ 0 \in T /\ \A m \in T : m + 1 \in T
    BY <1>1, <1>2
  <2>. HIDE DEF T
  <2>. QED
    BY <2>1, Induction
<1>4. P(n)
  BY <1>3
<1>. QED
  BY <1>4 DEF P, SameParts

(* Nothing is left on either side. *)
LEMMA AllRead ==
  ASSUME NEW w \in Seq(Seq(Nat)), NEW v \in Seq(Seq(Nat)), NEW s \in Seq(Nat), NEW t \in Seq(Nat),
         NEW k, k = Len(w) + 1, k = Len(v) + 1, Reads(w, s, v, t, k)
  PROVE  s = t
<1>1. From(w, k) = << >> /\ From(v, k) = << >>
  BY FromEnds
<1>2. << >> \o s = << >> \o t
  BY <1>1, FlattenEmpty DEF Reads, Agree
<1>. QED
  BY <1>2, ConcatEmptySeq

(* A name's write says which name it is. *)
LEMMA StringSays ==
  ASSUME NEW a \in ByteNames, NEW b \in ByteNames, String(a) = String(b)
  PROVE  a = b
<1>1. a \in Seq(Nat \ {0}) /\ b \in Seq(Nat \ {0}) /\ << >> \in Seq(Nat)
  BY DEF ByteNames
<1>2. Agree(String(a), << >>, String(b), << >>)
  BY Zenon DEF Agree
<1>. QED
  BY <1>1, <1>2, StringFirst

-----------------------------------------------------------------------------
(* Symbols *)

Fields == FieldSymbols(ByteNames)
Types == TypeSymbols(ByteNames)
Functions == FunctionSymbols(ByteNames)

(* The writes are sequences of numbers. *)
LEMMA WritesTyped ==
  /\ \A n \in Nat : <<n>> \in Seq(Nat)
  /\ \A name \in ByteNames : String(name) \in Seq(Nat)
<1>1. ASSUME NEW n \in Nat PROVE <<n>> \in Seq(Nat)
  OBVIOUS
<1>2. ASSUME NEW name \in ByteNames PROVE String(name) \in Seq(Nat)
  BY SeqMonotonic, AppendProperties DEF String, ByteNames
<1>. QED
  BY <1>1, <1>2

(* A field's. *)
LEMMA FieldWritesTyped ==
  ASSUME NEW z \in Fields
  PROVE  /\ FieldWrites(z) \in Seq(Seq(Nat))
         /\ Len(FieldWrites(z)) = 6
         /\ FieldWrites(z)[1] = <<z.id>>
         /\ FieldWrites(z)[2] = String(z.name)
         /\ FieldWrites(z)[3] = <<z.underlyingTypeId>>
         /\ FieldWrites(z)[4] = <<z.offset>>
         /\ FieldWrites(z)[5] = <<IF z.isAnonymousUnion THEN 1 ELSE 0>>
         /\ FieldWrites(z)[6] = <<z.unionId>>
<1>1. /\ z.id \in Nat /\ z.name \in ByteNames /\ z.underlyingTypeId \in Nat
      /\ z.offset \in Nat /\ (IF z.isAnonymousUnion THEN 1 ELSE 0) \in Nat /\ z.unionId \in Nat
  BY DEF Fields, FieldSymbols
<1>2. PICK S : S = Seq(Nat)
  OBVIOUS
<1>3. PICK a \in S, b \in S, c \in S, d \in S, e \in S, f \in S :
        /\ a = <<z.id>> /\ b = String(z.name) /\ c = <<z.underlyingTypeId>>
        /\ d = <<z.offset>> /\ e = <<IF z.isAnonymousUnion THEN 1 ELSE 0>> /\ f = <<z.unionId>>
  BY <1>1, <1>2, WritesTyped
<1>4. FieldWrites(z) = <<a, b, c, d, e, f>>
  BY <1>3, Zenon DEF FieldWrites
<1>5. <<a, b, c, d, e, f>> \in Seq(S)
  OBVIOUS
<1>. QED
  BY <1>2, <1>3, <1>4, <1>5

LEMMA SameFields ==
  ASSUME NEW x \in Fields, NEW y \in Fields,
         x.id = y.id, x.name = y.name, x.underlyingTypeId = y.underlyingTypeId,
         x.offset = y.offset, x.isAnonymousUnion = y.isAnonymousUnion, x.unionId = y.unionId
  PROVE  x = y
  BY DEF Fields, FieldSymbols

(* A field can be read back. *)
LEMMA FieldRead ==
  ASSUME NEW x \in Fields, NEW y \in Fields, NEW s \in Seq(Nat), NEW t \in Seq(Nat),
         Agree(FlattenSeq(FieldWrites(x)), s, FlattenSeq(FieldWrites(y)), t)
  PROVE  x = y /\ s = t
<1>. DEFINE flag(z) == IF z.isAnonymousUnion THEN 1 ELSE 0
<1>1. ASSUME NEW z \in Fields
      PROVE  /\ z.id \in Nat /\ z.name \in ByteNames /\ z.underlyingTypeId \in Nat
             /\ z.offset \in Nat /\ z.isAnonymousUnion \in BOOLEAN /\ z.unionId \in Nat
             /\ flag(z) \in Nat
  BY DEF Fields, FieldSymbols
<1>2. PICK w \in Seq(Seq(Nat)), v \in Seq(Seq(Nat)) : w = FieldWrites(x) /\ v = FieldWrites(y)
  BY FieldWritesTyped
<1>3. /\ w[1] = <<x.id>> /\ v[1] = <<y.id>>
      /\ w[2] = String(x.name) /\ v[2] = String(y.name)
      /\ w[3] = <<x.underlyingTypeId>> /\ v[3] = <<y.underlyingTypeId>>
      /\ w[4] = <<x.offset>> /\ v[4] = <<y.offset>>
      /\ w[5] = <<flag(x)>> /\ v[5] = <<flag(y)>>
      /\ w[6] = <<x.unionId>> /\ v[6] = <<y.unionId>>
  BY <1>2, FieldWritesTyped, Zenon
<1>4. 6 <= Len(w) /\ 6 <= Len(v) /\ 7 = Len(w) + 1 /\ 7 = Len(v) + 1
  <2>1. Len(w) = 6 /\ Len(v) = 6
    BY <1>2, FieldWritesTyped, Zenon
  <2>. QED
    BY <2>1
<1>. HIDE DEF flag
<1>5. Reads(w, s, v, t, 1)
  BY <1>2, FromEnds, Zenon DEF Reads
<1>6. \A k \in 1..6 : SameKind(w[k], v[k])
  <2>1. /\ SameKind(w[1], v[1]) /\ SameKind(w[2], v[2]) /\ SameKind(w[3], v[3])
        /\ SameKind(w[4], v[4]) /\ SameKind(w[5], v[5]) /\ SameKind(w[6], v[6])
    BY <1>1, <1>3, Zenon DEF SameKind, Numbers, Strings
  <2>2. \A k \in 1..6 : k = 1 \/ k = 2 \/ k = 3 \/ k = 4 \/ k = 5 \/ k = 6
    OBVIOUS
  <2>. QED
    BY <2>1, <2>2, Zenon
<1>7. Reads(w, s, v, t, 7) /\ \A k \in 1..6 : w[k] = v[k]
  <2>1. PICK n \in Nat : n = 6
    OBVIOUS
  <2>2. n <= Len(w) /\ n <= Len(v) /\ \A k \in 1..n : SameKind(w[k], v[k])
    BY <1>4, <1>6, <2>1, Zenon
  <2>3. Reads(w, s, v, t, n + 1) /\ \A k \in 1..n : w[k] = v[k]
    <3>1. Reads(w, s, v, t, n + 1) /\ SameParts(w, v, n)
      BY <1>5, <2>2, PartsRead, Zenon DEF SameKinds
    <3>. QED
      BY <3>1, Zenon DEF SameParts
  <2>4. n + 1 = 7
    BY <2>1
  <2>. QED
    BY <2>1, <2>3, <2>4, Zenon
<1>8. s = t
  BY <1>4, <1>7, AllRead, Zenon
<1>9. w[1] = v[1] /\ w[2] = v[2] /\ w[3] = v[3] /\ w[4] = v[4] /\ w[5] = v[5] /\ w[6] = v[6]
  BY <1>7
<1>10. /\ x.id = y.id /\ x.name = y.name /\ x.underlyingTypeId = y.underlyingTypeId
       /\ x.offset = y.offset /\ flag(x) = flag(y) /\ x.unionId = y.unionId
  <2>1. x.id = y.id
    BY <1>3, <1>9
  <2>2. x.name = y.name
    BY <1>1, <1>3, <1>9, StringSays
  <2>3. x.underlyingTypeId = y.underlyingTypeId
    BY <1>3, <1>9
  <2>4. x.offset = y.offset
    BY <1>3, <1>9
  <2>5. flag(x) = flag(y)
    BY <1>3, <1>9
  <2>6. x.unionId = y.unionId
    BY <1>3, <1>9
  <2>. QED
    BY <2>1, <2>2, <2>3, <2>4, <2>5, <2>6, Zenon
<1>11. x.isAnonymousUnion = y.isAnonymousUnion
  BY <1>1, <1>10 DEF flag
<1>. QED
  <2>1. x = y
    BY <1>10, <1>11, SameFields
  <2>. QED
    BY <1>8, <2>1

(* The writes of all elements of a list, one element after the other. *)
WritesOf(V, xs) == FlattenSeq([i \in DOMAIN xs |-> V[xs[i]]])

(* E gives the bytes of the writes V gives. *)
BytesOf(S, V, E) ==
  V \in [S -> Seq(Seq(Nat))] /\ E \in [S -> Seq(Nat)] /\ \A x \in S : E[x] = FlattenSeq(V[x])

LEMMA ListWrites ==
  ASSUME NEW S, NEW V, NEW E, BytesOf(S, V, E), NEW xs \in Seq(S)
  PROVE  WritesOf(V, xs) \in Seq(Seq(Nat)) /\ FlattenSeq(WritesOf(V, xs)) = Coded(E, xs)
<1>0. /\ V \in [S -> Seq(Seq(Nat))] /\ E \in [S -> Seq(Nat)]
      /\ \A x \in S : E[x] = FlattenSeq(V[x])
  BY DEF BytesOf
<1>1. DOMAIN xs = 1..Len(xs) /\ Len(xs) \in Nat /\ \A i \in 1..Len(xs) : xs[i] \in S
  OBVIOUS
<1>. DEFINE ss == [i \in DOMAIN xs |-> V[xs[i]]]
<1>2. \A i \in 1..Len(xs) : V[xs[i]] \in Seq(Seq(Nat))
  BY <1>0, <1>1
<1>3. ss \in Seq(Seq(Seq(Nat))) /\ DOMAIN ss = DOMAIN xs /\ \A i \in DOMAIN xs : ss[i] = V[xs[i]]
  BY <1>1, <1>2
<1>. HIDE DEF ss
<1>4. FlattenSeq(ss) \in Seq(Seq(Nat))
  BY <1>3, FlattenTyped
<1>5. FlattenSeq(FlattenSeq(ss)) = FlattenSeq([i \in DOMAIN ss |-> FlattenSeq(ss[i])])
  BY <1>3, FlattenTwice
<1>6. [i \in DOMAIN ss |-> FlattenSeq(ss[i])] = [i \in DOMAIN xs |-> E[xs[i]]]
  BY <1>0, <1>1, <1>3
<1>. QED
  BY <1>4, <1>5, <1>6, Zenon DEF ss, Coded, WritesOf

(* Writes of a list. *)
ListOf(E, xs, m) == FlattenSeq(m) = Coded(E, xs)

(* Two lists of the same length and their writes. *)
TwoLists(S, E, xs, m, ys, n) ==
  /\ SameLength(S, E, xs, ys)
  /\ m \in Seq(Seq(Nat)) /\ n \in Seq(Seq(Nat))
  /\ ListOf(E, xs, m) /\ ListOf(E, ys, n)

(* What follows two lists. *)
AgreeAfter(m, q, s, n, r, t) ==
  /\ q \in Seq(Seq(Nat)) /\ r \in Seq(Seq(Nat)) /\ s \in Seq(Nat) /\ t \in Seq(Nat)
  /\ Agree(FlattenSeq(m \o q), s, FlattenSeq(n \o r), t)

(* A list whose length is known is read, whatever follows it. *)
LEMMA CountedRead ==
  ASSUME NEW S, NEW E, NEW xs, NEW ys, NEW m, NEW n, TwoLists(S, E, xs, m, ys, n),
         NEW q, NEW r, NEW s, NEW t, AgreeAfter(m, q, s, n, r, t)
  PROVE  xs = ys /\ Agree(FlattenSeq(q), s, FlattenSeq(r), t)
<1>0. TwoLists(S, E, xs, m, ys, n) /\ AgreeAfter(m, q, s, n, r, t)
  OBVIOUS
<1>a. m \in Seq(Seq(Nat)) /\ n \in Seq(Seq(Nat))
  BY <1>0, Zenon DEF TwoLists
<1>b. q \in Seq(Seq(Nat)) /\ r \in Seq(Seq(Nat)) /\ s \in Seq(Nat) /\ t \in Seq(Nat)
  BY <1>0, Zenon DEF AgreeAfter
<1>1. PICK c \in Seq(Nat), d \in Seq(Nat), e \in Seq(Nat), f \in Seq(Nat) :
        c = FlattenSeq(m) /\ d = FlattenSeq(n) /\ e = FlattenSeq(q) /\ f = FlattenSeq(r)
  BY <1>a, <1>b, FlattenTyped
<1>2. FlattenSeq(m \o q) = c \o e /\ FlattenSeq(n \o r) = d \o f
  BY <1>1, <1>a, <1>b, FlattenConcat, Zenon
<1>3. (c \o e) \o s = c \o (e \o s) /\ (d \o f) \o t = d \o (f \o t)
  <2>1. Grouped(c, e, s) /\ Grouped(d, f, t)
    BY <1>b, RegroupAny, Zenon
  <2>. QED
    BY <2>1, Zenon DEF Grouped
<1>4. Agree(c, e \o s, d, f \o t)
  BY <1>0, <1>2, <1>3, Zenon DEF Agree, AgreeAfter
<1>5. e \o s \in Seq(Nat) /\ f \o t \in Seq(Nat)
  BY <1>b, ConcatProperties
<1>6. PICK g \in Seq(Nat), h \in Seq(Nat) : g = e \o s /\ h = f \o t
  BY <1>5
<1>7. Agree(Coded(E, xs), g, Coded(E, ys), h)
  BY <1>0, <1>1, <1>4, <1>6, Zenon DEF TwoLists, ListOf
<1>8. xs = ys /\ g = h
  <2>1. SameLength(S, E, xs, ys)
    BY <1>0, Zenon DEF TwoLists
  <2>. QED
    BY <1>7, <2>1, ListRead
<1>. QED
  BY <1>1, <1>6, <1>8, Zenon DEF Agree

(* The fields of a type. *)
FieldCode == [f \in Fields |-> FlattenSeq(FieldWrites(f))]

LEMMA FieldsDecodable ==
  /\ FieldCode \in [Fields -> Seq(Nat)]
  /\ Decodable(FieldCode)
<1>1. ASSUME NEW f \in Fields PROVE FlattenSeq(FieldWrites(f)) \in Seq(Nat)
  BY FieldWritesTyped, FlattenTyped
<1>2. FieldCode \in [Fields -> Seq(Nat)]
  BY <1>1 DEF FieldCode
<1>3. DOMAIN FieldCode = Fields /\ \A f \in Fields : FieldCode[f] = FlattenSeq(FieldWrites(f))
  BY DEF FieldCode
<1>4. ASSUME NEW a \in Fields, NEW b \in Fields, NEW s \in Seq(Nat), NEW t \in Seq(Nat),
             Agree(FieldCode[a], s, FieldCode[b], t)
      PROVE  a = b /\ s = t
  <2>1. Agree(FlattenSeq(FieldWrites(a)), s, FlattenSeq(FieldWrites(b)), t)
    BY <1>3, <1>4, Zenon
  <2>. QED
    BY <2>1, FieldRead
<1>. QED
  BY <1>2, <1>3, <1>4, Zenon DEF Decodable

LEMMA FieldListWrites ==
  ASSUME NEW fields \in Seq(Fields)
  PROVE  /\ FlattenSeq([i \in DOMAIN fields |-> FieldWrites(fields[i])]) \in Seq(Seq(Nat))
         /\ FlattenSeq(FlattenSeq([i \in DOMAIN fields |-> FieldWrites(fields[i])]))
              = Coded(FieldCode, fields)
<1>. DEFINE V == [f \in Fields |-> FieldWrites(f)]
<1>1. V \in [Fields -> Seq(Seq(Nat))] /\ \A f \in Fields : V[f] = FieldWrites(f)
  BY FieldWritesTyped
<1>2. \A f \in Fields : FieldCode[f] = FlattenSeq(V[f])
  BY DEF FieldCode
<1>. HIDE DEF V
<1>3. [i \in DOMAIN fields |-> FieldWrites(fields[i])] = [i \in DOMAIN fields |-> V[fields[i]]]
  <2>1. \A i \in DOMAIN fields : fields[i] \in Fields
    OBVIOUS
  <2>2. \A i \in DOMAIN fields : FieldWrites(fields[i]) = V[fields[i]]
    BY <1>1, <2>1
  <2>. QED
    BY <2>2
<1>4. BytesOf(Fields, V, FieldCode)
  BY <1>1, <1>2, FieldsDecodable, Zenon DEF BytesOf
<1>5. WritesOf(V, fields) \in Seq(Seq(Nat)) /\ FlattenSeq(WritesOf(V, fields)) = Coded(FieldCode, fields)
  BY <1>4, ListWrites, Zenon
<1>. QED
  BY <1>3, <1>5, Zenon DEF WritesOf

(* The writes in front of others. *)
LEMMA FrontOf ==
  ASSUME NEW S, NEW h \in Seq(S), NEW r \in Seq(S)
  PROVE  /\ Len(h) <= Len(h \o r)
         /\ \A k \in 1..Len(h) : (h \o r)[k] = h[k]
         /\ From(h \o r, Len(h) + 1) = r
<1>1. Len(h \o r) = Len(h) + Len(r) /\ Len(h) \in Nat /\ Len(r) \in Nat
  OBVIOUS
<1>2. \A k \in 1..Len(h) : (h \o r)[k] = h[k]
  OBVIOUS
<1>3. From(h \o r, Len(h) + 1) = r
  BY FromConcat
<1>. QED
  BY <1>1, <1>2, <1>3

(* A type's writes: six, those of its fields, and one. *)
LEMMA TypeWritesTyped ==
  ASSUME NEW z \in Types
  PROVE  LET w == TypeWrites(z)
             m == FlattenSeq([i \in DOMAIN z.fields |-> FieldWrites(z.fields[i])])
             last == << <<z.typedefSource>> >>
         IN  /\ w \in Seq(Seq(Nat)) /\ 6 <= Len(w)
             /\ w[1] = <<z.id>>
             /\ w[2] = String(z.name)
             /\ w[3] = <<Kinds[z.type]>>
             /\ w[4] = <<z.length>>
             /\ w[5] = <<z.fieldCount>>
             /\ w[6] = <<Len(z.fields)>>
             /\ m \in Seq(Seq(Nat)) /\ last \in Seq(Seq(Nat))
             /\ From(w, 7) = m \o last
<1>1. /\ z.id \in Nat /\ z.name \in ByteNames /\ Kinds[z.type] \in Nat /\ z.length \in Nat
      /\ z.fieldCount \in Nat /\ z.fields \in Seq(Fields) /\ Len(z.fields) \in Nat
      /\ z.typedefSource \in Nat
  BY DEF Types, TypeSymbols, Fields, Kinds, TypeKinds
<1>2. PICK S : S = Seq(Nat)
  OBVIOUS
<1>3. PICK a \in S, b \in S, c \in S, d \in S, e \in S, f \in S, g \in S :
        /\ a = <<z.id>> /\ b = String(z.name) /\ c = <<Kinds[z.type]>>
        /\ d = <<z.length>> /\ e = <<z.fieldCount>> /\ f = <<Len(z.fields)>>
        /\ g = <<z.typedefSource>>
  BY <1>1, <1>2, WritesTyped
<1>4. PICK m \in Seq(S) :
        m = FlattenSeq([i \in DOMAIN z.fields |-> FieldWrites(z.fields[i])])
  BY <1>1, <1>2, FieldListWrites
<1>5. TypeWrites(z) = (<<a, b, c, d, e, f>> \o m) \o <<g>>
  BY <1>3, <1>4, Zenon DEF TypeWrites
<1>6. PICK h \in Seq(S), last \in Seq(S) :
        /\ h = <<a, b, c, d, e, f>> /\ last = <<g>>
        /\ Len(h) = 6 /\ h[1] = a /\ h[2] = b /\ h[3] = c /\ h[4] = d /\ h[5] = e /\ h[6] = f
  <2>. DEFINE h == <<a, b, c, d, e, f>>
  <2>1. h \in Seq(S) /\ <<g>> \in Seq(S)
    OBVIOUS
  <2>2. Len(h) = 6 /\ h[1] = a /\ h[2] = b /\ h[3] = c /\ h[4] = d /\ h[5] = e /\ h[6] = f
    OBVIOUS
  <2>. QED
    BY <2>1, <2>2, Zenon
<1>7. PICK r \in Seq(S) : r = m \o last
  BY ConcatProperties
<1>8. PICK w \in Seq(S) : w = h \o r /\ w = TypeWrites(z)
  <2>1. (h \o m) \o last = h \o (m \o last)
    BY ConcatAssociative
  <2>2. h \o r \in Seq(S)
    BY ConcatProperties
  <2>3. TypeWrites(z) = h \o r
    BY <1>5, <1>6, <1>7, <2>1, Zenon
  <2>. QED
    BY <2>2, <2>3, Zenon
<1>9. /\ Len(h) <= Len(w) /\ \A k \in 1..Len(h) : w[k] = h[k]
      /\ From(w, Len(h) + 1) = r
  <2>1. /\ Len(h) <= Len(h \o r) /\ \A k \in 1..Len(h) : (h \o r)[k] = h[k]
        /\ From(h \o r, Len(h) + 1) = r
    BY FrontOf
  <2>. QED
    BY <1>8, <2>1, Zenon
<1>10. /\ 1 \in 1..Len(h) /\ 2 \in 1..Len(h) /\ 3 \in 1..Len(h) /\ 4 \in 1..Len(h)
       /\ 5 \in 1..Len(h) /\ 6 \in 1..Len(h) /\ Len(h) + 1 = 7
  BY <1>6
<1>11. /\ 6 <= Len(w) /\ w[1] = a /\ w[2] = b /\ w[3] = c /\ w[4] = d /\ w[5] = e /\ w[6] = f
       /\ From(w, 7) = r
  BY <1>6, <1>9, <1>10, Zenon
<1>. QED
  BY <1>2, <1>3, <1>4, <1>6, <1>7, <1>8, <1>11, Zenon

(* Kinds and calling conventions are told apart by their numbers. *)
LEMMA KindsDiffer ==
  /\ \A a, b \in TypeKinds : Kinds[a] = Kinds[b] => a = b
  /\ \A a, b \in CallingConventions : Conventions[a] = Conventions[b] => a = b
  BY DEF Kinds, TypeKinds, Conventions, CallingConventions

LEMMA SameTypes ==
  ASSUME NEW x \in Types, NEW y \in Types,
         x.id = y.id, x.name = y.name, x.type = y.type, x.length = y.length,
         x.fieldCount = y.fieldCount, x.fields = y.fields, x.typedefSource = y.typedefSource
  PROVE  x = y
  BY DEF Types, TypeSymbols

(* A type can be read back. *)
LEMMA TypeRead ==
  ASSUME NEW x \in Types, NEW y \in Types, NEW s \in Seq(Nat), NEW t \in Seq(Nat),
         Agree(FlattenSeq(TypeWrites(x)), s, FlattenSeq(TypeWrites(y)), t)
  PROVE  x = y /\ s = t
<1>1. ASSUME NEW z \in Types
      PROVE  /\ z.id \in Nat /\ z.name \in ByteNames /\ z.type \in TypeKinds
             /\ Kinds[z.type] \in Nat /\ z.length \in Nat /\ z.fieldCount \in Nat
             /\ z.fields \in Seq(Fields) /\ Len(z.fields) \in Nat /\ z.typedefSource \in Nat
  <2>1. /\ z.id \in Nat /\ z.name \in ByteNames /\ z.type \in TypeKinds
        /\ z.length \in Nat /\ z.fieldCount \in Nat
        /\ z.fields \in Seq(Fields) /\ z.typedefSource \in Nat
    BY DEF Types, TypeSymbols, Fields
  <2>2. Len(z.fields) \in Nat
    BY <2>1
  <2>3. \A kind \in TypeKinds : Kinds[kind] \in Nat
    BY DEF Kinds, TypeKinds
  <2>. QED
    BY <2>1, <2>2, <2>3, Zenon
<1>2. PICK w \in Seq(Seq(Nat)), v \in Seq(Seq(Nat)) : w = TypeWrites(x) /\ v = TypeWrites(y)
  BY TypeWritesTyped, Zenon
<1>3. /\ w[1] = <<x.id>> /\ v[1] = <<y.id>>
      /\ w[2] = String(x.name) /\ v[2] = String(y.name)
      /\ w[3] = <<Kinds[x.type]>> /\ v[3] = <<Kinds[y.type]>>
      /\ w[4] = <<x.length>> /\ v[4] = <<y.length>>
      /\ w[5] = <<x.fieldCount>> /\ v[5] = <<y.fieldCount>>
      /\ w[6] = <<Len(x.fields)>> /\ v[6] = <<Len(y.fields)>>
      /\ 6 <= Len(w) /\ 6 <= Len(v)
  BY <1>2, TypeWritesTyped, Zenon
<1>4. Reads(w, s, v, t, 1)
  BY <1>2, FromEnds, Zenon DEF Reads
<1>5. \A k \in 1..6 : SameKind(w[k], v[k])
  <2>1. /\ SameKind(w[1], v[1]) /\ SameKind(w[2], v[2]) /\ SameKind(w[3], v[3])
        /\ SameKind(w[4], v[4]) /\ SameKind(w[5], v[5]) /\ SameKind(w[6], v[6])
    BY <1>1, <1>3, Zenon DEF SameKind, Numbers, Strings
  <2>2. \A k \in 1..6 : k = 1 \/ k = 2 \/ k = 3 \/ k = 4 \/ k = 5 \/ k = 6
    OBVIOUS
  <2>. QED
    BY <2>1, <2>2, Zenon
<1>6. Reads(w, s, v, t, 7) /\ \A k \in 1..6 : w[k] = v[k]
  <2>1. PICK n \in Nat : n = 6
    OBVIOUS
  <2>2. n <= Len(w) /\ n <= Len(v) /\ \A k \in 1..n : SameKind(w[k], v[k])
    BY <1>3, <1>5, <2>1, Zenon
  <2>3. Reads(w, s, v, t, n + 1) /\ \A k \in 1..n : w[k] = v[k]
    <3>1. Reads(w, s, v, t, n + 1) /\ SameParts(w, v, n)
      BY <1>4, <2>2, PartsRead, Zenon DEF SameKinds
    <3>. QED
      BY <3>1, Zenon DEF SameParts
  <2>4. n + 1 = 7
    BY <2>1
  <2>. QED
    BY <2>1, <2>3, <2>4, Zenon
<1>7. w[1] = v[1] /\ w[2] = v[2] /\ w[3] = v[3] /\ w[4] = v[4] /\ w[5] = v[5] /\ w[6] = v[6]
  BY <1>6
<1>8. /\ x.id = y.id /\ x.name = y.name /\ x.type = y.type /\ x.length = y.length
      /\ x.fieldCount = y.fieldCount /\ Len(x.fields) = Len(y.fields)
  <2>1. x.id = y.id
    BY <1>3, <1>7
  <2>2. x.name = y.name
    BY <1>1, <1>3, <1>7, StringSays
  <2>3. Kinds[x.type] = Kinds[y.type]
    BY <1>3, <1>7
  <2>4. x.length = y.length
    BY <1>3, <1>7
  <2>5. x.fieldCount = y.fieldCount
    BY <1>3, <1>7
  <2>6. Len(x.fields) = Len(y.fields)
    BY <1>3, <1>7
  <2>. QED
    BY <1>1, <2>1, <2>2, <2>3, <2>4, <2>5, <2>6, KindsDiffer, Zenon
<1>. DEFINE list(z) == FlattenSeq([i \in DOMAIN z.fields |-> FieldWrites(z.fields[i])])
            last(z) == << <<z.typedefSource>> >>
<1>9. ASSUME NEW z \in Types
      PROVE  /\ list(z) \in Seq(Seq(Nat)) /\ last(z) \in Seq(Seq(Nat))
             /\ FlattenSeq(list(z)) = Coded(FieldCode, z.fields)
  BY <1>1, TypeWritesTyped, FieldListWrites, Zenon
<1>10. From(w, 7) = list(x) \o last(x) /\ From(v, 7) = list(y) \o last(y)
  BY <1>2, TypeWritesTyped, Zenon
<1>. HIDE DEF list, last
<1>11. Agree(FlattenSeq(list(x) \o last(x)), s, FlattenSeq(list(y) \o last(y)), t)
  BY <1>6, <1>10, Zenon DEF Reads
<1>12. x.fields = y.fields /\ Agree(FlattenSeq(last(x)), s, FlattenSeq(last(y)), t)
  <2>1. PICK m \in Seq(Seq(Nat)), n \in Seq(Seq(Nat)), q \in Seq(Seq(Nat)), r \in Seq(Seq(Nat)) :
          m = list(x) /\ n = list(y) /\ q = last(x) /\ r = last(y)
    BY <1>9, Zenon
  <2>2. PICK xs \in Seq(Fields), ys \in Seq(Fields) : xs = x.fields /\ ys = y.fields
    BY <1>1, Zenon
  <2>3. /\ Len(xs) = Len(ys)
        /\ FlattenSeq(m) = Coded(FieldCode, xs) /\ FlattenSeq(n) = Coded(FieldCode, ys)
        /\ Agree(FlattenSeq(m \o q), s, FlattenSeq(n \o r), t)
    BY <1>8, <1>9, <1>11, <2>1, <2>2, Zenon
  <2>4. xs = ys /\ Agree(FlattenSeq(q), s, FlattenSeq(r), t)
    <3>1. PICK S, E : S = Fields /\ E = FieldCode
      OBVIOUS
    <3>2. TwoLists(S, E, xs, m, ys, n)
      BY <2>3, <3>1, FieldsDecodable, Zenon DEF ListOf, TwoLists, SameLength
    <3>3. AgreeAfter(m, q, s, n, r, t)
      BY <2>3, Zenon DEF AgreeAfter
    <3>. QED
      BY <3>2, <3>3, CountedRead, Zenon
  <2>. QED
    BY <2>1, <2>2, <2>4, Zenon
<1>13. x.typedefSource = y.typedefSource /\ s = t
  <2>1. <<x.typedefSource>> \in Seq(Nat) /\ <<y.typedefSource>> \in Seq(Nat)
    BY <1>1
  <2>2. FlattenSeq(last(x)) = <<x.typedefSource>> /\ FlattenSeq(last(y)) = <<y.typedefSource>>
    BY <2>1, FlattenOne, Zenon DEF last
  <2>3. Agree(<<x.typedefSource>>, s, <<y.typedefSource>>, t)
    BY <1>12, <2>2, Zenon
  <2>. QED
    BY <1>1, <2>3, NumberFirst
<1>. QED
  BY <1>8, <1>12, <1>13, SameTypes

(* The types of a USYM. *)
TypeCode == [f \in Types |-> FlattenSeq(TypeWrites(f))]

LEMMA TypesDecodable ==
  /\ TypeCode \in [Types -> Seq(Nat)]
  /\ Decodable(TypeCode)
<1>1. ASSUME NEW f \in Types PROVE FlattenSeq(TypeWrites(f)) \in Seq(Nat)
  BY TypeWritesTyped, FlattenTyped
<1>2. TypeCode \in [Types -> Seq(Nat)]
  BY <1>1 DEF TypeCode
<1>3. DOMAIN TypeCode = Types /\ \A f \in Types : TypeCode[f] = FlattenSeq(TypeWrites(f))
  BY DEF TypeCode
<1>4. ASSUME NEW a \in Types, NEW b \in Types, NEW s \in Seq(Nat), NEW t \in Seq(Nat),
             Agree(TypeCode[a], s, TypeCode[b], t)
      PROVE  a = b /\ s = t
  <2>1. Agree(FlattenSeq(TypeWrites(a)), s, FlattenSeq(TypeWrites(b)), t)
    BY <1>3, <1>4, Zenon
  <2>. QED
    BY <2>1, TypeRead
<1>. QED
  BY <1>2, <1>3, <1>4, Zenon DEF Decodable

LEMMA TypeListWrites ==
  ASSUME NEW types \in Seq(Types)
  PROVE  /\ FlattenSeq([i \in DOMAIN types |-> TypeWrites(types[i])]) \in Seq(Seq(Nat))
         /\ FlattenSeq(FlattenSeq([i \in DOMAIN types |-> TypeWrites(types[i])]))
              = Coded(TypeCode, types)
<1>. DEFINE V == [f \in Types |-> TypeWrites(f)]
<1>1. V \in [Types -> Seq(Seq(Nat))] /\ \A f \in Types : V[f] = TypeWrites(f)
  BY TypeWritesTyped
<1>2. \A f \in Types : TypeCode[f] = FlattenSeq(V[f])
  BY DEF TypeCode
<1>. HIDE DEF V
<1>3. [i \in DOMAIN types |-> TypeWrites(types[i])] = [i \in DOMAIN types |-> V[types[i]]]
  <2>1. \A i \in DOMAIN types : types[i] \in Types
    OBVIOUS
  <2>2. \A i \in DOMAIN types : TypeWrites(types[i]) = V[types[i]]
    BY <1>1, <2>1
  <2>. QED
    BY <2>2
<1>4. BytesOf(Types, V, TypeCode)
  BY <1>1, <1>2, TypesDecodable, Zenon DEF BytesOf
<1>5. WritesOf(V, types) \in Seq(Seq(Nat)) /\ FlattenSeq(WritesOf(V, types)) = Coded(TypeCode, types)
  BY <1>4, ListWrites, Zenon
<1>. QED
  BY <1>3, <1>5, Zenon DEF WritesOf

(* The ids of a function's arguments. *)
NumberCode == [n \in Nat |-> <<n>>]

LEMMA NumbersDecodable ==
  /\ NumberCode \in [Nat -> Seq(Nat)]
  /\ Decodable(NumberCode)
<1>1. NumberCode \in [Nat -> Seq(Nat)]
  BY WritesTyped DEF NumberCode
<1>2. DOMAIN NumberCode = Nat /\ \A n \in Nat : NumberCode[n] = <<n>>
  BY DEF NumberCode
<1>3. ASSUME NEW a \in Nat, NEW b \in Nat, NEW s \in Seq(Nat), NEW t \in Seq(Nat),
             Agree(NumberCode[a], s, NumberCode[b], t)
      PROVE  a = b /\ s = t
  <2>1. Agree(<<a>>, s, <<b>>, t)
    BY <1>2, <1>3, Zenon
  <2>. QED
    BY <2>1, NumberFirst
<1>. QED
  BY <1>1, <1>2, <1>3, Zenon DEF Decodable

LEMMA NumberListWrites ==
  ASSUME NEW ids \in Seq(Nat)
  PROVE  /\ [i \in DOMAIN ids |-> <<ids[i]>>] \in Seq(Seq(Nat))
         /\ FlattenSeq([i \in DOMAIN ids |-> <<ids[i]>>]) = Coded(NumberCode, ids)
<1>1. DOMAIN ids = 1..Len(ids) /\ Len(ids) \in Nat /\ \A i \in DOMAIN ids : ids[i] \in Nat
  OBVIOUS
<1>2. \A i \in DOMAIN ids : <<ids[i]>> \in Seq(Nat) /\ NumberCode[ids[i]] = <<ids[i]>>
  BY <1>1, WritesTyped DEF NumberCode
<1>3. [i \in DOMAIN ids |-> <<ids[i]>>] = [i \in DOMAIN ids |-> NumberCode[ids[i]]]
  BY <1>2
<1>4. [i \in DOMAIN ids |-> NumberCode[ids[i]]] \in Seq(Seq(Nat))
  <2>1. \A i \in DOMAIN ids : NumberCode[ids[i]] \in Seq(Nat)
    BY <1>2
  <2>. QED
    BY <1>1, <2>1
<1>. QED
  BY <1>3, <1>4, Zenon DEF Coded

(* A function's writes: five, one for each argument, and two. *)
LEMMA FunctionWritesTyped ==
  ASSUME NEW z \in Functions
  PROVE  LET w == FunctionWrites(z)
             m == [i \in DOMAIN z.argumentTypeIds |-> <<z.argumentTypeIds[i]>>]
             last == << <<Conventions[z.callingConvention]>>, <<z.virtualAddress>> >>
         IN  /\ w \in Seq(Seq(Nat)) /\ 5 <= Len(w)
             /\ w[1] = <<z.id>>
             /\ w[2] = String(z.name)
             /\ w[3] = <<z.returnTypeId>>
             /\ w[4] = <<z.argumentCount>>
             /\ w[5] = <<Len(z.argumentTypeIds)>>
             /\ m \in Seq(Seq(Nat)) /\ last \in Seq(Seq(Nat))
             /\ Len(last) = 2
             /\ last[1] = <<Conventions[z.callingConvention]>>
             /\ last[2] = <<z.virtualAddress>>
             /\ From(w, 6) = m \o last
<1>1. /\ z.id \in Nat /\ z.name \in ByteNames /\ z.returnTypeId \in Nat
      /\ z.argumentCount \in Nat /\ z.argumentTypeIds \in Seq(Nat) /\ Len(z.argumentTypeIds) \in Nat
      /\ z.virtualAddress \in Nat
  BY DEF Functions, FunctionSymbols
<1>2. Conventions[z.callingConvention] \in Nat
  <2>1. \A c \in CallingConventions : Conventions[c] \in Nat
    BY DEF Conventions, CallingConventions
  <2>. QED
    BY <2>1 DEF Functions, FunctionSymbols
<1>3. PICK S : S = Seq(Nat)
  OBVIOUS
<1>4. PICK a \in S, b \in S, c \in S, d \in S, e \in S, f \in S, g \in S :
        /\ a = <<z.id>> /\ b = String(z.name) /\ c = <<z.returnTypeId>>
        /\ d = <<z.argumentCount>> /\ e = <<Len(z.argumentTypeIds)>>
        /\ f = <<Conventions[z.callingConvention]>> /\ g = <<z.virtualAddress>>
  BY <1>1, <1>2, <1>3, WritesTyped
<1>5. PICK m \in Seq(S) :
        m = [i \in DOMAIN z.argumentTypeIds |-> <<z.argumentTypeIds[i]>>]
  BY <1>1, <1>3, NumberListWrites
<1>6. FunctionWrites(z) = (<<a, b, c, d, e>> \o m) \o <<f, g>>
  BY <1>4, <1>5, Zenon DEF FunctionWrites
<1>7. PICK h \in Seq(S), last \in Seq(S) :
        /\ h = <<a, b, c, d, e>> /\ last = <<f, g>>
        /\ Len(h) = 5 /\ h[1] = a /\ h[2] = b /\ h[3] = c /\ h[4] = d /\ h[5] = e
        /\ Len(last) = 2 /\ last[1] = f /\ last[2] = g
  <2>. DEFINE h == <<a, b, c, d, e>>
              last == <<f, g>>
  <2>1. h \in Seq(S) /\ last \in Seq(S)
    OBVIOUS
  <2>2. /\ Len(h) = 5 /\ h[1] = a /\ h[2] = b /\ h[3] = c /\ h[4] = d /\ h[5] = e
        /\ Len(last) = 2 /\ last[1] = f /\ last[2] = g
    OBVIOUS
  <2>. QED
    BY <2>1, <2>2, Zenon
<1>8. PICK r \in Seq(S) : r = m \o last
  BY ConcatProperties
<1>9. PICK w \in Seq(S) : w = h \o r /\ w = FunctionWrites(z)
  <2>1. (h \o m) \o last = h \o (m \o last)
    BY ConcatAssociative
  <2>2. h \o r \in Seq(S)
    BY ConcatProperties
  <2>3. FunctionWrites(z) = h \o r
    BY <1>6, <1>7, <1>8, <2>1, Zenon
  <2>. QED
    BY <2>2, <2>3, Zenon
<1>10. /\ Len(h) <= Len(w) /\ \A k \in 1..Len(h) : w[k] = h[k]
       /\ From(w, Len(h) + 1) = r
  <2>1. /\ Len(h) <= Len(h \o r) /\ \A k \in 1..Len(h) : (h \o r)[k] = h[k]
        /\ From(h \o r, Len(h) + 1) = r
    BY FrontOf
  <2>. QED
    BY <1>9, <2>1, Zenon
<1>11. /\ 1 \in 1..Len(h) /\ 2 \in 1..Len(h) /\ 3 \in 1..Len(h) /\ 4 \in 1..Len(h)
       /\ 5 \in 1..Len(h) /\ Len(h) + 1 = 6
  BY <1>7
<1>12. /\ 5 <= Len(w) /\ w[1] = a /\ w[2] = b /\ w[3] = c /\ w[4] = d /\ w[5] = e
       /\ From(w, 6) = r
  BY <1>7, <1>10, <1>11, Zenon
<1>. QED
  BY <1>3, <1>4, <1>5, <1>7, <1>8, <1>9, <1>12, Zenon

LEMMA SameFunctions ==
  ASSUME NEW x \in Functions, NEW y \in Functions,
         x.id = y.id, x.name = y.name, x.returnTypeId = y.returnTypeId,
         x.argumentCount = y.argumentCount, x.argumentTypeIds = y.argumentTypeIds,
         x.callingConvention = y.callingConvention, x.virtualAddress = y.virtualAddress
  PROVE  x = y
  BY DEF Functions, FunctionSymbols

(* A function can be read back. *)
LEMMA FunctionRead ==
  ASSUME NEW x \in Functions, NEW y \in Functions, NEW s \in Seq(Nat), NEW t \in Seq(Nat),
         Agree(FlattenSeq(FunctionWrites(x)), s, FlattenSeq(FunctionWrites(y)), t)
  PROVE  x = y /\ s = t
<1>1. ASSUME NEW z \in Functions
      PROVE  /\ z.id \in Nat /\ z.name \in ByteNames /\ z.returnTypeId \in Nat
             /\ z.argumentCount \in Nat /\ z.argumentTypeIds \in Seq(Nat)
             /\ Len(z.argumentTypeIds) \in Nat /\ z.callingConvention \in CallingConventions
             /\ Conventions[z.callingConvention] \in Nat /\ z.virtualAddress \in Nat
  <2>1. /\ z.id \in Nat /\ z.name \in ByteNames /\ z.returnTypeId \in Nat
        /\ z.argumentCount \in Nat /\ z.argumentTypeIds \in Seq(Nat)
        /\ z.callingConvention \in CallingConventions /\ z.virtualAddress \in Nat
    BY DEF Functions, FunctionSymbols
  <2>2. Len(z.argumentTypeIds) \in Nat
    BY <2>1
  <2>3. \A c \in CallingConventions : Conventions[c] \in Nat
    BY DEF Conventions, CallingConventions
  <2>. QED
    BY <2>1, <2>2, <2>3, Zenon
<1>2. PICK w \in Seq(Seq(Nat)), v \in Seq(Seq(Nat)) : w = FunctionWrites(x) /\ v = FunctionWrites(y)
  BY FunctionWritesTyped, Zenon
<1>3. /\ w[1] = <<x.id>> /\ v[1] = <<y.id>>
      /\ w[2] = String(x.name) /\ v[2] = String(y.name)
      /\ w[3] = <<x.returnTypeId>> /\ v[3] = <<y.returnTypeId>>
      /\ w[4] = <<x.argumentCount>> /\ v[4] = <<y.argumentCount>>
      /\ w[5] = <<Len(x.argumentTypeIds)>> /\ v[5] = <<Len(y.argumentTypeIds)>>
      /\ 5 <= Len(w) /\ 5 <= Len(v)
  BY <1>2, FunctionWritesTyped, Zenon
<1>4. Reads(w, s, v, t, 1)
  BY <1>2, FromEnds, Zenon DEF Reads
<1>5. \A k \in 1..5 : SameKind(w[k], v[k])
  <2>1. /\ SameKind(w[1], v[1]) /\ SameKind(w[2], v[2]) /\ SameKind(w[3], v[3])
        /\ SameKind(w[4], v[4]) /\ SameKind(w[5], v[5])
    BY <1>1, <1>3, Zenon DEF SameKind, Numbers, Strings
  <2>2. \A k \in 1..5 : k = 1 \/ k = 2 \/ k = 3 \/ k = 4 \/ k = 5
    OBVIOUS
  <2>. QED
    BY <2>1, <2>2, Zenon
<1>6. Reads(w, s, v, t, 6) /\ \A k \in 1..5 : w[k] = v[k]
  <2>1. PICK n \in Nat : n = 5
    OBVIOUS
  <2>2. n <= Len(w) /\ n <= Len(v) /\ \A k \in 1..n : SameKind(w[k], v[k])
    BY <1>3, <1>5, <2>1, Zenon
  <2>3. Reads(w, s, v, t, n + 1) /\ \A k \in 1..n : w[k] = v[k]
    <3>1. Reads(w, s, v, t, n + 1) /\ SameParts(w, v, n)
      BY <1>4, <2>2, PartsRead, Zenon DEF SameKinds
    <3>. QED
      BY <3>1, Zenon DEF SameParts
  <2>4. n + 1 = 6
    BY <2>1
  <2>. QED
    BY <2>1, <2>3, <2>4, Zenon
<1>7. w[1] = v[1] /\ w[2] = v[2] /\ w[3] = v[3] /\ w[4] = v[4] /\ w[5] = v[5]
  BY <1>6
<1>8. /\ x.id = y.id /\ x.name = y.name /\ x.returnTypeId = y.returnTypeId
      /\ x.argumentCount = y.argumentCount
      /\ Len(x.argumentTypeIds) = Len(y.argumentTypeIds)
  <2>1. x.id = y.id
    BY <1>3, <1>7
  <2>2. x.name = y.name
    BY <1>1, <1>3, <1>7, StringSays
  <2>3. x.returnTypeId = y.returnTypeId
    BY <1>3, <1>7
  <2>4. x.argumentCount = y.argumentCount
    BY <1>3, <1>7
  <2>5. Len(x.argumentTypeIds) = Len(y.argumentTypeIds)
    BY <1>3, <1>7
  <2>. QED
    BY <2>1, <2>2, <2>3, <2>4, <2>5, Zenon
<1>. DEFINE list(z) == [i \in DOMAIN z.argumentTypeIds |-> <<z.argumentTypeIds[i]>>]
            last(z) == << <<Conventions[z.callingConvention]>>, <<z.virtualAddress>> >>
<1>9. ASSUME NEW z \in Functions
      PROVE  /\ list(z) \in Seq(Seq(Nat)) /\ last(z) \in Seq(Seq(Nat))
             /\ FlattenSeq(list(z)) = Coded(NumberCode, z.argumentTypeIds)
             /\ Len(last(z)) = 2
             /\ last(z)[1] = <<Conventions[z.callingConvention]>>
             /\ last(z)[2] = <<z.virtualAddress>>
  BY <1>1, FunctionWritesTyped, NumberListWrites, Zenon
<1>10. From(w, 6) = list(x) \o last(x) /\ From(v, 6) = list(y) \o last(y)
  BY <1>2, FunctionWritesTyped, Zenon
<1>. HIDE DEF list, last
<1>11. Agree(FlattenSeq(list(x) \o last(x)), s, FlattenSeq(list(y) \o last(y)), t)
  BY <1>6, <1>10, Zenon DEF Reads
<1>12. /\ x.argumentTypeIds = y.argumentTypeIds
       /\ Agree(FlattenSeq(last(x)), s, FlattenSeq(last(y)), t)
  <2>1. PICK m \in Seq(Seq(Nat)), n \in Seq(Seq(Nat)), q \in Seq(Seq(Nat)), r \in Seq(Seq(Nat)) :
          m = list(x) /\ n = list(y) /\ q = last(x) /\ r = last(y)
    BY <1>9, Zenon
  <2>2. PICK xs \in Seq(Nat), ys \in Seq(Nat) : xs = x.argumentTypeIds /\ ys = y.argumentTypeIds
    BY <1>1, Zenon
  <2>3. /\ Len(xs) = Len(ys)
        /\ FlattenSeq(m) = Coded(NumberCode, xs) /\ FlattenSeq(n) = Coded(NumberCode, ys)
        /\ Agree(FlattenSeq(m \o q), s, FlattenSeq(n \o r), t)
    BY <1>8, <1>9, <1>11, <2>1, <2>2, Zenon
  <2>4. xs = ys /\ Agree(FlattenSeq(q), s, FlattenSeq(r), t)
    <3>1. PICK S, E : S = Nat /\ E = NumberCode
      OBVIOUS
    <3>2. TwoLists(S, E, xs, m, ys, n)
      BY <2>3, <3>1, NumbersDecodable, Zenon DEF ListOf, TwoLists, SameLength
    <3>3. AgreeAfter(m, q, s, n, r, t)
      BY <2>3, Zenon DEF AgreeAfter
    <3>. QED
      BY <3>2, <3>3, CountedRead, Zenon
  <2>. QED
    BY <2>1, <2>2, <2>4, Zenon
<1>13. /\ Conventions[x.callingConvention] = Conventions[y.callingConvention]
       /\ x.virtualAddress = y.virtualAddress /\ s = t
  <2>1. PICK q \in Seq(Seq(Nat)), r \in Seq(Seq(Nat)) : q = last(x) /\ r = last(y)
    BY <1>9, Zenon
  <2>2. /\ Len(q) = 2 /\ Len(r) = 2
        /\ q[1] = <<Conventions[x.callingConvention]>>
        /\ r[1] = <<Conventions[y.callingConvention]>>
        /\ q[2] = <<x.virtualAddress>> /\ r[2] = <<y.virtualAddress>>
    BY <1>9, <2>1, Zenon
  <2>3. Reads(q, s, r, t, 1)
    BY <1>12, <2>1, FromEnds, Zenon DEF Reads
  <2>4. PICK n \in Nat :
          /\ n = 2 /\ n <= Len(q) /\ n <= Len(r) /\ n + 1 = Len(q) + 1 /\ n + 1 = Len(r) + 1
    BY <2>2
  <2>5. \A k \in 1..n : SameKind(q[k], r[k])
    <3>1. SameKind(q[1], r[1]) /\ SameKind(q[2], r[2])
      BY <1>1, <2>2, Zenon DEF SameKind, Numbers
    <3>2. \A k \in 1..n : k = 1 \/ k = 2
      BY <2>4
    <3>. QED
      BY <3>1, <3>2, Zenon
  <2>6. Reads(q, s, r, t, n + 1) /\ \A k \in 1..n : q[k] = r[k]
    <3>1. n <= Len(q) /\ n <= Len(r) /\ \A k \in 1..n : SameKind(q[k], r[k])
      BY <2>4, <2>5, Zenon
    <3>2. Reads(q, s, r, t, n + 1) /\ SameParts(q, r, n)
      BY <2>3, <3>1, PartsRead, Zenon DEF SameKinds
    <3>. QED
      BY <3>2, Zenon DEF SameParts
  <2>7. s = t
    BY <2>4, <2>6, AllRead, Zenon
  <2>8. q[1] = r[1] /\ q[2] = r[2]
    BY <2>4, <2>6
  <2>9. Conventions[x.callingConvention] = Conventions[y.callingConvention]
    BY <2>2, <2>8
  <2>10. x.virtualAddress = y.virtualAddress
    BY <2>2, <2>8
  <2>. QED
    BY <2>7, <2>9, <2>10
<1>14. x.callingConvention = y.callingConvention
  BY <1>1, <1>13, KindsDiffer, Zenon
<1>. QED
  BY <1>8, <1>12, <1>13, <1>14, SameFunctions

(* The functions of a USYM. *)
FunctionCode == [f \in Functions |-> FlattenSeq(FunctionWrites(f))]

LEMMA FunctionsDecodable ==
  /\ FunctionCode \in [Functions -> Seq(Nat)]
  /\ Decodable(FunctionCode)
<1>1. ASSUME NEW f \in Functions PROVE FlattenSeq(FunctionWrites(f)) \in Seq(Nat)
  BY FunctionWritesTyped, FlattenTyped
<1>2. FunctionCode \in [Functions -> Seq(Nat)]
  BY <1>1 DEF FunctionCode
<1>3. DOMAIN FunctionCode = Functions /\ \A f \in Functions : FunctionCode[f] = FlattenSeq(FunctionWrites(f))
  BY DEF FunctionCode
<1>4. ASSUME NEW a \in Functions, NEW b \in Functions, NEW s \in Seq(Nat), NEW t \in Seq(Nat),
             Agree(FunctionCode[a], s, FunctionCode[b], t)
      PROVE  a = b /\ s = t
  <2>1. Agree(FlattenSeq(FunctionWrites(a)), s, FlattenSeq(FunctionWrites(b)), t)
    BY <1>3, <1>4, Zenon
  <2>. QED
    BY <2>1, FunctionRead
<1>. QED
  BY <1>2, <1>3, <1>4, Zenon DEF Decodable

LEMMA FunctionListWrites ==
  ASSUME NEW functions \in Seq(Functions)
  PROVE  /\ FlattenSeq([i \in DOMAIN functions |-> FunctionWrites(functions[i])]) \in Seq(Seq(Nat))
         /\ FlattenSeq(FlattenSeq([i \in DOMAIN functions |-> FunctionWrites(functions[i])]))
              = Coded(FunctionCode, functions)
<1>. DEFINE V == [f \in Functions |-> FunctionWrites(f)]
<1>1. V \in [Functions -> Seq(Seq(Nat))] /\ \A f \in Functions : V[f] = FunctionWrites(f)
  BY FunctionWritesTyped
<1>2. \A f \in Functions : FunctionCode[f] = FlattenSeq(V[f])
  BY DEF FunctionCode
<1>. HIDE DEF V
<1>3. [i \in DOMAIN functions |-> FunctionWrites(functions[i])] = [i \in DOMAIN functions |-> V[functions[i]]]
  <2>1. \A i \in DOMAIN functions : functions[i] \in Functions
    OBVIOUS
  <2>2. \A i \in DOMAIN functions : FunctionWrites(functions[i]) = V[functions[i]]
    BY <1>1, <2>1
  <2>. QED
    BY <2>2
<1>4. BytesOf(Functions, V, FunctionCode)
  BY <1>1, <1>2, FunctionsDecodable, Zenon DEF BytesOf
<1>5. WritesOf(V, functions) \in Seq(Seq(Nat)) /\ FlattenSeq(WritesOf(V, functions)) = Coded(FunctionCode, functions)
  BY <1>4, ListWrites, Zenon
<1>. QED
  BY <1>3, <1>5, Zenon DEF WritesOf

-----------------------------------------------------------------------------
(* Images *)

(* What can be serialized. *)
LEMMA InputTyped ==
  ASSUME NEW x \in Inputs
  PROVE  /\ x.header \in Headers /\ x.header.originalFormat \in Nat /\ x.header.architecture \in Nat
         /\ x.types \in Seq(TypeEntries) /\ x.functions \in Seq(FunctionEntries)
<1>1. x \in [header: Headers, types: Seq(TypeEntries), functions: Seq(FunctionEntries)]
  BY InputsAssumption
<1>2. x.header \in Headers /\ x.types \in Seq(TypeEntries) /\ x.functions \in Seq(FunctionEntries)
  BY <1>1
<1>. QED
  BY <1>2 DEF Headers

(* The symbols of a map, in the order of a walk. *)
LEMMA SymbolsTyped ==
  /\ \A map \in Seq(TypeEntries) :
       /\ Symbols(map) \in Seq(Types) /\ Len(Symbols(map)) = Len(map)
       /\ DOMAIN Symbols(map) = DOMAIN map
       /\ \A i \in DOMAIN map : Symbols(map)[i] = map[i].symbol
  /\ \A map \in Seq(FunctionEntries) :
       /\ Symbols(map) \in Seq(Functions) /\ Len(Symbols(map)) = Len(map)
       /\ DOMAIN Symbols(map) = DOMAIN map
       /\ \A i \in DOMAIN map : Symbols(map)[i] = map[i].symbol
<1>1. ASSUME NEW map \in Seq(TypeEntries)
      PROVE  /\ Symbols(map) \in Seq(Types) /\ Len(Symbols(map)) = Len(map)
             /\ DOMAIN Symbols(map) = DOMAIN map
             /\ \A i \in DOMAIN map : Symbols(map)[i] = map[i].symbol
  <2>1. DOMAIN map = 1..Len(map) /\ Len(map) \in Nat /\ \A i \in DOMAIN map : map[i] \in TypeEntries
    OBVIOUS
  <2>2. \A i \in DOMAIN map : map[i].symbol \in Types
    BY <2>1 DEF TypeEntries, Types
  <2>. QED
    BY <2>1, <2>2 DEF Symbols
<1>2. ASSUME NEW map \in Seq(FunctionEntries)
      PROVE  /\ Symbols(map) \in Seq(Functions) /\ Len(Symbols(map)) = Len(map)
             /\ DOMAIN Symbols(map) = DOMAIN map
             /\ \A i \in DOMAIN map : Symbols(map)[i] = map[i].symbol
  <2>1. /\ DOMAIN map = 1..Len(map) /\ Len(map) \in Nat
        /\ \A i \in DOMAIN map : map[i] \in FunctionEntries
    OBVIOUS
  <2>2. \A i \in DOMAIN map : map[i].symbol \in Functions
    BY <2>1 DEF FunctionEntries, Functions
  <2>. QED
    BY <2>1, <2>2 DEF Symbols
<1>. QED
  BY <1>1, <1>2

(* The writes of one call: four, those of the types, the number of functions,
   and those of the functions. *)
TypeParts(x) == FlattenSeq([i \in DOMAIN x.types |-> TypeWrites(x.types[i].symbol)])
FunctionParts(x) == FlattenSeq([i \in DOMAIN x.functions |-> FunctionWrites(x.functions[i].symbol)])

LEMMA PartsTyped ==
  ASSUME NEW x \in Inputs
  PROVE  /\ TypeParts(x) \in Seq(Seq(Nat))
         /\ FlattenSeq(TypeParts(x)) = Coded(TypeCode, Symbols(x.types))
         /\ FunctionParts(x) \in Seq(Seq(Nat))
         /\ FlattenSeq(FunctionParts(x)) = Coded(FunctionCode, Symbols(x.functions))
<1>1. PICK ts \in Seq(Types), fs \in Seq(Functions) :
        ts = Symbols(x.types) /\ fs = Symbols(x.functions)
  BY InputTyped, SymbolsTyped, Zenon
<1>2. [i \in DOMAIN x.types |-> TypeWrites(x.types[i].symbol)]
        = [i \in DOMAIN ts |-> TypeWrites(ts[i])]
  <2>1. DOMAIN ts = DOMAIN x.types /\ \A i \in DOMAIN x.types : ts[i] = x.types[i].symbol
    BY <1>1, InputTyped, SymbolsTyped, Zenon
  <2>2. \A i \in DOMAIN x.types : TypeWrites(x.types[i].symbol) = TypeWrites(ts[i])
    BY <2>1, Zenon
  <2>. QED
    BY <2>1, <2>2
<1>3. [i \in DOMAIN x.functions |-> FunctionWrites(x.functions[i].symbol)]
        = [i \in DOMAIN fs |-> FunctionWrites(fs[i])]
  <2>1. DOMAIN fs = DOMAIN x.functions /\ \A i \in DOMAIN x.functions : fs[i] = x.functions[i].symbol
    BY <1>1, InputTyped, SymbolsTyped, Zenon
  <2>2. \A i \in DOMAIN x.functions : FunctionWrites(x.functions[i].symbol) = FunctionWrites(fs[i])
    BY <2>1, Zenon
  <2>. QED
    BY <2>1, <2>2
<1>4. /\ FlattenSeq([i \in DOMAIN ts |-> TypeWrites(ts[i])]) \in Seq(Seq(Nat))
      /\ FlattenSeq(FlattenSeq([i \in DOMAIN ts |-> TypeWrites(ts[i])])) = Coded(TypeCode, ts)
  BY TypeListWrites
<1>5. /\ FlattenSeq([i \in DOMAIN fs |-> FunctionWrites(fs[i])]) \in Seq(Seq(Nat))
      /\ FlattenSeq(FlattenSeq([i \in DOMAIN fs |-> FunctionWrites(fs[i])]))
           = Coded(FunctionCode, fs)
  BY FunctionListWrites
<1>. QED
  BY <1>1, <1>2, <1>3, <1>4, <1>5, Zenon DEF TypeParts, FunctionParts

LEMMA ImageWritesTyped ==
  ASSUME NEW x \in Inputs
  PROVE  LET w == Writes(x)
             count == << <<Len(x.functions)>> >>
         IN  /\ w \in Seq(Seq(Nat)) /\ 4 <= Len(w)
             /\ w[1] = <<Magic>>
             /\ w[2] = <<x.header.originalFormat>>
             /\ w[3] = <<x.header.architecture>>
             /\ w[4] = <<Len(x.types)>>
             /\ From(w, 5) = TypeParts(x) \o (count \o FunctionParts(x))
             /\ Len(x.types) \in Nat /\ Len(x.functions) \in Nat
<1>1. /\ x.header.originalFormat \in Nat /\ x.header.architecture \in Nat /\ Magic \in Nat
      /\ Len(x.types) \in Nat /\ Len(x.functions) \in Nat
  BY InputTyped DEF Magic
<1>2. PICK S : S = Seq(Nat)
  OBVIOUS
<1>3. PICK a \in S, b \in S, c \in S, d \in S, e \in S :
        /\ a = <<Magic>> /\ b = <<x.header.originalFormat>> /\ c = <<x.header.architecture>>
        /\ d = <<Len(x.types)>> /\ e = <<Len(x.functions)>>
  BY <1>1, <1>2, WritesTyped
<1>4. PICK m \in Seq(S), n \in Seq(S) : m = TypeParts(x) /\ n = FunctionParts(x)
  BY <1>2, PartsTyped
<1>5. Writes(x) = (((<<a, b, c>> \o <<d>>) \o m) \o <<e>>) \o n
  BY <1>3, <1>4, Zenon DEF Writes, HeaderWrites, TypeParts, FunctionParts
<1>6. PICK h \in Seq(S), g \in Seq(S) :
        /\ h = <<a, b, c>> \o <<d>> /\ g = <<e>>
        /\ Len(h) = 4 /\ h[1] = a /\ h[2] = b /\ h[3] = c /\ h[4] = d
  <2>. DEFINE h == <<a, b, c>> \o <<d>>
  <2>1. h \in Seq(S) /\ <<e>> \in Seq(S)
    OBVIOUS
  <2>2. Len(h) = 4 /\ h[1] = a /\ h[2] = b /\ h[3] = c /\ h[4] = d
    OBVIOUS
  <2>. QED
    BY <2>1, <2>2, Zenon
<1>7. PICK gn \in Seq(S), r \in Seq(S) : gn = g \o n /\ r = m \o gn
  BY ConcatProperties
<1>8. PICK w \in Seq(S) : w = h \o r /\ w = Writes(x)
  <2>1. PICK hm \in Seq(S) : hm = h \o m
    BY ConcatProperties
  <2>2. (hm \o g) \o n = hm \o gn
    <3>1. hm \in Seq(Seq(Nat)) /\ g \in Seq(Seq(Nat)) /\ n \in Seq(Seq(Nat))
      BY <1>2, Zenon
    <3>2. (hm \o g) \o n = hm \o (g \o n)
      BY <3>1, Regroup, Zenon
    <3>. QED
      BY <1>7, <3>2, Zenon
  <2>3. (h \o m) \o gn = h \o (m \o gn)
    <3>1. h \in Seq(Seq(Nat)) /\ m \in Seq(Seq(Nat)) /\ gn \in Seq(Seq(Nat))
      BY <1>2, Zenon
    <3>. QED
      BY <3>1, Regroup, Zenon
  <2>4. h \o r \in Seq(S)
    BY ConcatProperties
  <2>5. Writes(x) = h \o r
    BY <1>5, <1>6, <1>7, <2>1, <2>2, <2>3, Zenon
  <2>. QED
    BY <2>4, <2>5, Zenon
<1>9. /\ Len(h) <= Len(w) /\ \A k \in 1..Len(h) : w[k] = h[k]
      /\ From(w, Len(h) + 1) = r
  <2>1. /\ Len(h) <= Len(h \o r) /\ \A k \in 1..Len(h) : (h \o r)[k] = h[k]
        /\ From(h \o r, Len(h) + 1) = r
    BY FrontOf
  <2>. QED
    BY <1>8, <2>1, Zenon
<1>10. /\ 1 \in 1..Len(h) /\ 2 \in 1..Len(h) /\ 3 \in 1..Len(h) /\ 4 \in 1..Len(h)
       /\ Len(h) + 1 = 5
  BY <1>6
<1>11. 4 <= Len(w) /\ w[1] = a /\ w[2] = b /\ w[3] = c /\ w[4] = d /\ From(w, 5) = r
  BY <1>6, <1>9, <1>10, Zenon
<1>. QED
  BY <1>1, <1>2, <1>3, <1>4, <1>6, <1>7, <1>8, <1>11, Zenon

LEMMA SameHeaders ==
  ASSUME NEW x \in Headers, NEW y \in Headers,
         x.originalFormat = y.originalFormat, x.architecture = y.architecture
  PROVE  x = y
  BY DEF Headers

(* An image can be read back. *)
LEMMA ImageRead ==
  ASSUME NEW x \in Inputs, NEW y \in Inputs, NEW s \in Seq(Nat), NEW t \in Seq(Nat),
         Agree(Image(x), s, Image(y), t)
  PROVE  /\ x.header = y.header
         /\ Symbols(x.types) = Symbols(y.types)
         /\ Symbols(x.functions) = Symbols(y.functions)
         /\ s = t
<1>1. PICK w \in Seq(Seq(Nat)), v \in Seq(Seq(Nat)) : w = Writes(x) /\ v = Writes(y)
  BY ImageWritesTyped, Zenon
<1>2. /\ w[1] = <<Magic>> /\ v[1] = <<Magic>>
      /\ w[2] = <<x.header.originalFormat>> /\ v[2] = <<y.header.originalFormat>>
      /\ w[3] = <<x.header.architecture>> /\ v[3] = <<y.header.architecture>>
      /\ w[4] = <<Len(x.types)>> /\ v[4] = <<Len(y.types)>>
      /\ 4 <= Len(w) /\ 4 <= Len(v)
  BY <1>1, ImageWritesTyped, Zenon
<1>3. /\ Len(x.types) \in Nat /\ Len(y.types) \in Nat
      /\ Len(x.functions) \in Nat /\ Len(y.functions) \in Nat /\ Magic \in Nat
      /\ x.header.originalFormat \in Nat /\ y.header.originalFormat \in Nat
      /\ x.header.architecture \in Nat /\ y.header.architecture \in Nat
  BY InputTyped, ImageWritesTyped DEF Magic
<1>4. Reads(w, s, v, t, 1)
  BY <1>1, FromEnds, Zenon DEF Reads, Image
<1>5. \A k \in 1..4 : SameKind(w[k], v[k])
  <2>1. /\ SameKind(w[1], v[1]) /\ SameKind(w[2], v[2])
        /\ SameKind(w[3], v[3]) /\ SameKind(w[4], v[4])
    BY <1>2, <1>3, Zenon DEF SameKind, Numbers
  <2>2. \A k \in 1..4 : k = 1 \/ k = 2 \/ k = 3 \/ k = 4
    OBVIOUS
  <2>. QED
    BY <2>1, <2>2, Zenon
<1>6. Reads(w, s, v, t, 5) /\ \A k \in 1..4 : w[k] = v[k]
  <2>1. PICK n \in Nat : n = 4
    OBVIOUS
  <2>2. n <= Len(w) /\ n <= Len(v) /\ \A k \in 1..n : SameKind(w[k], v[k])
    BY <1>2, <1>5, <2>1, Zenon
  <2>3. Reads(w, s, v, t, n + 1) /\ \A k \in 1..n : w[k] = v[k]
    <3>1. Reads(w, s, v, t, n + 1) /\ SameParts(w, v, n)
      BY <1>4, <2>2, PartsRead, Zenon DEF SameKinds
    <3>. QED
      BY <3>1, Zenon DEF SameParts
  <2>4. n + 1 = 5
    BY <2>1
  <2>. QED
    BY <2>1, <2>3, <2>4, Zenon
<1>7. w[2] = v[2] /\ w[3] = v[3] /\ w[4] = v[4]
  BY <1>6
<1>8. x.header = y.header
  <2>1. x.header.originalFormat = y.header.originalFormat
    BY <1>2, <1>7
  <2>2. x.header.architecture = y.header.architecture
    BY <1>2, <1>7
  <2>3. PICK a \in Headers, b \in Headers : a = x.header /\ b = y.header
    BY InputTyped
  <2>4. a.originalFormat = b.originalFormat /\ a.architecture = b.architecture
    BY <2>1, <2>2, <2>3, Zenon
  <2>5. a = b
    BY <2>4, SameHeaders
  <2>. QED
    BY <2>3, <2>5, Zenon
<1>9. PICK m \in Seq(Seq(Nat)), n \in Seq(Seq(Nat)), f \in Seq(Seq(Nat)), g \in Seq(Seq(Nat)) :
        /\ m = TypeParts(x) /\ n = TypeParts(y) /\ f = FunctionParts(x) /\ g = FunctionParts(y)
  BY PartsTyped, Zenon
<1>10. PICK a \in Nat, b \in Nat : a = Len(x.functions) /\ b = Len(y.functions)
  BY <1>3
<1>11. PICK q \in Seq(Seq(Nat)), r \in Seq(Seq(Nat)) :
         q = << <<a>> >> \o f /\ r = << <<b>> >> \o g
  <2>1. << <<a>> >> \in Seq(Seq(Nat)) /\ << <<b>> >> \in Seq(Seq(Nat))
    OBVIOUS
  <2>. QED
    BY <2>1, ConcatProperties
<1>12. Agree(FlattenSeq(m \o q), s, FlattenSeq(n \o r), t)
  <2>1. From(w, 5) = m \o q /\ From(v, 5) = n \o r
    BY <1>1, <1>9, <1>10, <1>11, ImageWritesTyped, Zenon
  <2>. QED
    BY <1>6, <2>1, Zenon DEF Reads
<1>13. Symbols(x.types) = Symbols(y.types) /\ Agree(FlattenSeq(q), s, FlattenSeq(r), t)
  <2>1. PICK S, E : S = Types /\ E = TypeCode
    OBVIOUS
  <2>2. PICK xs \in Seq(S), ys \in Seq(S) : xs = Symbols(x.types) /\ ys = Symbols(y.types)
    BY <2>1, InputTyped, SymbolsTyped, Zenon
  <2>3. Len(xs) = Len(ys)
    <3>1. Len(x.types) = Len(y.types)
      BY <1>2, <1>7
    <3>. QED
      BY <2>2, <3>1, InputTyped, SymbolsTyped, Zenon
  <2>4. E \in [S -> Seq(Nat)] /\ Decodable(E) /\ ListOf(E, xs, m) /\ ListOf(E, ys, n)
    BY <1>9, <2>1, <2>2, TypesDecodable, PartsTyped, Zenon DEF ListOf
  <2>5. xs = ys /\ Agree(FlattenSeq(q), s, FlattenSeq(r), t)
    <3>1. TwoLists(S, E, xs, m, ys, n)
      BY <2>3, <2>4, Zenon DEF TwoLists, SameLength
    <3>2. AgreeAfter(m, q, s, n, r, t)
      BY <1>12, Zenon DEF AgreeAfter
    <3>. QED
      BY <3>1, <3>2, CountedRead, Zenon
  <2>. QED
    BY <2>2, <2>5, Zenon
<1>14. a = b /\ Agree(FlattenSeq(f), s, FlattenSeq(g), t)
  <2>1. Agree(FlattenSeq(<< <<a>> >> \o f), s, FlattenSeq(<< <<b>> >> \o g), t)
    BY <1>11, <1>13, Zenon
  <2>. QED
    BY <2>1, NumberRead
<1>15. Symbols(x.functions) = Symbols(y.functions) /\ s = t
  <2>1. PICK S, E : S = Functions /\ E = FunctionCode
    OBVIOUS
  <2>2. PICK xs \in Seq(S), ys \in Seq(S) : xs = Symbols(x.functions) /\ ys = Symbols(y.functions)
    BY <2>1, InputTyped, SymbolsTyped, Zenon
  <2>3. Len(xs) = Len(ys)
    BY <1>10, <1>14, <2>2, InputTyped, SymbolsTyped, Zenon
  <2>4. /\ E \in [S -> Seq(Nat)] /\ Decodable(E)
        /\ FlattenSeq(f) = Coded(E, xs) /\ FlattenSeq(g) = Coded(E, ys)
    BY <1>9, <2>1, <2>2, FunctionsDecodable, PartsTyped, Zenon
  <2>5. Agree(Coded(E, xs), s, Coded(E, ys), t)
    BY <1>14, <2>4, Zenon
  <2>6. E \in [S -> Seq(Nat)] /\ Decodable(E)
    BY <2>4
  <2>7. xs = ys /\ s = t
    <3>1. SameLength(S, E, xs, ys)
      BY <2>3, <2>6, Zenon DEF SameLength
    <3>. QED
      BY <2>5, <3>1, ListRead
  <2>. QED
    BY <2>2, <2>7, Zenon
<1>. QED
  BY <1>8, <1>13, <1>15, Zenon

LEMMA ImageTyped ==
  ASSUME NEW x \in Inputs
  PROVE  Writes(x) \in Seq(Seq(Nat)) /\ Image(x) \in Seq(Nat)
<1>1. Writes(x) \in Seq(Seq(Nat))
  BY ImageWritesTyped, Zenon
<1>2. FlattenSeq(Writes(x)) \in Seq(Nat)
  BY <1>1, FlattenTyped
<1>. QED
  BY <1>1, <1>2 DEF Image

(* The beginning of a sequence. *)
LEMMA PrefixOf ==
  ASSUME NEW S, NEW a \in Seq(S), NEW b \in Seq(S), IsPrefix(a, b)
  PROVE  \E t \in Seq(S) : b = a \o t
<1>1. PICK t \in Seq(S) : t = SubSeq(b, Len(a) + 1, Len(b))
  <2>1. \A i \in (Len(a) + 1)..Len(b) : b[i] \in S
    OBVIOUS
  <2>2. Len(a) + 1 \in Int /\ Len(b) \in Int
    OBVIOUS
  <2>. QED
    BY <2>1, <2>2, SubSeqProperties
<1>2. SubSeq(a, 1, Len(a)) = a /\ SubSeq(b, 1, Len(b)) = b
  BY SubSeqFull
<1>3. SubSeq(b, 1, Len(a)) = a
  BY <1>2 DEF IsPrefix
<1>4. SubSeq(b, 1, Len(a)) \o SubSeq(b, Len(a) + 1, Len(b)) = SubSeq(b, 1, Len(b))
  <2>1. 1 \in 1..(Len(b) + 1) /\ Len(a) \in (1 - 1)..Len(b) /\ Len(b) \in Len(a)..Len(b)
    BY DEF IsPrefix
  <2>. QED
    BY <2>1, ConcatAdjacentSubSeq
<1>. QED
  BY <1>1, <1>2, <1>3, <1>4, Zenon

(* What was serialized can be serialized. *)
InputsTyped == inputs \in Seq(Inputs)

LEMMA InputsAlwaysTyped == Spec => []InputsTyped
<1>1. Init => InputsTyped
  BY DEF Init, InputsTyped
<1>2. InputsTyped /\ [Next]_vars => InputsTyped'
  BY DEF InputsTyped, Next, vars, SerializeToFile, WriteNext, WriteToFile
<1>. QED
  BY <1>1, <1>2, PTL DEF Spec

(* No image is the beginning of another one unless it describes the same
   symbols (SerializeToFile), for all inputs. *)
THEOREM ImagesAlwaysUnambiguous == Spec => []ImagesAreUnambiguous
<1>1. InputsTyped => ImagesAreUnambiguous
  <2>. SUFFICES ASSUME InputsTyped, inputs # << >>, NEW other \in Inputs,
                       IsPrefix(Image(other), Image(Latest))
                PROVE  /\ other.header = Latest.header
                       /\ Symbols(other.types) = Symbols(Latest.types)
                       /\ Symbols(other.functions) = Symbols(Latest.functions)
    BY DEF ImagesAreUnambiguous
  <2>1. Latest \in Inputs
    BY EmptySeq DEF Latest, InputsTyped
  <2>2. PICK x \in Inputs : x = Latest
    BY <2>1
  <2>3. PICK a \in Seq(Nat), b \in Seq(Nat) : a = Image(other) /\ b = Image(x)
    BY ImageTyped
  <2>4. IsPrefix(a, b)
    BY <2>2, <2>3, Zenon
  <2>5. PICK t \in Seq(Nat) : b = a \o t
    BY <2>4, PrefixOf
  <2>6. << >> \in Seq(Nat) /\ b \o << >> = b
    BY ConcatEmptySeq
  <2>7. Agree(Image(other), t, Image(x), << >>)
    BY <2>3, <2>5, <2>6, Zenon DEF Agree
  <2>. QED
    BY <2>2, <2>6, <2>7, ImageRead
<1>. QED
  BY <1>1, InputsAlwaysTyped, PTL

-----------------------------------------------------------------------------
(* The buffer *)

(* What the Writer's own proofs say of this Writer, whose bytes are numbers. *)
W == INSTANCE WriterProofs WITH Bytes <- Nat, Chunks <- Seq(Nat)

LEMMA NumbersAreBytes == 0 \in Nat /\ Seq(Nat) \subseteq Seq(Nat) /\ InitialSizes \subseteq Nat
  BY SizesAssumption

(* The bytes written so far and those of the writes left to be made end with
   the image of the last call. *)
ImageIsComing ==
  inputs # << >> =>
    \E old \in Seq(Nat) : W!Written \o FlattenSeq(todo) = old \o Image(Latest)

(* A file holds the beginning of what was written, and one byte more. *)
FileBegins ==
  /\ Len(file) <= position + 1
  /\ \A i \in 1..(Len(file) - 1) : file[i] = data[i]

(* The inductive invariant. *)
BufferInv ==
  /\ W!WriterInv
  /\ InputsTyped
  /\ todo \in Seq(Seq(Nat))
  /\ pc = "idle" => todo = << >>
  /\ ImageIsComing
  /\ FileBegins

(* What was written is a sequence of bytes. *)
LEMMA WrittenTyped ==
  ASSUME W!WriterInv
  PROVE  /\ data \in Seq(Nat) /\ position \in Nat /\ file \in Seq(Nat) /\ position <= Len(data)
         /\ W!Written \in Seq(Nat) /\ Len(W!Written) = position
         /\ \A i \in 1..position : W!Written[i] = data[i]
<1>1. data \in Seq(Nat) /\ position \in Nat /\ file \in Seq(Nat) /\ position <= Len(data)
  BY DEF W!WriterInv, W!TypeOK, W!WritesInBounds
<1>. QED
  BY <1>1 DEF W!Written

LEMMA InitBuffer == Init => BufferInv
<1>. SUFFICES ASSUME Init PROVE BufferInv
  OBVIOUS
<1>1. W!Init
  BY DEF Init, TheWriter!Init, W!Init
<1>2. W!WriterInv
  BY <1>1, NumbersAreBytes, W!InitInv
<1>3. todo \in Seq(Seq(Nat)) /\ todo = << >> /\ inputs = << >> /\ InputsTyped
  BY DEF Init, InputsTyped
<1>4. FileBegins
  BY DEF Init, TheWriter!Init, FileBegins
<1>. QED
  BY <1>2, <1>3, <1>4 DEF BufferInv, ImageIsComing

(* A call begins: its image is still to come. *)
LEMMA BeginBuffer ==
  ASSUME BufferInv, NEW input \in Inputs, SerializeToFile(input)
  PROVE  BufferInv'
<1>1. W!WriterInv' /\ W!Written' = W!Written /\ FileBegins'
  <2>1. UNCHANGED <<data, position, file, initialSize>>
    BY DEF SerializeToFile, writerVars
  <2>. QED
    BY <2>1 DEF BufferInv, FileBegins, W!WriterInv, W!TypeOK, W!WritesInBounds,
                W!WasteIsBounded, W!Written
<1>2. todo' = Writes(input) /\ todo' \in Seq(Seq(Nat)) /\ pc' = "writing"
  BY ImageTyped DEF SerializeToFile
<1>3. InputsTyped' /\ Latest' = input
  BY DEF BufferInv, InputsTyped, SerializeToFile, Latest
<1>4. ImageIsComing'
  <2>1. W!Written \in Seq(Nat)
    BY WrittenTyped DEF BufferInv
  <2>2. W!Written' \o FlattenSeq(todo') = W!Written \o Image(Latest')
    BY <1>1, <1>2, <1>3, Zenon DEF Image
  <2>3. \E old \in Seq(Nat) : W!Written' \o FlattenSeq(todo') = old \o Image(Latest')
    BY <2>1, <2>2, Zenon
  <2>. QED
    BY <2>3, Zenon DEF ImageIsComing
<1>5. pc' = "idle" => todo' = << >>
  BY <1>2
<1>. QED
  BY <1>1, <1>2, <1>3, <1>4, <1>5, Zenon DEF BufferInv

(* A write moves bytes from what is left to what was written. *)
LEMMA WriteBuffer ==
  ASSUME BufferInv, WriteNext
  PROVE  BufferInv'
<1>1. PICK e \in Seq(Nat), r \in Seq(Seq(Nat)) : e = Head(todo) /\ r = Tail(todo) /\ todo = <<e>> \o r
  <2>1. todo \in Seq(Seq(Nat)) /\ todo # << >>
    BY DEF BufferInv, WriteNext
  <2>2. Head(todo) \in Seq(Nat) /\ Tail(todo) \in Seq(Seq(Nat))
    BY <2>1, HeadTailProperties
  <2>3. todo = <<Head(todo)>> \o Tail(todo)
    BY <2>1
  <2>. QED
    BY <2>2, <2>3, Zenon
<1>2. W!WriteImpl(e)
  BY <1>1 DEF WriteNext, TheWriter!WriteImpl, W!WriteImpl, TheWriter!IsOverflow, W!IsOverflow,
     TheWriter!Copy, W!Copy, TheWriter!Resize, W!Resize, TheWriter!NewSize, W!NewSize
<1>3. W!WriterInv'
  <2>1. W!WriterInv /\ [W!Next]_(W!vars)
    BY <1>2 DEF BufferInv, W!Next
  <2>. QED
    BY <2>1, NumbersAreBytes, W!NextInv
<1>4. W!Written' = W!Written \o e /\ file' = file
  BY <1>2, NumbersAreBytes, W!WriteAppends DEF BufferInv
<1>5. /\ todo' = r /\ todo' \in Seq(Seq(Nat)) /\ pc' = pc /\ inputs' = inputs
      /\ (pc' = "idle" => todo' = << >>)
  BY <1>1 DEF WriteNext, BufferInv
<1>6. InputsTyped' /\ Latest' = Latest
  BY <1>5 DEF BufferInv, InputsTyped, Latest
<1>7. W!Written' \o FlattenSeq(todo') = W!Written \o FlattenSeq(todo)
  <2>1. PICK a \in Seq(Nat), c \in Seq(Nat) : a = W!Written /\ c = FlattenSeq(r)
    BY WrittenTyped, FlattenTyped DEF BufferInv
  <2>2. FlattenSeq(todo) = e \o c
    BY <1>1, <2>1, FlattenFirst
  <2>3. (a \o e) \o c = a \o (e \o c)
    BY Regroup, Zenon
  <2>. QED
    BY <1>4, <1>5, <2>1, <2>2, <2>3, Zenon
<1>8. ImageIsComing'
  BY <1>5, <1>6, <1>7, Zenon DEF BufferInv, ImageIsComing
<1>9. FileBegins'
  <2>1. /\ position' = position + Len(e) /\ Len(e) \in Nat
        /\ \A i \in 1..position : data'[i] = data[i]
    BY <1>2, NumbersAreBytes, W!WriteImplEffect DEF BufferInv, W!WriterInv
  <2>2. position \in Nat /\ Len(file) \in Nat
    BY WrittenTyped DEF BufferInv
  <2>. QED
    BY <1>4, <2>1, <2>2 DEF BufferInv, FileBegins
<1>. QED
  BY <1>3, <1>5, <1>6, <1>8, <1>9, Zenon DEF BufferInv

(* Saving changes the file only. *)
LEMMA SaveBuffer ==
  ASSUME BufferInv, WriteToFile
  PROVE  BufferInv'
<1>1. UNCHANGED <<data, position, initialSize, todo, inputs>> /\ todo = << >>
  BY DEF WriteToFile, TheWriter!WriteToFile, writerVars
<1>2. CASE UNCHANGED file
  BY <1>1, <1>2 DEF BufferInv, FileBegins, InputsTyped, ImageIsComing, Latest, W!WriterInv, W!TypeOK,
                    W!WritesInBounds, W!WasteIsBounded, W!Written
<1>3. CASE TheWriter!WriteToFile
  <2>1. PICK extra \in Nat, length \in 0..(position + 1) :
          /\ position < Len(data) => extra = data[position + 1]
          /\ file' = SubSeq(Append(SubSeq(data, 1, position), extra), 1, length)
    BY <1>3, BytesAssumption DEF TheWriter!WriteToFile
  <2>2. W!WriteToFile
    BY <1>1, <2>1 DEF W!WriteToFile
  <2>3. W!WriterInv'
    <3>1. W!WriterInv /\ [W!Next]_(W!vars)
      BY <2>2 DEF BufferInv, W!Next
    <3>. QED
      BY <3>1, NumbersAreBytes, W!NextInv
  <2>4. FileBegins'
    <3>1. PICK w \in Seq(Nat) : w = W!Written /\ Len(w) = position /\ \A i \in 1..position : w[i] = data[i]
      BY WrittenTyped DEF BufferInv
    <3>2. PICK z \in Seq(Nat) :
            /\ z = Append(w, extra) /\ Len(z) = position + 1
            /\ \A i \in 1..position : z[i] = w[i]
      BY <3>1, AppendProperties
    <3>3. position \in Nat
      BY WrittenTyped DEF BufferInv
    <3>4. file' = SubSeq(z, 1, length)
      BY <2>1, <3>1, <3>2, Zenon DEF W!Written
    <3>5. Len(SubSeq(z, 1, length)) = length /\ \A i \in 1..length : SubSeq(z, 1, length)[i] = z[i]
      BY <3>2, <3>3
    <3>6. \A i \in 1..(length - 1) : i \in 1..length /\ i \in 1..position
      BY <3>3
    <3>. QED
      BY <1>1, <3>1, <3>2, <3>4, <3>5, <3>6 DEF FileBegins
  <2>5. InputsTyped' /\ ImageIsComing'
    BY <1>1 DEF BufferInv, InputsTyped, ImageIsComing, Latest, W!Written
  <2>. QED
    BY <1>1, <2>3, <2>4, <2>5 DEF BufferInv
<1>. QED
  BY <1>2, <1>3 DEF WriteToFile, writerVars

LEMMA NextBuffer == BufferInv /\ [Next]_vars => BufferInv'
<1>. SUFFICES ASSUME BufferInv, [Next]_vars PROVE BufferInv'
  OBVIOUS
<1>1. CASE UNCHANGED vars
  BY <1>1 DEF vars, writerVars, BufferInv, FileBegins, InputsTyped, ImageIsComing, Latest,
              W!WriterInv, W!TypeOK, W!WritesInBounds, W!WasteIsBounded, W!Written
<1>. QED
  BY <1>1, BeginBuffer, WriteBuffer, SaveBuffer DEF Next

(* The beginning of a sequence. *)
LEMMA Beginning ==
  ASSUME NEW S, NEW w \in Seq(S), NEW n \in Nat, n <= Len(w)
  PROVE  /\ SubSeq(w, 1, n) \in Seq(S) /\ Len(SubSeq(w, 1, n)) = n
         /\ \A i \in 1..n : SubSeq(w, 1, n)[i] = w[i]
<1>1. \A i \in 1..n : w[i] \in S
  OBVIOUS
<1>2. /\ SubSeq(w, 1, n) \in Seq(S)
      /\ Len(SubSeq(w, 1, n)) = IF 1 <= n THEN n - 1 + 1 ELSE 0
      /\ \A i \in 1..(n - 1 + 1) : SubSeq(w, 1, n)[i] = w[1 + i - 1]
  BY <1>1, SubSeqProperties
<1>. QED
  BY <1>2

(* After each call of SerializeToFile the Writer's bytes end with the image of
   the call, and a saved file holds the beginning of them and one byte more:
   for all inputs and initial sizes, and however often the buffer grows. *)
THEOREM BufferAlwaysEndsWithImage == Spec => []BufferEndsWithImage
<1>1. BufferInv => BufferEndsWithImage
  <2>. SUFFICES ASSUME BufferInv, pc = "idle", inputs # << >>
                PROVE  /\ SubSeq(data, position - Len(Image(Latest)) + 1, position) = Image(Latest)
                       /\ IsPrefix(SubSeq(file, 1, Len(file) - 1), SubSeq(data, 1, position))
    BY DEF BufferEndsWithImage
  <2>1. PICK im \in Seq(Nat) : im = Image(Latest)
    <3>1. Latest \in Inputs
      BY EmptySeq DEF BufferInv, Latest, InputsTyped
    <3>. QED
      BY <3>1, ImageTyped
  <2>2. PICK w \in Seq(Nat) : w = W!Written /\ Len(w) = position /\ \A i \in 1..position : w[i] = data[i]
    BY WrittenTyped DEF BufferInv
  <2>3. data \in Seq(Nat) /\ position \in Nat /\ file \in Seq(Nat) /\ position <= Len(data)
    BY WrittenTyped DEF BufferInv
  <2>4. PICK old \in Seq(Nat) : w = old \o im
    <3>1. PICK old \in Seq(Nat) : W!Written \o FlattenSeq(todo) = old \o Image(Latest)
      BY Zenon DEF BufferInv, ImageIsComing
    <3>2. FlattenSeq(todo) = << >>
      BY FlattenEmpty, Zenon DEF BufferInv
    <3>3. w \o << >> = w
      BY ConcatEmptySeq
    <3>. QED
      BY <2>1, <2>2, <3>1, <3>2, <3>3, Zenon
  <2>5. SubSeq(data, position - Len(im) + 1, position) = im
    <3>1. /\ Len(old \o im) = Len(old) + Len(im) /\ Len(old) \in Nat /\ Len(im) \in Nat
          /\ \A i \in 1..Len(im) : (old \o im)[Len(old) + i] = im[i]
      BY ConcatProperties
    <3>2. position = Len(old) + Len(im) /\ \A i \in 1..Len(im) : w[Len(old) + i] = im[i]
      BY <2>2, <2>4, <3>1, Zenon
    <3>3. \A i \in 1..Len(im) : data[Len(old) + i] = im[i]
      <4>1. \A i \in 1..Len(im) : Len(old) + i \in 1..position
        BY <3>1, <3>2
      <4>. QED
        BY <2>2, <3>2, <4>1
    <3>4. PICK m \in Nat : m = Len(old) + 1 /\ m = position - Len(im) + 1
      BY <3>1, <3>2
    <3>5. /\ SubSeq(data, m, position) \in Seq(Nat) /\ Len(SubSeq(data, m, position)) = Len(im)
          /\ \A i \in 1..Len(im) : SubSeq(data, m, position)[i] = data[m + i - 1]
      <4>1. \A i \in m..position : data[i] \in Nat
        <5>1. m >= 1
          BY <3>1, <3>4
        <5>2. \A i \in m..position : i \in 1..Len(data)
          BY <2>3, <5>1
        <5>. QED
          BY <2>3, <5>2
      <4>2. /\ SubSeq(data, m, position) \in Seq(Nat)
            /\ Len(SubSeq(data, m, position)) = IF m <= position THEN position - m + 1 ELSE 0
            /\ \A i \in 1..(position - m + 1) : SubSeq(data, m, position)[i] = data[m + i - 1]
        BY <2>3, <4>1, SubSeqProperties
      <4>3. /\ position - m + 1 = Len(im)
            /\ (IF m <= position THEN position - m + 1 ELSE 0) = Len(im)
        BY <2>3, <3>1, <3>2, <3>4
      <4>. QED
        BY <4>2, <4>3, Zenon
    <3>6. \A i \in 1..Len(im) : m + i - 1 = Len(old) + i
      BY <3>1, <3>4
    <3>7. SubSeq(data, m, position) = im
      BY <3>3, <3>5, <3>6, SeqEqual
    <3>. QED
      BY <3>4, <3>7
  <2>6. IsPrefix(SubSeq(file, 1, Len(file) - 1), SubSeq(data, 1, position))
    <3>1. PICK f \in Seq(Nat), n \in Nat :
            /\ f = SubSeq(file, 1, Len(file) - 1) /\ Len(f) = n /\ n <= position
            /\ \A i \in 1..n : f[i] = data[i]
      <4>1. CASE file = << >>
        <5>1. << >> \in Seq(Nat) /\ Len(<< >>) = 0 /\ Len(file) - 1 < 1
          BY <4>1, EmptySeq
        <5>2. SubSeq(file, 1, Len(file) - 1) = << >>
          BY <2>3, <5>1, SubSeqEmpty
        <5>3. 0 \in Nat /\ 0 <= position /\ \A i \in 1..0 : FALSE
          BY <2>3
        <5>. QED
          BY <5>1, <5>2, <5>3, Zenon
      <4>2. CASE file # << >>
        <5>0. PICK k \in Nat \ {0} : k = Len(file)
          BY <2>3, <4>2, EmptySeq, Zenon
        <5>1. PICK n \in Nat : n = Len(file) - 1 /\ n <= Len(file)
          <6>1. k - 1 \in Nat /\ k - 1 <= k
            OBVIOUS
          <6>. QED
            BY <5>0, <6>1, Zenon
        <5>2. /\ SubSeq(file, 1, n) \in Seq(Nat) /\ Len(SubSeq(file, 1, n)) = n
              /\ \A i \in 1..n : SubSeq(file, 1, n)[i] = file[i]
          BY <2>3, <5>1, Beginning
        <5>3. n <= position /\ \A i \in 1..n : file[i] = data[i]
          BY <2>3, <5>1 DEF BufferInv, FileBegins
        <5>4. \A i \in 1..n : SubSeq(file, 1, n)[i] = data[i]
          BY <5>2, <5>3, Zenon
        <5>. QED
          BY <5>1, <5>2, <5>3, <5>4, Zenon
      <4>. QED
        BY <4>1, <4>2
    <3>2. IsPrefix(f, w)
      <4>1. \A i \in 1..n : i \in 1..position
        BY <2>3, <3>1
      <4>2. SubSeq(w, 1, n) \in Seq(Nat) /\ Len(SubSeq(w, 1, n)) = n /\ \A i \in 1..n : SubSeq(w, 1, n)[i] = w[i]
        <5>1. n <= Len(w)
          BY <2>2, <3>1, Zenon
        <5>. QED
          BY <5>1, Beginning, Zenon
      <4>3. \A i \in 1..n : f[i] = SubSeq(w, 1, n)[i]
        BY <2>2, <3>1, <4>1, <4>2, Zenon
      <4>4. f = SubSeq(w, 1, n)
        BY <3>1, <4>2, <4>3, SeqEqual
      <4>5. SubSeq(f, 1, n) = f
        BY <3>1, FromEnds, Zenon DEF From
      <4>. QED
        BY <2>2, <3>1, <4>4, <4>5, Zenon DEF IsPrefix
    <3>. QED
      BY <2>2, <3>1, <3>2, Zenon DEF W!Written
  <2>. QED
    BY <2>1, <2>5, <2>6, Zenon
<1>. QED
  BY <1>1, InitBuffer, NextBuffer, PTL DEF Spec
=============================================================================
