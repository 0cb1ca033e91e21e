------------------------- MODULE DiaContentsProofs -------------------------
(***************************************************************************)
(* Proofs about what DiaInterface writes into the symbols, for any PDBs    *)
(* and any number of calls: the fields of a type and its anonymous unions, *)
(* the arguments of a function, the types the PDB describes, and what of   *)
(* all this is handed over to the USYM.                                    *)
(***************************************************************************)
EXTENDS DiaInterfaceProofs, FiniteSetTheorems

-----------------------------------------------------------------------------
(* Fields: the invariant *)

(* Fields i and i + 1 are both there and share an offset. *)
Pair(fields, i) ==
  /\ i \in 1..(Len(fields) - 1)
  /\ fields[i].id # 0 /\ fields[i + 1].id # 0
  /\ fields[i].offset = fields[i + 1].offset

(* The pairs before n have been marked. *)
MarkedUpTo(fields, n) ==
  /\ \A i \in 1..Len(fields) :
       fields[i].isAnonymousUnion <=>
         ((i - 1 < n /\ Pair(fields, i - 1)) \/ (i < n /\ Pair(fields, i)))
  /\ \A i \in 1..Len(fields) :
       (i < n /\ Pair(fields, i)) => fields[i].unionId = fields[i + 1].unionId

(* The symbol a call is building has a field for each member it has passed;
   while it looks for unions, the last pair it found carries its number. *)
FrameFields(f) ==
  LET members == Sym(f.obj).members
      fields == f.symbol.fields
  IN  /\ f.step = "create" => f.next = 1
      /\ f.step \in {"members", "field", "unions"} =>
           /\ f.symbol.fieldCount = Len(members)
           /\ \A i \in 1..Len(fields) : fields[i].id \in {0, members[i].id}
      /\ f.step \in {"members", "field"} =>
           /\ Len(fields) = f.next - 1
           /\ f.next <= Len(members) + 1
           /\ \A i \in 1..Len(fields) : ~fields[i].isAnonymousUnion
      /\ f.step = "unions" =>
           /\ Len(fields) = Len(members)
           /\ f.symbol.type \notin {"kUnion", "kEnum"}
           /\ MarkedUpTo(fields, f.next)
           /\ Pair(fields, f.next - 1) => fields[f.next].unionId = f.unionId

(* A finished symbol: FieldsMatchMembers for one entry. *)
SymbolMatches(o, symbol) ==
  symbol.id # 0 =>
    /\ symbol.fieldCount = Len(Sym(o).members)
    /\ Len(symbol.fields) = symbol.fieldCount
    /\ \A i \in 1..Len(symbol.fields) : symbol.fields[i].id \in {0, Sym(o).members[i].id}
    /\ IF symbol.type \in {"kUnion", "kEnum"}
       THEN \A i \in 1..Len(symbol.fields) : ~symbol.fields[i].isAnonymousUnion
       ELSE MarkedUpTo(symbol.fields, Len(symbol.fields))

FieldsInv ==
  /\ \A t \in DOMAIN typeSymbols : SymbolMatches(t, typeSymbols[t])
  /\ \A i \in 1..Len(stack) : FrameFields(stack[i])

(* The entries say what FieldsMatchMembers says. *)
LEMMA FieldsSuffice == TypeInv /\ FieldsInv => FieldsMatchMembers
<1>. SUFFICES ASSUME TypeInv, FieldsInv, NEW t \in DOMAIN typeSymbols,
                     typeSymbols[t].id # 0
              PROVE  LET symbol == typeSymbols[t]
                         fields == symbol.fields
                         There(i) == i \in DOMAIN fields /\ fields[i].id # 0
                         OneUnion(i, j) == /\ symbol.type \notin {"kUnion", "kEnum"}
                                           /\ There(i) /\ There(j)
                                           /\ fields[i].offset = fields[j].offset
                     IN  /\ symbol.fieldCount = Len(Sym(t).members)
                         /\ Len(fields) = symbol.fieldCount
                         /\ \A i \in DOMAIN fields :
                              /\ fields[i].id \in {0, Sym(t).members[i].id}
                              /\ fields[i].isAnonymousUnion
                                   = (OneUnion(i, i - 1) \/ OneUnion(i, i + 1))
                              /\ OneUnion(i, i + 1) => fields[i].unionId = fields[i + 1].unionId
  BY Zenon DEF FieldsMatchMembers
<1>. DEFINE symbol == typeSymbols[t]
            fields == symbol.fields
            There(i) == i \in DOMAIN fields /\ fields[i].id # 0
            OneUnion(i, j) == /\ symbol.type \notin {"kUnion", "kEnum"}
                              /\ There(i) /\ There(j)
                              /\ fields[i].offset = fields[j].offset
<1>1. symbol \in TypeSymbols(SymbolNames) /\ fields \in Seq(FieldSymbols(SymbolNames))
  <2>1. symbol \in TypeSymbols(SymbolNames)
    BY DEF TypeInv, StackInv
  <2>. QED
    BY <2>1 DEF TypeSymbols
<1>2. /\ Len(fields) \in Nat /\ DOMAIN fields = 1..Len(fields)
      /\ \A i \in 1..Len(fields) : fields[i] \in FieldSymbols(SymbolNames)
  BY <1>1, LenProperties
<1>3. SymbolMatches(t, symbol)
  BY DEF FieldsInv
<1>. SUFFICES /\ symbol.fieldCount = Len(Sym(t).members)
              /\ Len(fields) = symbol.fieldCount
              /\ \A i \in DOMAIN fields :
                   /\ fields[i].id \in {0, Sym(t).members[i].id}
                   /\ fields[i].isAnonymousUnion
                        = (OneUnion(i, i - 1) \/ OneUnion(i, i + 1))
                   /\ OneUnion(i, i + 1) => fields[i].unionId = fields[i + 1].unionId
  BY Zenon
<1>. HIDE DEF fields
<1>4. /\ symbol.fieldCount = Len(Sym(t).members) /\ Len(fields) = symbol.fieldCount
      /\ \A i \in DOMAIN fields : fields[i].id \in {0, Sym(t).members[i].id}
  BY <1>2, <1>3 DEF SymbolMatches, fields
<1>5. ASSUME NEW i \in DOMAIN fields
      PROVE  /\ fields[i].isAnonymousUnion = (OneUnion(i, i - 1) \/ OneUnion(i, i + 1))
             /\ OneUnion(i, i + 1) => fields[i].unionId = fields[i + 1].unionId
  <2>1. fields[i].isAnonymousUnion \in BOOLEAN
    BY <1>2, <1>5 DEF FieldSymbols
  <2>2. CASE symbol.type \in {"kUnion", "kEnum"}
    <3>1. ~fields[i].isAnonymousUnion
      BY <1>2, <1>3, <1>5, <2>2 DEF SymbolMatches, fields
    <3>2. ~OneUnion(i, i - 1) /\ ~OneUnion(i, i + 1)
      BY <2>2
    <3>. HIDE DEF OneUnion
    <3>. QED
      BY <2>1, <3>1, <3>2
  <2>3. CASE symbol.type \notin {"kUnion", "kEnum"}
    <3>1. MarkedUpTo(fields, Len(fields))
      BY <1>3, <2>3 DEF SymbolMatches, fields
    <3>2. /\ OneUnion(i, i - 1) <=> (i - 1 < Len(fields) /\ Pair(fields, i - 1))
          /\ OneUnion(i, i + 1) <=> (i < Len(fields) /\ Pair(fields, i))
      BY <1>2, <1>5, <2>3 DEF Pair
    <3>. HIDE DEF OneUnion
    <3>3. /\ fields[i].isAnonymousUnion <=> (OneUnion(i, i - 1) \/ OneUnion(i, i + 1))
          /\ OneUnion(i, i + 1) => fields[i].unionId = fields[i + 1].unionId
      BY <1>2, <1>5, <3>1, <3>2 DEF MarkedUpTo
    <3>. QED
      BY <2>1, <3>3
  <2>. QED
    BY <2>2, <2>3
<1>. HIDE DEF OneUnion, symbol
<1>. QED
  BY <1>4, <1>5

-----------------------------------------------------------------------------
(* Fields: the ways the calls change *)

(* What is said of symbols and calls only looks at the PDB. *)
LEMMA FieldsOfThePdb ==
  ASSUME pdb' = pdb
  PROVE  /\ \A o, symbol : SymbolMatches(o, symbol) => SymbolMatches(o, symbol)'
         /\ \A f : FrameFields(f) => FrameFields(f)'
<1>1. \A o, symbol : SymbolMatches(o, symbol) => SymbolMatches(o, symbol)'
  BY DEF SymbolMatches, Sym
<1>2. \A f : FrameFields(f) => FrameFields(f)'
  BY DEF FrameFields, Sym
<1>. QED
  BY <1>1, <1>2

(* A symbol that is not filled in yet, and a call that has not begun. *)
LEMMA NothingFilledIn ==
  ASSUME NEW o
  PROVE  SymbolMatches(o, EmptyType(NoName)) /\ FrameFields(Frame(o))
  BY DEF SymbolMatches, EmptyType, FrameFields, Frame

(* CreateTypeSymbol returns a finished symbol. *)
LEMMA ReturnFields ==
  ASSUME TypeInv, FieldsInv, stack # << >>, TypeStep,
         NEW symbol, Return(symbol), SymbolMatches(Top.obj, symbol)
  PROVE  FieldsInv'
<1>1. /\ Len(stack) \in Nat \ {0} /\ Len(stack') = Len(stack) - 1
      /\ \A i \in 1..(Len(stack) - 1) : stack'[i] = stack[i]
  BY Popped DEF TypeInv, StackInv, Below, Return
<1>2. /\ DOMAIN typeSymbols' = DOMAIN typeSymbols
      /\ \A t \in DOMAIN typeSymbols :
           typeSymbols'[t] = IF t = Top.obj THEN symbol ELSE typeSymbols[t]
  BY DEF Return
<1>3. pdb' = pdb
  BY DEF TypeStep, sessionVars
<1>4. /\ \A t \in DOMAIN typeSymbols' : SymbolMatches(t, typeSymbols'[t])
      /\ \A i \in 1..Len(stack') : FrameFields(stack'[i])
  BY <1>1, <1>2 DEF FieldsInv
<1>. QED
  BY <1>3, <1>4, FieldsOfThePdb DEF FieldsInv

(* A symbol that cannot be created leaves the entries as they are. *)
LEMMA ReturnFalseFields ==
  ASSUME TypeInv, FieldsInv, stack # << >>, TypeStep, ReturnFalse
  PROVE  FieldsInv'
<1>1. /\ Len(stack) \in Nat \ {0} /\ Len(stack') = Len(stack) - 1
      /\ \A i \in 1..(Len(stack) - 1) : stack'[i] = stack[i]
      /\ typeSymbols' = typeSymbols
  BY Popped DEF TypeInv, StackInv, Below, ReturnFalse
<1>2. pdb' = pdb
  BY DEF TypeStep, sessionVars
<1>3. /\ \A t \in DOMAIN typeSymbols' : SymbolMatches(t, typeSymbols'[t])
      /\ \A i \in 1..Len(stack') : FrameFields(stack'[i])
  BY <1>1 DEF FieldsInv
<1>. QED
  BY <1>2, <1>3, FieldsOfThePdb DEF FieldsInv

(* The call on top goes on. *)
LEMMA ContinueFields ==
  ASSUME TypeInv, FieldsInv, stack # << >>, TypeStep,
         NEW frame \in Frames, Continue(frame), FrameFields(frame)
  PROVE  FieldsInv'
<1>1. /\ Len(stack) \in Nat \ {0} /\ Len(stack') = Len(stack)
      /\ stack'[Len(stack)] = frame
      /\ \A i \in 1..(Len(stack) - 1) : stack'[i] = stack[i]
      /\ typeSymbols' = typeSymbols
  BY Popped, Replaced DEF TypeInv, StackInv, Below, Continue
<1>2. pdb' = pdb
  BY DEF TypeStep, sessionVars
<1>3. /\ \A t \in DOMAIN typeSymbols' : SymbolMatches(t, typeSymbols'[t])
      /\ \A i \in 1..Len(stack') : FrameFields(stack'[i])
  BY <1>1 DEF FieldsInv
<1>. QED
  BY <1>2, <1>3, FieldsOfThePdb DEF FieldsInv

(* CreateTypeSymbol is called, by a list or by the call on top. *)
LEMMA CreateFields ==
  ASSUME FieldsInv, pdb' = pdb, NEW o, NEW S, NEW frames \in Seq(S),
         CreateTypeSymbol(o, frames), \A i \in 1..Len(frames) : FrameFields(frames[i])
  PROVE  FieldsInv'
<1>1. /\ \A t \in DOMAIN typeSymbols : typeSymbols'[t] = typeSymbols[t]
      /\ \A t \in DOMAIN typeSymbols' \ DOMAIN typeSymbols :
           typeSymbols'[t] = EmptyType(NoName)
      /\ stack' = frames \/ stack' = Append(frames, Frame(o))
  BY CreateEffect
<1>2. \A t \in DOMAIN typeSymbols' : SymbolMatches(t, typeSymbols'[t])
  BY <1>1, NothingFilledIn DEF FieldsInv
<1>3. \A i \in 1..Len(stack') : FrameFields(stack'[i])
  <2>1. CASE stack' = frames
    BY <2>1
  <2>2. CASE stack' = Append(frames, Frame(o))
    <3>1. /\ Len(stack') = Len(frames) + 1
          /\ stack'[Len(frames) + 1] = Frame(o)
          /\ \A i \in 1..Len(frames) : stack'[i] = frames[i]
      BY <2>2, Pushed
    <3>2. Len(frames) \in Nat
      BY LenProperties
    <3>3. \A i \in 1..Len(stack') : i \in 1..Len(frames) \/ i = Len(frames) + 1
      BY <3>1, <3>2
    <3>. QED
      BY <3>1, <3>3, NothingFilledIn
  <2>. QED
    BY <1>1, <2>1, <2>2
<1>. QED
  BY <1>2, <1>3, FieldsOfThePdb DEF FieldsInv

(* A nested call begins with no fields; its caller keeps those it has. *)
LEMMA NestedCreateFields ==
  ASSUME TypeInv, FieldsInv, stack # << >>, TypeStep, NEW step \in {"source", "field"},
         step = "field" => Top.step = "members",
         NEW o, CreateTypeSymbol(o, Append(Below, [Top EXCEPT !.step = step]))
  PROVE  FieldsInv'
<1>. PICK frame : frame = [Top EXCEPT !.step = step]
  OBVIOUS
<1>. PICK frames : frames = Append(Below, frame)
  OBVIOUS
<1>1. /\ frame \in Frames /\ frame.obj = Top.obj /\ frame.step = step
      /\ frame.next = Top.next /\ frame.symbol = Top.symbol
  BY StepTyped
<1>2. /\ frames \in Seq(Frames) /\ Len(frames) = Len(stack)
      /\ frames[Len(stack)] = frame
      /\ \A i \in 1..(Len(stack) - 1) : frames[i] = stack[i]
      /\ Len(stack) \in Nat \ {0}
      /\ Top = stack[Len(stack)]
  BY <1>1, Popped, Replaced DEF TypeInv, StackInv, Below, Top
<1>3. pdb' = pdb
  BY DEF TypeStep, sessionVars
<1>4. FrameFields(Top)
  BY <1>2 DEF FieldsInv
<1>5. FrameFields(frame)
  BY <1>1, <1>4 DEF FrameFields
<1>6. \A i \in 1..Len(frames) : FrameFields(frames[i])
  BY <1>2, <1>5 DEF FieldsInv
<1>. QED
  BY <1>2, <1>3, <1>6, CreateFields

(* A field for the next member: the member, or empty. *)
LEMMA PushFieldFields ==
  ASSUME TypeInv, FieldsInv, stack # << >>, TypeStep, Top.step \in {"members", "field"},
         Top.next \in 1..Len(Sym(Top.obj).members),
         NEW field \in FieldSymbols(SymbolNames), PushField(field),
         field.id \in {0, Sym(Top.obj).members[Top.next].id}, ~field.isAnonymousUnion
  PROVE  FieldsInv'
<1>. PICK frame : frame = [Top EXCEPT !.step = "members", !.next = @ + 1,
                                      !.symbol.fields = Append(@, field)]
  OBVIOUS
<1>1. /\ frame \in Frames /\ frame.obj = Top.obj /\ frame.step = "members"
      /\ frame.next = Top.next + 1
      /\ frame.symbol = [Top.symbol EXCEPT !.fields = Append(Top.symbol.fields, field)]
  BY PushedFrame, Zenon
<1>2. Continue(frame)
  BY DEF PushField
<1>3. /\ Top.symbol \in TypeSymbols(SymbolNames)
      /\ Top.symbol.fields \in Seq(FieldSymbols(SymbolNames))
      /\ Top.next \in Nat \ {0} /\ Top.obj \in DOMAIN pdb.symbols
      /\ Len(stack) \in 1..Len(stack) /\ Top = stack[Len(stack)]
  BY TopTyped
<1>4. FrameFields(Top)
  BY <1>3 DEF FieldsInv
<1>. DEFINE old == Top.symbol.fields
            fields == Append(old, field)
<1>5. /\ Len(fields) = Len(old) + 1
      /\ fields[Len(old) + 1] = field
      /\ \A i \in 1..Len(old) : fields[i] = old[i]
      /\ Len(old) \in Nat
  BY <1>3, AppendProperties, LenProperties
<1>6. /\ frame.symbol.fields = fields
      /\ frame.symbol.fieldCount = Top.symbol.fieldCount
  <2>1. frame.symbol = [Top.symbol EXCEPT !.fields = fields]
    BY <1>1
  <2>. HIDE DEF fields
  <2>2. PICK top \in TypeSymbols(SymbolNames) : top = Top.symbol
    BY <1>3, Zenon
  <2>3. [top EXCEPT !.fields = fields].fields = fields
        /\ [top EXCEPT !.fields = fields].fieldCount = top.fieldCount
    BY DEF TypeSymbols
  <2>. QED
    BY <2>1, <2>2, <2>3, Zenon
<1>7. Len(Sym(Top.obj).members) \in Nat
  BY <1>3, SymbolAnswers, LenProperties DEF TypeInv, SessionInv
<1>. HIDE DEF fields
<1>8. /\ Top.symbol.fieldCount = Len(Sym(Top.obj).members)
      /\ Len(old) = Top.next - 1
      /\ \A i \in 1..Len(old) : old[i].id \in {0, Sym(Top.obj).members[i].id}
      /\ \A i \in 1..Len(old) : ~old[i].isAnonymousUnion
  BY <1>4 DEF FrameFields
<1>. HIDE DEF old
<1>9. \A i \in 1..Len(fields) : i \in 1..Len(old) \/ (i = Len(old) + 1 /\ i = Top.next)
  BY <1>3, <1>5, <1>8
<1>10. \A i \in 1..Len(fields) :
         fields[i].id \in {0, Sym(Top.obj).members[i].id} /\ ~fields[i].isAnonymousUnion
  BY <1>5, <1>8, <1>9
<1>11. FrameFields(frame)
  <2>1. Len(fields) = frame.next - 1 /\ frame.next <= Len(Sym(Top.obj).members) + 1
    BY <1>1, <1>3, <1>5, <1>7, <1>8
  <2>2. /\ frame.symbol.fieldCount = Len(Sym(frame.obj).members)
        /\ \A i \in 1..Len(frame.symbol.fields) :
             /\ frame.symbol.fields[i].id \in {0, Sym(frame.obj).members[i].id}
             /\ ~frame.symbol.fields[i].isAnonymousUnion
    BY <1>1, <1>6, <1>8, <1>10
  <2>3. /\ Len(frame.symbol.fields) = frame.next - 1
        /\ frame.next <= Len(Sym(frame.obj).members) + 1
    BY <1>1, <1>6, <2>1
  <2>. QED
    BY <1>1, <2>2, <2>3 DEF FrameFields
<1>. QED
  BY <1>1, <1>2, <1>11, ContinueFields

(* Neighbours that share an offset are marked, with the number the field
   before them has if the two of them share an offset as well. *)
LEMMA PairMarked ==
  ASSUME NEW fields \in Seq(FieldSymbols(SymbolNames)), NEW n \in Nat \ {0},
         NEW u \in Nat, MarkedUpTo(fields, n), Pair(fields, n),
         Pair(fields, n - 1) => fields[n].unionId = u
  PROVE  /\ MarkedUpTo(MarkUnion(fields, n, u), n + 1)
         /\ MarkUnion(fields, n, u)[n + 1].unionId = u
<1>. DEFINE marked == MarkUnion(fields, n, u)
<1>1. Len(marked) = Len(fields) /\ Len(fields) \in Nat
  BY MarkUnionTyped, LenProperties
<1>2. \A j \in 1..Len(fields) :
        /\ marked[j].id = fields[j].id /\ marked[j].offset = fields[j].offset
        /\ j \in {n, n + 1} => marked[j].isAnonymousUnion /\ marked[j].unionId = u
        /\ j \notin {n, n + 1} => marked[j] = fields[j]
  BY MarkedField
<1>. HIDE DEF marked
<1>3. n \in 1..Len(fields) /\ n + 1 \in 1..Len(fields)
  BY <1>1 DEF Pair
<1>4. \A i : Pair(marked, i) <=> Pair(fields, i)
  <2>. SUFFICES ASSUME NEW i \in 1..(Len(fields) - 1)
                PROVE  Pair(marked, i) <=> Pair(fields, i)
    BY <1>1 DEF Pair
  <2>1. i \in 1..Len(fields) /\ i + 1 \in 1..Len(fields)
    BY <1>1
  <2>. QED
    BY <1>1, <1>2, <2>1 DEF Pair
<1>5. ASSUME NEW i \in 1..Len(fields)
      PROVE  marked[i].isAnonymousUnion <=>
               ((i - 1 < n + 1 /\ Pair(fields, i - 1)) \/ (i < n + 1 /\ Pair(fields, i)))
  <2>1. CASE i = n
    BY <1>2, <1>3, <2>1
  <2>2. CASE i = n + 1
    <3>1. marked[i].isAnonymousUnion /\ i - 1 = n /\ n < n + 1
      BY <1>2, <1>3, <2>2
    <3>. QED
      BY <3>1
  <2>3. CASE i # n /\ i # n + 1
    <3>1. marked[i] = fields[i]
      BY <1>2, <2>3
    <3>2. (i - 1 < n + 1 <=> i - 1 < n) /\ (i < n + 1 <=> i < n)
      BY <2>3
    <3>. QED
      BY <3>1, <3>2 DEF MarkedUpTo
  <2>. QED
    BY <2>1, <2>2, <2>3
<1>6. ASSUME NEW i \in 1..Len(fields), i < n + 1, Pair(fields, i)
      PROVE  marked[i].unionId = marked[i + 1].unionId
  <2>0. i + 1 \in 1..Len(fields)
    BY <1>1, <1>6 DEF Pair
  <2>1. CASE i = n
    BY <1>2, <1>3, <2>1
  <2>2. CASE i = n - 1
    <3>1. fields[i].unionId = fields[i + 1].unionId /\ i + 1 = n
      BY <1>6, <2>2 DEF MarkedUpTo
    <3>2. marked[i] = fields[i] /\ marked[i + 1].unionId = u
      BY <1>2, <1>3, <2>0, <2>2
    <3>. QED
      BY <1>6, <2>2, <3>1, <3>2
  <2>3. CASE i < n - 1
    <3>1. marked[i] = fields[i] /\ marked[i + 1] = fields[i + 1]
      BY <1>2, <2>0, <2>3
    <3>. QED
      BY <1>6, <2>3, <3>1 DEF MarkedUpTo
  <2>. QED
    BY <1>6, <2>1, <2>2, <2>3
<1>7. MarkedUpTo(marked, n + 1)
  BY <1>1, <1>4, <1>5, <1>6 DEF MarkedUpTo
<1>. QED
  BY <1>2, <1>3, <1>7 DEF marked

(* Other neighbours are left alone. *)
LEMMA PairSkipped ==
  ASSUME NEW fields, Len(fields) \in Nat, NEW n \in Nat \ {0}, MarkedUpTo(fields, n), ~Pair(fields, n)
  PROVE  MarkedUpTo(fields, n + 1)
<1>1. ASSUME NEW i \in 1..Len(fields)
      PROVE  /\ (i - 1 < n + 1 /\ Pair(fields, i - 1)) <=> (i - 1 < n /\ Pair(fields, i - 1))
             /\ (i < n + 1 /\ Pair(fields, i)) <=> (i < n /\ Pair(fields, i))
  <2>1. CASE i - 1 = n
    BY <2>1
  <2>2. CASE i = n
    BY <2>2
  <2>3. CASE i - 1 # n /\ i # n
    BY <2>3
  <2>. QED
    BY <2>1, <2>2, <2>3
<1>. QED
  BY <1>1 DEF MarkedUpTo

(* Before the first pair nothing is marked, and after the last all of them
   are. *)
LEMMA NoPairYet ==
  ASSUME NEW fields, Len(fields) \in Nat, \A i \in 1..Len(fields) : ~fields[i].isAnonymousUnion
  PROVE  MarkedUpTo(fields, 1)
<1>1. ASSUME NEW i \in 1..Len(fields)
      PROVE  ~(i - 1 < 1 /\ Pair(fields, i - 1)) /\ ~(i < 1)
  BY DEF Pair
<1>. QED
  BY <1>1 DEF MarkedUpTo

(* Every pair of neighbours begins before the last field. *)
LEMMA AllPairs ==
  ASSUME NEW fields, Len(fields) \in Nat, NEW n \in Nat, n >= Len(fields), MarkedUpTo(fields, n)
  PROVE  MarkedUpTo(fields, Len(fields))
<1>1. \A i : Pair(fields, i) => i < Len(fields) /\ i < n
  BY DEF Pair
<1>. QED
  BY <1>1 DEF MarkedUpTo

(* A finished symbol of a type that has no members. *)
LEMMA NoMembers ==
  ASSUME NEW o, Sym(o).members = << >>,
         NEW symbol, symbol.fields = << >>, symbol.fieldCount = 0
  PROVE  SymbolMatches(o, symbol)
<1>1. Len(<< >>) = 0 /\ 1..Len(<< >>) = {}
  OBVIOUS
<1>2. MarkedUpTo(symbol.fields, Len(symbol.fields))
  BY <1>1 DEF MarkedUpTo
<1>. QED
  BY <1>1, <1>2 DEF SymbolMatches

(* Every step of CreateTypeSymbol keeps fields and members together. *)
LEMMA CreateStepFields ==
  ASSUME TypeInv, FieldsInv, CreateStep
  PROVE  FieldsInv'
<1>. DEFINE s == Sym(Top.obj)
<1>0. /\ TypeStep /\ stack # << >>
      /\ IsPdb(Names, pdb) /\ Top.obj \in DOMAIN pdb.symbols
      /\ AnswersItsTag(s) /\ Len(s.members) \in Nat
      /\ FrameOK(Top) /\ FrameFields(Top)
      /\ Top.next \in Nat \ {0}
      /\ Top.symbol \in TypeSymbols(SymbolNames)
      /\ Top.symbol.fields \in Seq(FieldSymbols(SymbolNames))
      /\ Len(Top.symbol.fields) \in Nat
  <2>1. TypeStep /\ stack # << >> /\ IsPdb(Names, pdb)
    BY CreateStepKeeps DEF TypeInv, SessionInv
  <2>2. /\ Len(stack) \in 1..Len(stack) /\ Top = stack[Len(stack)] /\ FrameOK(Top)
        /\ Top.obj \in DOMAIN pdb.symbols /\ Top.next \in Nat \ {0}
        /\ Top.symbol \in TypeSymbols(SymbolNames)
        /\ Top.symbol.fields \in Seq(FieldSymbols(SymbolNames))
    BY <2>1, TopTyped
  <2>3. AnswersItsTag(s) /\ Len(s.members) \in Nat
    BY <2>1, <2>2, SymbolAnswers, LenProperties
  <2>4. Len(Top.symbol.fields) \in Nat
    BY <2>2, LenProperties
  <2>5. FrameFields(Top)
    BY <2>2 DEF FieldsInv
  <2>. QED
    BY <2>1, <2>2, <2>3, <2>4, <2>5
<1>1. ASSUME s.tag \notin {"SymTagUDT", "SymTagEnum"},
             NEW symbol, Return(symbol), symbol.fields = << >>, symbol.fieldCount = 0
      PROVE  FieldsInv'
  <2>1. SymbolMatches(Top.obj, symbol)
    BY <1>0, <1>1, NoMembers DEF AnswersItsTag
  <2>. QED
    BY <1>0, <1>1, <2>1, ReturnFields
<1>2. ASSUME ReturnFalse
      PROVE  FieldsInv'
  BY <1>0, <1>2, ReturnFalseFields
<1>3. ASSUME NEW kind, NEW name
      PROVE  Described(kind, name).fields = << >> /\ Described(kind, name).fieldCount = 0
  BY DEF Described
<1>4. ASSUME s_counter' = s_counter, s.tag \in {"SymTagUDT", "SymTagEnum"},
             Top.step = "create", NEW kind \in TypeKinds, BeginMembers(kind)
      PROVE  FieldsInv'
  <2>1. PICK frame \in Frames :
          /\ Continue(frame)
          /\ frame.obj = Top.obj /\ frame.step = "members" /\ frame.next = Top.next
          /\ frame.symbol = [Described(kind, s.name) EXCEPT !.fieldCount = Len(s.members)]
    BY <1>0, <1>4, BeginMembersKeeps
  <2>2. frame.symbol.fields = << >> /\ frame.symbol.fieldCount = Len(s.members)
    BY <2>1 DEF Described
  <2>3. frame.next = 1
    BY <1>0, <1>4, <2>1 DEF FrameFields
  <2>4. Len(frame.symbol.fields) = 0 /\ 1..Len(frame.symbol.fields) = {}
    BY <2>2
  <2>5. FrameFields(frame)
    BY <1>0, <2>1, <2>2, <2>3, <2>4 DEF FrameFields
  <2>. QED
    BY <1>0, <2>1, <2>5, ContinueFields
<1>5. CASE CreateBaseTypeSymbol
  <2>1. /\ s.tag = "SymTagBaseType"
        /\ Return(Described("kBase", GetBaseName(s.kind, s.length))) \/ ReturnFalse
    BY <1>5 DEF CreateBaseTypeSymbol, Creating
  <2>. QED
    BY <1>1, <1>2, <1>3, <2>1
<1>6. CASE CreateArrayTypeSymbol
  <2>1. /\ s.tag = "SymTagArrayType"
        /\ Return(Described("kArray", s.name)) \/ ReturnFalse
    BY <1>6 DEF CreateArrayTypeSymbol, Creating
  <2>. QED
    BY <1>1, <1>2, <1>3, <2>1
<1>7. CASE CreatePointerTypeSymbol
  <2>1. /\ s.tag = "SymTagPointerType"
        /\ Return(Described("kPointer", PointerName(s_counter'))) \/ ReturnFalse
    BY <1>7 DEF CreatePointerTypeSymbol, Creating
  <2>. QED
    BY <1>1, <1>2, <1>3, <2>1
<1>8. CASE CreateUnsupportedSymbol
  BY <1>2, <1>8 DEF CreateUnsupportedSymbol
<1>9. CASE CreateTypedefSymbol
  <2>1. s.tag = "SymTagTypedef"
    BY <1>9 DEF CreateTypedefSymbol, Creating
  <2>2. CASE ReturnFalse
    BY <1>2, <2>2
  <2>3. CASE Return([Described("kTypedef", s.name) EXCEPT !.length = 0])
    <3>. PICK symbol : symbol = [Described("kTypedef", s.name) EXCEPT !.length = 0]
      OBVIOUS
    <3>1. symbol.fields = << >> /\ symbol.fieldCount = 0
      BY DEF Described
    <3>. QED
      BY <1>1, <2>1, <2>3, <3>1
  <2>4. CASE CreateTypeSymbol(s.type, Append(Below, [Top EXCEPT !.step = "source"]))
    BY <1>0, <2>4, NestedCreateFields
  <2>5. \/ ReturnFalse \/ Return([Described("kTypedef", s.name) EXCEPT !.length = 0])
        \/ CreateTypeSymbol(s.type, Append(Below, [Top EXCEPT !.step = "source"]))
    BY <1>9 DEF CreateTypedefSymbol
  <2>. QED
    BY <2>2, <2>3, <2>4, <2>5
<1>10. CASE FinishTypedefSymbol
  <2>. DEFINE d == Described("kTypedef", s.name)
              e == [d EXCEPT !.length = Sym(s.type).length]
              symbol == [e EXCEPT !.typedefSource = s.type]
  <2>1. Top.step = "source" /\ (ReturnFalse \/ Return(symbol))
    BY <1>10 DEF FinishTypedefSymbol
  <2>2. symbol.fields = << >> /\ symbol.fieldCount = 0
    BY DEF Described
  <2>. HIDE DEF symbol
  <2>3. s.tag = "SymTagTypedef"
    BY <1>0, <2>1 DEF FrameOK
  <2>. QED
    BY <1>1, <1>2, <2>1, <2>2, <2>3
<1>11. CASE CreateUDTSymbol
  <2>1. s_counter' = s_counter /\ s.tag = "SymTagUDT" /\ Top.step = "create"
    BY <1>11 DEF CreateUDTSymbol, Creating
  <2>2. ReturnFalse \/ (s.kind # "fail" /\ BeginMembers(UdtType[s.kind]))
    BY <1>11 DEF CreateUDTSymbol
  <2>3. s.kind # "fail" => UdtType[s.kind] \in TypeKinds
    BY <1>0, <2>1 DEF AnswersItsTag, UdtKinds, UdtType, TypeKinds
  <2>. QED
    BY <1>2, <1>4, <2>1, <2>2, <2>3
<1>12. CASE CreateEnumSymbol
  <2>1. /\ s_counter' = s_counter /\ s.tag = "SymTagEnum" /\ Top.step = "create"
        /\ ReturnFalse \/ BeginMembers("kEnum")
    BY <1>12 DEF CreateEnumSymbol, Creating
  <2>2. "kEnum" \in TypeKinds
    BY DEF TypeKinds
  <2>. QED
    BY <1>2, <1>4, <2>1, <2>2
<1>13. /\ EmptyField(NoName).id = 0 /\ ~EmptyField(NoName).isAnonymousUnion
       /\ Field(Member).id = s.members[Top.next].id /\ ~Field(Member).isAnonymousUnion
  BY DEF EmptyField, Field, Member
<1>14. CASE CreateFieldSymbol
  <2>1. Top.step = "members" /\ Top.next \in 1..Len(s.members)
    BY <1>0, <1>14 DEF CreateFieldSymbol, AtMember
  <2>2. Field(Member) \in FieldSymbols(SymbolNames)
    BY <1>0, <2>1, FieldTyped
  <2>3. CASE PushField(EmptyField(NoName))
    BY <1>0, <1>13, <2>1, <2>3, EmptyFieldTyped, PushFieldFields
  <2>4. CASE PushField(Field(Member))
    BY <1>0, <1>13, <2>1, <2>2, <2>4, PushFieldFields
  <2>5. CASE CreateTypeSymbol(Member.type, Append(Below, [Top EXCEPT !.step = "field"]))
    BY <1>0, <2>1, <2>5, NestedCreateFields
  <2>. QED
    BY <1>14, <2>3, <2>4, <2>5 DEF CreateFieldSymbol
<1>15. CASE FinishFieldSymbol
  <2>1. /\ Top.step = "field"
        /\ PushField(IF ret THEN Field(Member) ELSE EmptyField(NoName))
    BY <1>15 DEF FinishFieldSymbol
  <2>2. Top.next \in 1..Len(s.members)
    BY <1>0, <2>1 DEF FrameOK
  <2>3. Field(Member) \in FieldSymbols(SymbolNames)
    BY <1>0, <2>2, FieldTyped
  <2>4. CASE ret
    BY <1>0, <1>13, <2>1, <2>2, <2>3, <2>4, PushFieldFields
  <2>5. CASE ~ret
    BY <1>0, <1>13, <2>1, <2>2, <2>5, EmptyFieldTyped, PushFieldFields
  <2>. QED
    BY <2>4, <2>5
<1>16. CASE EndMembers
  <2>1. Top.step = "members" /\ Top.next > Len(s.members)
    BY <1>16 DEF EndMembers
  <2>2. /\ Top.symbol.fieldCount = Len(s.members)
        /\ Len(Top.symbol.fields) = Len(s.members)
        /\ \A i \in 1..Len(Top.symbol.fields) : ~Top.symbol.fields[i].isAnonymousUnion
        /\ \A i \in 1..Len(Top.symbol.fields) : Top.symbol.fields[i].id \in {0, s.members[i].id}
    BY <1>0, <2>1 DEF FrameFields
  <2>3. CASE Top.symbol.type \in {"kUnion", "kEnum"}
    <3>1. Return(Top.symbol)
      BY <1>16, <2>3 DEF EndMembers
    <3>2. SymbolMatches(Top.obj, Top.symbol)
      BY <2>2, <2>3 DEF SymbolMatches
    <3>. QED
      BY <1>0, <3>1, <3>2, ReturnFields
  <2>4. CASE Top.symbol.type \notin {"kUnion", "kEnum"}
    <3>. DEFINE e == [Top EXCEPT !.step = "unions"]
                frame == [e EXCEPT !.next = 1]
    <3>1. /\ e \in Frames /\ e.obj = Top.obj /\ e.step = "unions"
          /\ e.symbol = Top.symbol
      BY <1>0, StepTyped
    <3>2. Continue(frame)
      BY <1>16, <2>4 DEF EndMembers
    <3>. HIDE DEF e
    <3>3. /\ frame \in Frames /\ frame.obj = Top.obj /\ frame.step = "unions"
          /\ frame.symbol = Top.symbol /\ frame.next = 1
      BY <3>1 DEF Frames
    <3>. HIDE DEF frame
    <3>4. MarkedUpTo(Top.symbol.fields, 1)
      BY <1>0, <2>2, NoPairYet
    <3>5. ~Pair(Top.symbol.fields, 1 - 1)
      BY DEF Pair
    <3>6. FrameFields(frame)
      BY <2>2, <2>4, <3>3, <3>4, <3>5 DEF FrameFields
    <3>. QED
      BY <1>0, <3>2, <3>3, <3>6, ContinueFields
  <2>. QED
    BY <2>3, <2>4
<1>17. ASSUME Top.step = "unions"
       PROVE  /\ Top.symbol.fieldCount = Len(s.members)
              /\ Len(Top.symbol.fields) = Len(s.members)
              /\ Top.symbol.type \notin {"kUnion", "kEnum"}
              /\ \A i \in 1..Len(Top.symbol.fields) :
                   Top.symbol.fields[i].id \in {0, s.members[i].id}
              /\ MarkedUpTo(Top.symbol.fields, Top.next)
              /\ Pair(Top.symbol.fields, Top.next - 1) =>
                   Top.symbol.fields[Top.next].unionId = Top.unionId
  BY <1>0, <1>17 DEF FrameFields
<1>18. CASE SetAnonymousUnionData
  <2>. DEFINE old == Top.symbol.fields
              n == Top.next
              u == Top.unionId
  <2>1. Top.step = "unions" /\ n < Len(old)
    BY <1>18 DEF SetAnonymousUnionData, AtUnion
  <2>2. PICK frame \in Frames :
          /\ Continue(frame)
          /\ frame.obj = Top.obj /\ frame.step = "unions" /\ frame.next = n + 1
          /\ \/ /\ old[n].id # 0 /\ old[n + 1].id # 0 /\ old[n].offset = old[n + 1].offset
                /\ frame.symbol = [Top.symbol EXCEPT !.fields = MarkUnion(old, n, u)]
                /\ frame.unionId = u
             \/ /\ ~(old[n].id # 0 /\ old[n + 1].id # 0 /\ old[n].offset = old[n + 1].offset)
                /\ frame.symbol = Top.symbol
    BY <1>18, UnionStep
  <2>3. n \in Nat \ {0} /\ u \in Nat /\ old \in Seq(FieldSymbols(SymbolNames)) /\ Len(old) \in Nat
    BY <1>0, TopTyped DEF Frames
  <2>4. FrameFields(frame)
    <3>1. CASE Pair(old, n)
      <4>1. /\ frame.symbol = [Top.symbol EXCEPT !.fields = MarkUnion(old, n, u)]
            /\ frame.unionId = u
        BY <2>2, <3>1 DEF Pair
      <4>. DEFINE marked == MarkUnion(old, n, u)
      <4>2. MarkedUpTo(marked, n + 1) /\ marked[n + 1].unionId = u
        BY <1>17, <2>1, <2>3, <3>1, PairMarked
      <4>3. Len(marked) = Len(old)
        BY <2>3, MarkUnionTyped
      <4>4. \A i \in 1..Len(old) : marked[i].id = old[i].id
        BY <2>3, MarkedField
      <4>. HIDE DEF marked
      <4>5. /\ frame.symbol.fields = marked /\ frame.symbol.type = Top.symbol.type
            /\ frame.symbol.fieldCount = Top.symbol.fieldCount
        BY <1>0, <4>1 DEF TypeSymbols, marked
      <4>6. \A i \in 1..Len(marked) : marked[i].id \in {0, s.members[i].id}
        BY <1>17, <2>1, <4>3, <4>4
      <4>. QED
        BY <1>17, <2>1, <2>2, <4>1, <4>2, <4>3, <4>5, <4>6 DEF FrameFields
    <3>2. CASE ~Pair(old, n)
      <4>1. frame.symbol = Top.symbol
        BY <2>1, <2>2, <2>3, <3>2 DEF Pair
      <4>2. MarkedUpTo(old, n + 1)
        BY <1>17, <2>1, <2>3, <3>2, PairSkipped
      <4>3. frame.next - 1 = n
        BY <2>2, <2>3
      <4>. QED
        BY <1>17, <2>1, <2>2, <3>2, <4>1, <4>2, <4>3 DEF FrameFields
    <3>. QED
      BY <3>1, <3>2
  <2>. QED
    BY <1>0, <2>2, <2>4, ContinueFields
<1>19. CASE EndUnions
  <2>1. /\ Top.step = "unions" /\ Top.next >= Len(Top.symbol.fields)
        /\ Return(Top.symbol)
    BY <1>19 DEF EndUnions, AtUnion
  <2>2. MarkedUpTo(Top.symbol.fields, Len(Top.symbol.fields))
    BY <1>0, <1>17, <2>1, AllPairs
  <2>3. SymbolMatches(Top.obj, Top.symbol)
    BY <1>17, <2>1, <2>2 DEF SymbolMatches
  <2>. QED
    BY <1>0, <2>1, <2>3, ReturnFields
<1>. QED
  BY <1>5, <1>6, <1>7, <1>8, <1>9, <1>10, <1>11, <1>12, <1>14, <1>15, <1>16, <1>18, <1>19
  DEF CreateStep

(* The type of a return value or an argument is created for a list. *)
LEMMA EnsureTypeFields ==
  ASSUME FieldsInv, NEW o, EnsureType(o)
  PROVE  FieldsInv'
<1>0. pdb' = pdb
  BY DEF EnsureType, sessionVars
<1>1. CASE typeSymbols' = typeSymbols /\ stack' = stack
  BY <1>0, <1>1, FieldsOfThePdb DEF FieldsInv
<1>2. CASE CreateTypeSymbol(o, << >>)
  <2>1. << >> \in Seq(Frames) /\ 1..Len(<< >>) = {}
    BY EmptySeq
  <2>. QED
    BY <1>0, <1>2, <2>1, CreateFields
<1>. QED
  BY <1>1, <1>2 DEF EnsureType

(* Every step of CreateUsymFromFile keeps fields and members together. *)
LEMMA NextFields == TypeInv /\ FieldsInv /\ [Next]_vars => FieldsInv'
<1>. SUFFICES ASSUME TypeInv, FieldsInv, [Next]_vars
              PROVE  FieldsInv'
  OBVIOUS
<1>1. ASSUME pdb' = pdb, typeSymbols' = typeSymbols, stack' = stack
      PROVE  FieldsInv'
  BY <1>1, FieldsOfThePdb DEF FieldsInv
<1>2. ASSUME typeSymbols' = EmptyMap, stack' = << >>
      PROVE  FieldsInv'
  <2>1. DOMAIN typeSymbols' = {} /\ 1..Len(stack') = {}
    BY <1>2 DEF EmptyMap
  <2>. QED
    BY <2>1 DEF FieldsInv
<1>3. ASSUME NEW p \in Pdbs, NEW failing \in Failures, InitializeDia(p, failing)
      PROVE  FieldsInv'
  <2>1. pc = "idle" /\ typeSymbols' = EmptyMap /\ stack' = stack
    BY <1>3 DEF InitializeDia
  <2>2. stack = << >>
    BY <2>1 DEF TypeInv, StackInv, ListInv
  <2>. QED
    BY <1>2, <2>1, <2>2
<1>4. CASE Throw
  BY <1>2, <1>4 DEF Throw
<1>5. CASE BuildHeader \/ ReturnUsym \/ Catch
  BY <1>1, <1>5 DEF BuildHeader, ReturnUsym, Catch, typeVars
<1>6. CASE BeginList
  BY <1>1, <1>6 DEF BeginList, sessionVars, typeVars
<1>7. ASSUME NEW o \in DOMAIN pdb.symbols, BuildTypeList(o)
      PROVE  FieldsInv'
  <2>1. CreateTypeSymbol(o, << >>) /\ pdb' = pdb
    BY <1>7 DEF BuildTypeList, sessionVars
  <2>2. << >> \in Seq(Frames) /\ 1..Len(<< >>) = {}
    BY EmptySeq
  <2>. QED
    BY <2>1, <2>2, CreateFields
<1>8. CASE CreateStep
  BY <1>8, CreateStepFields
<1>9. ASSUME NEW h \in DOMAIN pdb.functions, BeginFunction(h)
      PROVE  FieldsInv'
  BY <1>1, <1>9 DEF BeginFunction, sessionVars, typeVars
<1>10. CASE ReturnType
  BY <1>10, EnsureTypeFields DEF ReturnType
<1>11. CASE ThisArgument
  BY <1>11, EnsureTypeFields DEF ThisArgument
<1>12. CASE Argument
  BY <1>12, EnsureTypeFields DEF Argument
<1>13. CASE EndFunction
  BY <1>1, <1>13 DEF EndFunction, sessionVars, typeVars
<1>14. CASE UNCHANGED vars
  BY <1>1, <1>14 DEF vars, sessionVars, typeVars
<1>. QED
  BY <1>3, <1>4, <1>5, <1>6, <1>7, <1>8, <1>9, <1>10, <1>11, <1>12, <1>13, <1>14
  DEF Next, BuildStep, FunctionStep

(* The assertion of CreateMembersForSymbol holds of every symbol that is ever
   assigned to the map, and SetAnonymousUnionData has marked exactly the
   neighbours of one offset, one number for each run of them. *)
THEOREM FieldsAlwaysMatch == Spec => []FieldsMatchMembers
<1>1. Init => FieldsInv
  <2>. SUFFICES ASSUME Init PROVE FieldsInv
    OBVIOUS
  <2>1. DOMAIN typeSymbols = {} /\ 1..Len(stack) = {}
    BY DEF Init, EmptyMap
  <2>. QED
    BY <2>1 DEF FieldsInv
<1>. QED
  BY <1>1, NextFields, TypeInvHolds, FieldsSuffice, PTL DEF Spec

-----------------------------------------------------------------------------
(* Arguments: the invariant *)

Counted(f) == f.hasType /\ f.hasCount /\ f.count > 0

ThisCount(f) == IF f.this = 0 THEN 0 ELSE 1

(* ids are those of the this pointer and of the arguments from stubs + 1 to
   passed; the arguments before those are stubs. *)
ArgumentsUpTo(f, ids, passed, stubs) ==
  /\ stubs <= passed
  /\ Len(ids) = ThisCount(f) + (passed - stubs)
  /\ f.this # 0 => ids[1] = Id(f.this)
  /\ \A i \in (ThisCount(f) + 1)..Len(ids) :
       ids[i] = Id(f.arguments[i - ThisCount(f) + stubs])
  /\ \A j \in 1..stubs : IsNoType(f.arguments[j])
  /\ stubs < passed => ~IsNoType(f.arguments[stubs + 1])

(* The function in progress: its entry holds what has been passed so far, and
   the count as soon as it was asked for. *)
CurrentFunction ==
  fn # NoFunction =>
    LET ids == functionSymbols[Fun.id].argumentTypeIds
    IN  /\ fn.handle \notin todo
        /\ fn.step \in {"return", "this"} =>
             fn.next = 1 /\ fn.position = 0 /\ ids = << >>
        /\ (fn.step = "arguments" /\ Counted(Fun)) =>
             /\ fn.next - 1 <= Len(Fun.arguments)
             /\ fn.position < fn.next
             /\ ArgumentsUpTo(Fun, ids, fn.next - 1, fn.next - 1 - fn.position)
             /\ functionSymbols[Fun.id].argumentCount = Fun.count

(* The entry of a function that is done holds all its arguments. *)
Finished(f) ==
  /\ f.id \in DOMAIN functionSymbols
  /\ functionSymbols[f.id].argumentCount = f.count
  /\ \E stubs \in Nat :
       ArgumentsUpTo(f, functionSymbols[f.id].argumentTypeIds, Len(f.arguments), stubs)

Done(h) == h \notin todo /\ (fn # NoFunction => fn.handle # h)

FinishedFunctions ==
  \A h \in DOMAIN pdb.functions :
    (Done(h) /\ Counted(pdb.functions[h])) => Finished(pdb.functions[h])

(* A function that has not begun has no entry, so that its arguments are
   appended to none. *)
ArgumentInv ==
  /\ pc \in {"header", "types"} => functionSymbols = EmptyMap
  /\ pc = "functions" =>
       \A h \in todo : pdb.functions[h].id \notin DOMAIN functionSymbols
  /\ CurrentFunction
  /\ (pc = "functions" \/ Built) => FinishedFunctions

-----------------------------------------------------------------------------
(* Arguments: lemmas *)

(* The arguments that are kept are those behind the stubs. *)
LEMMA KeptBehindStubs ==
  ASSUME NEW f, NEW S, f.arguments \in Seq(S), NEW stubs \in 0..Len(f.arguments),
         \A j \in 1..stubs : IsNoType(f.arguments[j]),
         stubs < Len(f.arguments) => ~IsNoType(f.arguments[stubs + 1])
  PROVE  Len(f.arguments) - Cardinality(KeptArguments(f)) = stubs
<1>1. Len(f.arguments) \in Nat /\ DOMAIN f.arguments = 1..Len(f.arguments)
  BY LenProperties
<1>2. KeptArguments(f) = (stubs + 1)..Len(f.arguments)
  <2>1. ASSUME NEW i \in KeptArguments(f)
        PROVE  i \in (stubs + 1)..Len(f.arguments)
    <3>1. i \in 1..Len(f.arguments) /\ \E j \in 1..i : ~IsNoType(f.arguments[j])
      BY <1>1 DEF KeptArguments
    <3>2. PICK j \in 1..i : ~IsNoType(f.arguments[j])
      BY <3>1
    <3>3. j \notin 1..stubs
      BY <3>2
    <3>. QED
      BY <1>1, <3>1, <3>3
  <2>2. ASSUME NEW i \in (stubs + 1)..Len(f.arguments)
        PROVE  i \in KeptArguments(f)
    <3>1. stubs < Len(f.arguments) /\ stubs + 1 \in 1..i /\ i \in DOMAIN f.arguments
      BY <1>1
    <3>. QED
      BY <3>1 DEF KeptArguments
  <2>. QED
    BY <2>1, <2>2
<1>3. Cardinality((stubs + 1)..Len(f.arguments))
        = IF stubs + 1 > Len(f.arguments) THEN 0 ELSE Len(f.arguments) - (stubs + 1) + 1
  <2>. PICK a : a = stubs + 1
    OBVIOUS
  <2>. PICK b : b = Len(f.arguments)
    OBVIOUS
  <2>1. a \in Int /\ b \in Int
    BY <1>1
  <2>2. Cardinality(a..b) = IF a > b THEN 0 ELSE b - a + 1
    BY <2>1, FS_Interval
  <2>. QED
    BY <2>2
<1>. QED
  BY <1>1, <1>2, <1>3

(* The entries say what ArgumentsFaithful says. *)
LEMMA ArgumentsSuffice == TypeInv /\ ArgumentInv => ArgumentsFaithful
<1>. SUFFICES ASSUME TypeInv, ArgumentInv, Built, NEW h \in DOMAIN pdb.functions,
                     Counted(pdb.functions[h])
              PROVE  LET f == pdb.functions[h]
                         ids == functionSymbols[f.id].argumentTypeIds
                         this == IF f.this = 0 THEN 0 ELSE 1
                         stubs == Len(f.arguments) - Cardinality(KeptArguments(f))
                     IN  /\ Len(ids) = this + Len(f.arguments) - stubs
                         /\ this = 1 => ids[1] = Id(f.this)
                         /\ \A i \in (this + 1)..Len(ids) :
                              ids[i] = Id(f.arguments[i - this + stubs])
                         /\ f.count = this + Len(f.arguments) =>
                              functionSymbols[f.id].argumentCount = Len(ids) + stubs
  BY DEF ArgumentsFaithful, Counted
<1>. DEFINE f == pdb.functions[h]
            ids == functionSymbols[f.id].argumentTypeIds
            counted == functionSymbols[f.id].argumentCount
            this == IF f.this = 0 THEN 0 ELSE 1
            skipped == Len(f.arguments) - Cardinality(KeptArguments(f))
<1>1. Done(h)
  BY DEF TypeInv, ListInv, Built, Done
<1>2. /\ counted = f.count
      /\ \E stubs \in Nat : ArgumentsUpTo(f, ids, Len(f.arguments), stubs)
  BY <1>1 DEF ArgumentInv, FinishedFunctions, Finished
<1>. PICK stubs \in Nat : ArgumentsUpTo(f, ids, Len(f.arguments), stubs)
  BY <1>2
<1>3. f.arguments \in Seq(DOMAIN pdb.symbols) /\ Len(f.arguments) \in Nat
  BY FunctionAnswers, LenProperties DEF TypeInv, SessionInv
<1>. HIDE DEF f, ids, counted
<1>4. skipped = stubs
  <2>1. stubs \in 0..Len(f.arguments)
    BY <1>2, <1>3 DEF ArgumentsUpTo
  <2>. QED
    BY <1>2, <1>3, <2>1, KeptBehindStubs DEF ArgumentsUpTo
<1>5. /\ Len(ids) = this + (Len(f.arguments) - stubs)
      /\ this = 1 => ids[1] = Id(f.this)
      /\ \A i \in (this + 1)..Len(ids) : ids[i] = Id(f.arguments[i - this + stubs])
  <2>1. this = ThisCount(f) /\ (this = 1 => f.this # 0)
    BY DEF ThisCount
  <2>. HIDE DEF this
  <2>. QED
    BY <1>2, <2>1 DEF ArgumentsUpTo
<1>6. /\ this + (Len(f.arguments) - stubs) = this + Len(f.arguments) - stubs
      /\ this + Len(f.arguments) = (this + (Len(f.arguments) - stubs)) + stubs
  BY <1>3
<1>. HIDE DEF skipped, this
<1>7. /\ Len(ids) = this + Len(f.arguments) - skipped
      /\ this = 1 => ids[1] = Id(f.this)
      /\ \A i \in (this + 1)..Len(ids) : ids[i] = Id(f.arguments[i - this + skipped])
      /\ f.count = this + Len(f.arguments) => counted = Len(ids) + skipped
  BY <1>2, <1>4, <1>5, <1>6
<1>. QED
  BY <1>7, Zenon DEF f, ids, counted, this, skipped

(* What is said of arguments only looks at the PDB. *)
LEMMA ArgumentsOfThePdb ==
  ASSUME pdb' = pdb, NEW f, NEW ids, NEW passed, NEW stubs,
         ArgumentsUpTo(f, ids, passed, stubs)
  PROVE  ArgumentsUpTo(f, ids, passed, stubs)'
  BY DEF ArgumentsUpTo, ThisCount, Id, IsNoType, Sym

(* A function whose entry stays is as finished as it was. *)
LEMMA FinishedStays ==
  ASSUME pdb' = pdb, NEW f, Finished(f), f.id \in DOMAIN functionSymbols',
         functionSymbols'[f.id].argumentCount = functionSymbols[f.id].argumentCount,
         functionSymbols'[f.id].argumentTypeIds = functionSymbols[f.id].argumentTypeIds
  PROVE  Finished(f)'
<1>1. PICK stubs \in Nat :
        ArgumentsUpTo(f, functionSymbols[f.id].argumentTypeIds, Len(f.arguments), stubs)
  BY DEF Finished
<1>2. ArgumentsUpTo(f, functionSymbols[f.id].argumentTypeIds, Len(f.arguments), stubs)'
  BY <1>1, ArgumentsOfThePdb
<1>. QED
  BY <1>2 DEF Finished

(* Functions are entered under ids of their own. *)
LEMMA IdsDiffer ==
  ASSUME TypeInv, NEW g \in DOMAIN pdb.functions, NEW h \in DOMAIN pdb.functions, g # h
  PROVE  pdb.functions[g].id # pdb.functions[h].id
  BY DEF TypeInv, SessionInv, IsPdb

(* A step within one function leaves the others as they are. *)
LEMMA OthersFinished ==
  ASSUME TypeInv, ArgumentInv, fn # NoFunction, pdb' = pdb, todo' = todo,
         OnlyEntry(Fun.id), fn' # NoFunction, fn'.handle = fn.handle
  PROVE  FinishedFunctions'
<1>. SUFFICES ASSUME NEW h \in DOMAIN pdb.functions, Done(h)', Counted(pdb.functions[h])
              PROVE  Finished(pdb.functions[h])'
  BY DEF FinishedFunctions, Counted
<1>1. Done(h) /\ h # fn.handle
  BY DEF Done
<1>2. pc = "functions" /\ fn.handle \in DOMAIN pdb.functions /\ Fun = pdb.functions[fn.handle]
  BY FunTyped
<1>3. Finished(pdb.functions[h])
  BY <1>1, <1>2 DEF ArgumentInv, FinishedFunctions
<1>4. pdb.functions[h].id \in DOMAIN functionSymbols \ {Fun.id}
  BY <1>1, <1>2, <1>3, IdsDiffer DEF Finished
<1>. PICK f : f = pdb.functions[h]
  OBVIOUS
<1>5. Finished(f)'
  BY <1>3, <1>4, FinishedStays DEF OnlyEntry
<1>. QED
  BY <1>5

(* One more argument, behind the stubs. *)
LEMMA ArgumentAppended ==
  ASSUME NEW f, NEW ids \in Seq(Nat), NEW next \in Nat \ {0}, NEW position \in Nat,
         position < next, ArgumentsUpTo(f, ids, next - 1, next - 1 - position),
         NEW id \in Nat, id = Id(f.arguments[next]),
         ~(IsNoType(f.arguments[next]) /\ position = 0)
  PROVE  ArgumentsUpTo(f, Append(ids, id), next, next - (position + 1))
<1>. DEFINE stubs == next - 1 - position
            this == ThisCount(f)
            new == Append(ids, id)
<1>1. stubs \in Nat /\ next - (position + 1) = stubs /\ stubs < next
  OBVIOUS
<1>2. this \in {0, 1} /\ (f.this # 0 <=> this = 1)
  BY DEF ThisCount
<1>3. Len(ids) = this + (next - 1 - stubs) /\ Len(ids) \in Nat
  BY LenProperties DEF ArgumentsUpTo
<1>4. /\ Len(new) = Len(ids) + 1 /\ new[Len(ids) + 1] = id
      /\ \A i \in 1..Len(ids) : new[i] = ids[i]
  BY AppendProperties
<1>. HIDE DEF new
<1>5. Len(new) = this + (next - stubs)
  BY <1>1, <1>2, <1>3, <1>4
<1>6. f.this # 0 => new[1] = Id(f.this)
  <2>. SUFFICES ASSUME f.this # 0 PROVE new[1] = Id(f.this)
    OBVIOUS
  <2>1. 1 \in 1..Len(ids)
    BY <1>1, <1>2, <1>3
  <2>. QED
    BY <1>4, <2>1 DEF ArgumentsUpTo
<1>7. ASSUME NEW i \in (this + 1)..Len(new)
      PROVE  new[i] = Id(f.arguments[i - this + stubs])
  <2>1. CASE i = Len(ids) + 1
    <3>1. i - this + stubs = next
      BY <1>1, <1>2, <1>3, <2>1, SMTT(30)
    <3>. QED
      BY <1>4, <2>1, <3>1
  <2>2. CASE i # Len(ids) + 1
    <3>1. i \in (this + 1)..Len(ids) /\ i \in 1..Len(ids)
      BY <1>2, <1>3, <1>4, <2>2
    <3>2. ids[i] = Id(f.arguments[i - this + stubs])
      BY <3>1 DEF ArgumentsUpTo
    <3>. QED
      BY <1>4, <3>1, <3>2
  <2>. QED
    BY <2>1, <2>2
<1>8. ~IsNoType(f.arguments[stubs + 1])
  <2>1. CASE position = 0
    BY <2>1
  <2>2. CASE position # 0
    BY <2>2 DEF ArgumentsUpTo
  <2>. QED
    BY <2>1, <2>2
<1>9. \A j \in 1..stubs : IsNoType(f.arguments[j])
  BY DEF ArgumentsUpTo
<1>. HIDE DEF stubs, this
<1>10. ArgumentsUpTo(f, new, next, stubs)
  BY <1>1, <1>5, <1>6, <1>7, <1>8, <1>9 DEF ArgumentsUpTo, this
<1>. QED
  BY <1>1, <1>10 DEF new, stubs

(* One more stub. *)
LEMMA StubPassed ==
  ASSUME NEW f, NEW ids, NEW next \in Nat \ {0},
         ArgumentsUpTo(f, ids, next - 1, next - 1), IsNoType(f.arguments[next])
  PROVE  ArgumentsUpTo(f, ids, next, next)
<1>1. Len(ids) = ThisCount(f)
  BY DEF ArgumentsUpTo, ThisCount
<1>2. (ThisCount(f) + 1)..Len(ids) = {}
  BY <1>1 DEF ThisCount
<1>3. \A j \in 1..next : j \in 1..(next - 1) \/ j = next
  OBVIOUS
<1>4. \A j \in 1..next : IsNoType(f.arguments[j])
  BY <1>3 DEF ArgumentsUpTo
<1>5. f.this # 0 => ids[1] = Id(f.this)
  BY DEF ArgumentsUpTo
<1>. QED
  BY <1>1, <1>2, <1>4, <1>5 DEF ArgumentsUpTo, ThisCount

(* The this pointer alone. *)
LEMMA OnlyThis ==
  ASSUME NEW f
  PROVE  ArgumentsUpTo(f, IF f.this = 0 THEN << >> ELSE <<Id(f.this)>>, 0, 0)
<1>1. CASE f.this = 0
  BY <1>1 DEF ArgumentsUpTo, ThisCount
<1>2. CASE f.this # 0
  <2>. PICK x : x = Id(f.this)
    OBVIOUS
  <2>1. Len(<<x>>) = 1 /\ <<x>>[1] = x
    OBVIOUS
  <2>2. (1 + 1)..1 = {} /\ 1..0 = {}
    OBVIOUS
  <2>. QED
    BY <1>2, <2>1, <2>2 DEF ArgumentsUpTo, ThisCount
<1>. QED
  BY <1>1, <1>2

(* A step within a function: what the entry of the function holds is left to
   show. *)
LEMMA WithinFunction ==
  ASSUME TypeInv, ArgumentInv, fn # NoFunction, UNCHANGED <<sessionVars, listVars>>,
         OnlyEntry(Fun.id), fn'.handle = fn.handle, fn'.step \in {"this", "arguments"},
         LET ids == functionSymbols'[Fun.id].argumentTypeIds
         IN  /\ fn'.step = "this" =>
                  fn'.next = 1 /\ fn'.position = 0 /\ ids = << >>
             /\ (fn'.step = "arguments" /\ Counted(Fun)) =>
                  /\ fn'.next - 1 <= Len(Fun.arguments)
                  /\ fn'.position < fn'.next
                  /\ ArgumentsUpTo(Fun, ids, fn'.next - 1, fn'.next - 1 - fn'.position)
                  /\ functionSymbols'[Fun.id].argumentCount = Fun.count
  PROVE  ArgumentInv'
<1>1. pdb' = pdb /\ pc' = pc /\ todo' = todo /\ fn' # NoFunction
  BY DEF sessionVars, listVars, NoFunction
<1>2. pc = "functions"
  BY FunTyped
<1>3. FinishedFunctions'
  BY <1>1, OthersFinished
<1>4. (\A h \in todo : pdb.functions[h].id \notin DOMAIN functionSymbols)'
  BY <1>1, <1>2 DEF ArgumentInv, OnlyEntry
<1>5. fn'.handle \notin todo'
  BY <1>1 DEF ArgumentInv, CurrentFunction
<1>6. CurrentFunction'
  <2>1. PICK f : f = Fun
    OBVIOUS
  <2>2. PICK ids : ids = functionSymbols'[Fun.id].argumentTypeIds
    OBVIOUS
  <2>3. PICK g : g = fn'
    OBVIOUS
  <2>4. Fun' = f
    BY <1>1, <2>1 DEF Fun
  <2>5. Counted(f)' <=> Counted(f)
    BY DEF Counted
  <2>. PICK counted : counted = functionSymbols'[Fun.id].argumentCount
    OBVIOUS
  <2>6. /\ (functionSymbols[Fun.id].argumentTypeIds)' = ids
        /\ (functionSymbols[Fun.id].argumentCount)' = counted
    BY <2>1, <2>2, <2>4
  <2>7. ArgumentsUpTo(f, ids, g.next - 1, g.next - 1 - g.position) =>
          ArgumentsUpTo(f, ids, g.next - 1, g.next - 1 - g.position)'
    BY <1>1, ArgumentsOfThePdb
  <2>8. /\ g.step = "this" => g.next = 1 /\ g.position = 0 /\ ids = << >>
        /\ (g.step = "arguments" /\ Counted(f)) =>
             /\ g.next - 1 <= Len(f.arguments)
             /\ g.position < g.next
             /\ ArgumentsUpTo(f, ids, g.next - 1, g.next - 1 - g.position)
             /\ counted = f.count
    BY <2>1, <2>2, <2>3
  <2>9. g.step \in {"this", "arguments"}
    BY <2>3
  <2>. QED
    BY <1>5, <2>3, <2>4, <2>5, <2>6, <2>7, <2>8, <2>9 DEF CurrentFunction
<1>. QED
  BY <1>1, <1>2, <1>3, <1>4, <1>6 DEF ArgumentInv

(* Nothing of the functions changes. *)
LEMMA ArgumentsKept ==
  ASSUME ArgumentInv, pdb' = pdb, functionSymbols' = functionSymbols, fn' = fn, todo' = todo,
         pc' = "functions" => pc = "functions", Built' => (Built \/ pc = "functions"),
         pc' \in {"header", "types"} => pc \in {"header", "types"}
  PROVE  ArgumentInv'
<1>1. Fun' = Fun
  BY DEF Fun
<1>2. CurrentFunction'
  BY <1>1 DEF ArgumentInv, CurrentFunction, Counted, ArgumentsUpTo, ThisCount, Id, IsNoType, Sym
<1>3. FinishedFunctions => FinishedFunctions'
  <2>1. ASSUME FinishedFunctions, NEW h \in DOMAIN pdb.functions, Done(h)',
               Counted(pdb.functions[h])
        PROVE  Finished(pdb.functions[h])'
    <3>. PICK f : f = pdb.functions[h]
      OBVIOUS
    <3>1. Finished(f)
      BY <2>1 DEF FinishedFunctions, Done
    <3>2. Finished(f)'
      BY <3>1, FinishedStays DEF Finished
    <3>. QED
      BY <3>2
  <2>. QED
    BY <2>1 DEF FinishedFunctions, Counted
<1>. QED
  BY <1>2, <1>3 DEF ArgumentInv

(* Every step of BuildFunctionList keeps what the entries hold. *)
LEMMA FunctionStepArguments ==
  ASSUME TypeInv, ArgumentInv, FunctionStep
  PROVE  ArgumentInv'
<1>1. ASSUME NEW h \in DOMAIN pdb.functions, BeginFunction(h)
      PROVE  ArgumentInv'
  <2>1. PICK f : f = pdb.functions[h]
    OBVIOUS
  <2>2. /\ pc = "functions" /\ fn = NoFunction /\ h \in todo /\ todo' = todo \ {h}
        /\ pdb' = pdb /\ pc' = pc
        /\ fn' = IF f.hasType
                 THEN [handle |-> h, step |-> "return", next |-> 1, position |-> 0]
                 ELSE NoFunction
    BY <1>1, <2>1 DEF BeginFunction, sessionVars
  <2>3. f.id \notin DOMAIN functionSymbols
    BY <2>1, <2>2 DEF ArgumentInv
  <2>4. /\ DOMAIN functionSymbols' = DOMAIN functionSymbols \cup {f.id}
        /\ \A g \in DOMAIN functionSymbols \ {f.id} : functionSymbols'[g] = functionSymbols[g]
        /\ functionSymbols'[f.id].argumentTypeIds = << >>
    BY <1>1, <2>1, <2>3, BeginFunctionEffect
  <2>5. (\A g \in todo : pdb.functions[g].id \notin DOMAIN functionSymbols)'
    <3>. SUFFICES ASSUME NEW g \in todo, g # h
                  PROVE  pdb.functions[g].id \notin DOMAIN functionSymbols'
      BY <2>2
    <3>1. g \in DOMAIN pdb.functions
      BY <2>2 DEF TypeInv, ListInv
    <3>2. pdb.functions[g].id # f.id
      BY <2>1, <3>1, IdsDiffer
    <3>. QED
      BY <2>2, <2>4, <3>2 DEF ArgumentInv
  <2>6. CurrentFunction'
    <3>. SUFFICES ASSUME fn' # NoFunction PROVE CurrentFunction'
      BY DEF CurrentFunction
    <3>1. fn' = [handle |-> h, step |-> "return", next |-> 1, position |-> 0]
      BY <2>2
    <3>2. fn'.handle = h /\ fn'.step = "return" /\ fn'.next = 1 /\ fn'.position = 0
      BY <3>1
    <3>3. Fun' = f
      BY <2>1, <2>2, <3>2 DEF Fun
    <3>4. (functionSymbols[Fun.id].argumentTypeIds)' = << >>
      BY <2>4, <3>3
    <3>. QED
      BY <2>2, <3>2, <3>4 DEF CurrentFunction
  <2>7. FinishedFunctions'
    <3>. SUFFICES ASSUME NEW g \in DOMAIN pdb.functions, Done(g)', Counted(pdb.functions[g])
                  PROVE  Finished(pdb.functions[g])'
      BY <2>2 DEF FinishedFunctions, Counted
    <3>1. g # h
      <4>1. CASE f.hasType
        <5>1. fn'.handle = h /\ fn' # NoFunction
          BY <2>2, <4>1 DEF NoFunction
        <5>. QED
          BY <5>1 DEF Done
      <4>2. CASE ~f.hasType
        BY <2>1, <4>2 DEF Counted
      <4>. QED
        BY <4>1, <4>2
    <3>2. Done(g)
      BY <2>2, <3>1 DEF Done
    <3>. PICK k : k = pdb.functions[g]
      OBVIOUS
    <3>3. Finished(k)
      BY <2>2, <3>2 DEF ArgumentInv, FinishedFunctions
    <3>4. k.id # f.id
      BY <2>1, <3>1, IdsDiffer
    <3>5. Finished(k)'
      BY <2>2, <2>4, <3>3, <3>4, FinishedStays DEF Finished
    <3>. QED
      BY <2>2, <3>5
  <2>. QED
    BY <2>2, <2>5, <2>6, <2>7 DEF ArgumentInv
<1>. DEFINE old == functionSymbols[Fun.id].argumentTypeIds
            new == functionSymbols'[Fun.id].argumentTypeIds
<1>2. CASE ReturnType
  <2>1. /\ fn # NoFunction /\ OnlyEntry(Fun.id) /\ EnsureType(Fun.returnType) /\ new = old
        /\ fn'.handle = fn.handle /\ fn'.step = "this"
        /\ fn'.next = fn.next /\ fn'.position = fn.position
    BY <1>2, ReturnTypeEffect
  <2>2. fn.step = "return"
    BY <1>2 DEF ReturnType, AtFunction
  <2>3. fn'.next = 1 /\ fn'.position = 0 /\ new = << >>
    BY <2>1, <2>2 DEF ArgumentInv, CurrentFunction
  <2>4. UNCHANGED <<sessionVars, listVars>>
    BY <2>1 DEF EnsureType
  <2>. QED
    BY <2>1, <2>3, <2>4, WithinFunction
<1>3. CASE ThisArgument
  <2>. DEFINE count == IF Fun.hasCount THEN Fun.count ELSE functionSymbols[Fun.id].argumentCount
              ids == IF Fun.this = 0 THEN << >> ELSE <<Id(Fun.this)>>
  <2>1. /\ fn # NoFunction /\ fn.step = "this" /\ OnlyEntry(Fun.id)
        /\ fn'.handle = fn.handle /\ fn'.step = "arguments" /\ fn'.position = fn.position
        /\ \/ count > 0 /\ EnsureType(Fun.this) /\ new = old \o ids /\ fn'.next = fn.next
           \/ count = 0 /\ EnsureType(0)
        /\ functionSymbols'[Fun.id].argumentCount = count
    BY <1>3, ThisArgumentEffect
  <2>2. fn.next = 1 /\ fn.position = 0 /\ old = << >>
    BY <2>1 DEF ArgumentInv, CurrentFunction
  <2>3. UNCHANGED <<sessionVars, listVars>>
    BY <2>1 DEF EnsureType
  <2>4. Len(Fun.arguments) \in Nat /\ Fun.count \in Nat
    BY <2>1, FunTyped
  <2>5. ASSUME Counted(Fun)
        PROVE  /\ fn'.next - 1 <= Len(Fun.arguments)
               /\ fn'.position < fn'.next
               /\ ArgumentsUpTo(Fun, new, fn'.next - 1, fn'.next - 1 - fn'.position)
               /\ functionSymbols'[Fun.id].argumentCount = Fun.count
    <3>1. count > 0 /\ count # 0 /\ count = Fun.count
      BY <2>4, <2>5 DEF Counted
    <3>. HIDE DEF count
    <3>2. new = << >> \o ids /\ fn'.next = 1 /\ fn'.position = 0
      BY <2>1, <2>2, <3>1
    <3>3. << >> \o ids = ids
      <4>1. CASE Fun.this = 0
        BY <4>1
      <4>2. CASE Fun.this # 0
        <5>. PICK x : x = Id(Fun.this)
          OBVIOUS
        <5>1. << >> \o <<x>> = <<x>>
          OBVIOUS
        <5>. QED
          BY <4>2, <5>1
      <4>. QED
        BY <4>1, <4>2
    <3>4. ArgumentsUpTo(Fun, ids, 0, 0)
      BY OnlyThis
    <3>. HIDE DEF ids, new
    <3>. QED
      BY <2>1, <2>4, <3>1, <3>2, <3>3, <3>4
  <2>. HIDE DEF count, ids
  <2>. QED
    BY <2>1, <2>3, <2>5, WithinFunction
<1>4. CASE Argument
  <2>. DEFINE o == Fun.arguments[fn.next]
  <2>1. /\ fn # NoFunction /\ fn.step = "arguments" /\ OnlyEntry(Fun.id)
        /\ fn.next \in 1..Len(Fun.arguments) /\ o \in DOMAIN pdb.symbols
        /\ fn'.handle = fn.handle /\ fn'.step = "arguments" /\ fn'.next = fn.next + 1
        /\ \/ /\ IsNoType(o) /\ fn.position = 0 /\ EnsureType(0)
              /\ new = old /\ fn'.position = fn.position
           \/ /\ ~(IsNoType(o) /\ fn.position = 0) /\ EnsureType(o)
              /\ new = Append(old, Id(o)) /\ fn'.position = fn.position + 1
        /\ functionSymbols'[Fun.id].argumentCount = functionSymbols[Fun.id].argumentCount
    BY <1>4, ArgumentEffect
  <2>2. UNCHANGED <<sessionVars, listVars>>
    BY <2>1 DEF EnsureType
  <2>3. /\ Len(Fun.arguments) \in Nat /\ old \in Seq(Nat)
        /\ fn.next \in Nat \ {0} /\ fn.position \in Nat
    <3>1. Len(Fun.arguments) \in Nat /\ functionSymbols[Fun.id] \in FunctionSymbols(Names)
      BY <2>1, FunTyped
    <3>2. old \in Seq(Nat)
      BY <3>1 DEF FunctionSymbols
    <3>. QED
      BY <2>1, <3>1, <3>2 DEF TypeInv, ListInv
  <2>4. Id(o) \in Nat
    BY <2>1, IdTyped
  <2>5. ASSUME Counted(Fun)
        PROVE  /\ fn'.next - 1 <= Len(Fun.arguments)
               /\ fn'.position < fn'.next
               /\ ArgumentsUpTo(Fun, new, fn'.next - 1, fn'.next - 1 - fn'.position)
               /\ functionSymbols'[Fun.id].argumentCount = Fun.count
    <3>1. /\ fn.position < fn.next
          /\ ArgumentsUpTo(Fun, old, fn.next - 1, fn.next - 1 - fn.position)
          /\ functionSymbols[Fun.id].argumentCount = Fun.count
      BY <2>1, <2>5 DEF ArgumentInv, CurrentFunction
    <3>. HIDE DEF old, new
    <3>2. CASE IsNoType(o) /\ fn.position = 0 /\ new = old /\ fn'.position = fn.position
      <4>1. fn.next - 1 - fn.position = fn.next - 1
        BY <2>3, <3>2
      <4>2. ArgumentsUpTo(Fun, old, fn.next, fn.next)
        BY <2>3, <3>1, <3>2, <4>1, StubPassed
      <4>3. /\ fn'.next - 1 = fn.next /\ fn'.next - 1 - fn'.position = fn.next
            /\ fn'.position < fn'.next
        BY <2>1, <2>3, <3>2
      <4>. QED
        BY <2>1, <3>1, <3>2, <4>2, <4>3
    <3>3. CASE /\ ~(IsNoType(o) /\ fn.position = 0)
               /\ new = Append(old, Id(o)) /\ fn'.position = fn.position + 1
      <4>. PICK id : id = Id(o)
        OBVIOUS
      <4>1. ArgumentsUpTo(Fun, Append(old, id), fn.next, fn.next - (fn.position + 1))
        BY <2>3, <2>4, <3>1, <3>3, ArgumentAppended
      <4>2. /\ fn'.next - 1 = fn.next
            /\ fn'.next - 1 - fn'.position = fn.next - (fn.position + 1)
            /\ fn'.position < fn'.next
        BY <2>1, <2>3, <3>1, <3>3
      <4>. QED
        BY <2>1, <3>1, <3>3, <4>1, <4>2
    <3>. QED
      BY <2>1, <3>2, <3>3
  <2>. HIDE DEF o
  <2>. QED
    BY <2>1, <2>2, <2>5, WithinFunction
<1>5. CASE EndFunction
  <2>1. /\ fn # NoFunction /\ fn.step = "arguments" /\ fn.next > Len(Fun.arguments)
        /\ fn' = NoFunction /\ OnlyEntry(Fun.id) /\ new = old
        /\ functionSymbols'[Fun.id].argumentCount = functionSymbols[Fun.id].argumentCount
        /\ UNCHANGED <<sessionVars, listVars, typeVars>>
    BY <1>5, EndFunctionEffect
  <2>2. pdb' = pdb /\ pc' = pc /\ todo' = todo
    BY <2>1 DEF sessionVars, listVars
  <2>3. /\ pc = "functions" /\ fn.handle \in DOMAIN pdb.functions /\ fn.next \in Nat
        /\ Fun = pdb.functions[fn.handle] /\ Len(Fun.arguments) \in Nat
        /\ Fun.id \in DOMAIN functionSymbols /\ fn.position \in Nat
    BY <2>1, FunTyped DEF TypeInv, ListInv
  <2>4. FinishedFunctions'
    <3>. SUFFICES ASSUME NEW h \in DOMAIN pdb.functions, Done(h)', Counted(pdb.functions[h])
                  PROVE  Finished(pdb.functions[h])'
      BY <2>2 DEF FinishedFunctions, Counted
    <3>0. PICK f : f = pdb.functions[h]
      OBVIOUS
    <3>1. /\ Finished(f) /\ f.id \in DOMAIN functionSymbols'
          /\ functionSymbols'[f.id].argumentCount = functionSymbols[f.id].argumentCount
          /\ functionSymbols'[f.id].argumentTypeIds = functionSymbols[f.id].argumentTypeIds
      <4>1. CASE h = fn.handle
        <5>0. Counted(Fun)
          BY <2>3, <4>1
        <5>1. /\ fn.next - 1 <= Len(Fun.arguments) /\ fn.position < fn.next
              /\ ArgumentsUpTo(Fun, old, fn.next - 1, fn.next - 1 - fn.position)
              /\ functionSymbols[Fun.id].argumentCount = Fun.count
          BY <2>1, <5>0 DEF ArgumentInv, CurrentFunction
        <5>2. fn.next - 1 = Len(Fun.arguments) /\ fn.next - 1 - fn.position \in Nat
          BY <2>1, <2>3, <5>1
        <5>3. Finished(Fun)
          BY <2>3, <5>1, <5>2 DEF Finished
        <5>. QED
          BY <2>1, <2>3, <3>0, <4>1, <5>3 DEF OnlyEntry
      <4>2. CASE h # fn.handle
        <5>1. Done(h)
          BY <2>2, <4>2 DEF Done
        <5>2. Finished(f)
          BY <2>3, <3>0, <5>1 DEF ArgumentInv, FinishedFunctions
        <5>3. f.id # Fun.id
          BY <2>3, <3>0, <4>2, IdsDiffer
        <5>. QED
          BY <2>1, <5>2, <5>3 DEF OnlyEntry, Finished
      <4>. QED
        BY <4>1, <4>2
    <3>2. Finished(f)'
      BY <2>2, <3>1, FinishedStays
    <3>. QED
      BY <2>2, <3>0, <3>2
  <2>. QED
    BY <2>1, <2>2, <2>3, <2>4 DEF ArgumentInv, CurrentFunction, OnlyEntry
<1>. QED
  BY <1>1, <1>2, <1>3, <1>4, <1>5 DEF FunctionStep

(* Every step of CreateUsymFromFile keeps what the entries hold. *)
LEMMA NextArguments == TypeInv /\ ArgumentInv /\ [Next]_vars => ArgumentInv'
<1>. SUFFICES ASSUME TypeInv, ArgumentInv, [Next]_vars
              PROVE  ArgumentInv'
  OBVIOUS
<1>1. ASSUME NEW p \in Pdbs, NEW failing \in Failures, InitializeDia(p, failing)
      PROVE  ArgumentInv'
  <2>1. /\ pc = "idle" /\ functionSymbols' = EmptyMap /\ fn' = fn
        /\ pc' \in {"header", "catch"}
    BY <1>1 DEF InitializeDia
  <2>2. fn = NoFunction
    BY <2>1 DEF TypeInv, ListInv
  <2>. QED
    BY <2>1, <2>2 DEF ArgumentInv, CurrentFunction, Built
<1>2. CASE Throw
  <2>1. fn' = NoFunction /\ pc' = "catch"
    BY <1>2 DEF Throw
  <2>. QED
    BY <2>1 DEF ArgumentInv, CurrentFunction, Built
<1>3. CASE BuildHeader
  BY <1>3, ArgumentsKept DEF BuildHeader, functionVars, Built
<1>4. CASE BeginList
  <2>1. CASE list < Len(TypeLists)
    <3>1. /\ pc = "types" /\ pc' = pc /\ functionSymbols' = functionSymbols /\ fn' = fn
      BY <1>4, <2>1 DEF BeginList, functionVars
    <3>2. fn = NoFunction
      BY <3>1 DEF TypeInv, ListInv
    <3>. QED
      BY <3>1, <3>2 DEF ArgumentInv, CurrentFunction, Built
  <2>2. CASE ~(list < Len(TypeLists))
    <3>1. /\ pc = "types" /\ pc' = "functions" /\ todo' = DOMAIN pdb.functions
          /\ pdb' = pdb /\ functionSymbols' = functionSymbols /\ fn' = fn
      BY <1>4, <2>2 DEF BeginList, functionVars, sessionVars
    <3>2. fn = NoFunction
      BY <3>1 DEF TypeInv, ListInv
    <3>3. DOMAIN functionSymbols' = {}
      BY <3>1 DEF ArgumentInv, EmptyMap
    <3>4. FinishedFunctions'
      BY <3>1 DEF FinishedFunctions, Done
    <3>. QED
      BY <3>1, <3>2, <3>3, <3>4 DEF ArgumentInv, CurrentFunction
  <2>. QED
    BY <2>1, <2>2
<1>5. ASSUME NEW o \in DOMAIN pdb.symbols, BuildTypeList(o)
      PROVE  ArgumentInv'
  <2>1. /\ pc = "types" /\ pc' = pc /\ functionSymbols' = functionSymbols /\ fn' = fn
    BY <1>5 DEF BuildTypeList, functionVars
  <2>2. fn = NoFunction
    BY <2>1 DEF TypeInv, ListInv
  <2>. QED
    BY <2>1, <2>2 DEF ArgumentInv, CurrentFunction, Built
<1>6. CASE CreateStep
  <2>1. TypeStep
    BY <1>6, CreateStepKeeps
  <2>. QED
    BY <2>1, ArgumentsKept DEF TypeStep, sessionVars, listVars, functionVars, Built
<1>7. CASE FunctionStep
  BY <1>7, FunctionStepArguments
<1>8. CASE ReturnUsym
  BY <1>8, ArgumentsKept DEF ReturnUsym, functionVars
<1>9. CASE Catch
  BY <1>9, ArgumentsKept DEF Catch, functionVars, Built
<1>10. CASE UNCHANGED vars
  BY <1>10, ArgumentsKept DEF vars, sessionVars, listVars, functionVars, Built
<1>. QED
  BY <1>1, <1>2, <1>3, <1>4, <1>5, <1>6, <1>7, <1>8, <1>9, <1>10 DEF Next, BuildStep

(* Every function of a USYM that is handed out has the arguments of its PDB
   record: the this pointer and the argument list behind the leading stubs, in
   order and each once, although other functions, types created on demand and
   earlier calls come in between (BuildFunctionList). *)
THEOREM ArgumentsAlwaysFaithful == Spec => []ArgumentsFaithful
<1>1. Init => ArgumentInv
  BY DEF Init, ArgumentInv, CurrentFunction, Built
<1>. QED
  BY <1>1, NextArguments, TypeInvHolds, ArgumentsSuffice, PTL DEF Spec

-----------------------------------------------------------------------------
(* Faithful types: the invariant *)

(* TypesFaithful for one entry. *)
Faithful(o, symbol) ==
  LET name == IF Sym(o).tag = "SymTagPointerType" THEN symbol.name
              ELSE DescribedType(o).name
  IN  symbol = [DescribedType(o) EXCEPT !.name = name]

(* Members i and i + 1 share an offset. *)
SamePlace(members, i) ==
  i \in 1..(Len(members) - 1) /\ members[i].offset = members[i + 1].offset

UnionsUpTo(members, n) == Cardinality({k \in 1..n : StartsUnion(members, k)})

(* The field of member i once the pairs before n have been looked at. *)
FieldBefore(members, i, n) ==
  LET marked == \/ i - 1 < n /\ SamePlace(members, i - 1)
                \/ i < n /\ SamePlace(members, i)
  IN  [Field(members[i]) EXCEPT
         !.isAnonymousUnion = marked,
         !.unionId = IF marked THEN UnionsUpTo(members, i) - 1 ELSE 0]

FieldsBefore(members, n) == [i \in 1..Len(members) |-> FieldBefore(members, i, n)]

(* What a call in progress holds: exactly the fields of the members it has
   passed, and then the unions it has passed, counted. *)
FrameFaithful(f) ==
  LET s == Sym(f.obj)
      members == s.members
  IN  /\ f.step \in {"create", "members", "field"} => f.unionId = 0 /\ ~f.wasLastUnion
      /\ f.step = "create" => f.next = 1
      /\ f.step = "source" => ~IsFunctionType(s.type)
      /\ f.step \in {"members", "field"} =>
           /\ f.next \in 1..(Len(members) + 1)
           /\ f.symbol = [DescribedType(f.obj) EXCEPT
                !.fields = [i \in 1..(f.next - 1) |-> Field(members[i])]]
      /\ f.step = "unions" =>
           /\ s.tag = "SymTagUDT" /\ s.kind # "UdtUnion"
           /\ f.symbol = [DescribedType(f.obj) EXCEPT
                !.fields = FieldsBefore(members, f.next)]
           /\ f.wasLastUnion = SamePlace(members, f.next - 1)
           /\ f.unionId + (IF f.wasLastUnion THEN 1 ELSE 0) = UnionsUpTo(members, f.next - 1)

(* Only what can be reached is entered, an entry is what the PDB describes
   unless a call for it is in progress, and no call fails. *)
EntriesFaithful ==
  /\ DOMAIN typeSymbols \subseteq Reachable
  /\ \A t \in DOMAIN typeSymbols :
       Faithful(t, typeSymbols[t]) \/ \E i \in 1..Len(stack) : stack[i].obj = t
  /\ \A i \in 1..Len(stack) : FrameFaithful(stack[i])
  /\ (stack # << >> /\ Top.step = "field") => ret

(* The symbols the lists before n, and the first n, deliver. *)
Listed(n) == {o \in pdb.global : \E i \in 1..n : TypeLists[i] = Sym(o).tag}

Entered == DOMAIN typeSymbols \cup {0}

(* The types the function in progress has asked for so far are entered. *)
CurrentTypes ==
  fn # NoFunction =>
    /\ Fun.hasType
    /\ fn.step \in {"return", "this"} =>
         /\ functionSymbols[Fun.id].argumentCount = 0
         /\ fn.next = 1 /\ fn.position = 0
    /\ fn.step = "return" => functionSymbols[Fun.id].returnTypeId = 0
    /\ fn.step # "return" =>
         /\ Fun.returnType \in Entered
         /\ functionSymbols[Fun.id].returnTypeId = Fun.returnType
    /\ fn.step = "arguments" =>
         IF Counted(Fun)
         THEN /\ Fun.this \in Entered
              /\ \A i \in KeptArguments(Fun) :
                   i < fn.next => Fun.arguments[i] \in Entered
              /\ fn.position = 0 <=>
                   \A j \in 1..Len(Fun.arguments) :
                     j < fn.next => IsNoType(Fun.arguments[j])
         ELSE fn.next > Len(Fun.arguments)

(* All types a function that is done refers to are entered. *)
FinishedTypes ==
  \A h \in DOMAIN pdb.functions :
    LET f == pdb.functions[h]
    IN  (f.hasType /\ Done(h)) =>
          /\ FunctionTypes(f) \subseteq Entered
          /\ f.id \in DOMAIN functionSymbols
          /\ functionSymbols[f.id].returnTypeId = f.returnType

(* What the lists have delivered so far is entered, or being entered. *)
RootsEntered ==
  /\ pc = "header" => list = 0
  /\ pc = "types" => /\ Listed(list) \subseteq Entered \cup todo
                     /\ todo \subseteq Listed(list)
  /\ (pc = "functions" \/ Built) =>
       Listed(Len(TypeLists)) \subseteq Entered /\ FinishedTypes
  /\ CurrentTypes

FaithfulInv == CleanPdb => EntriesFaithful /\ RootsEntered

-----------------------------------------------------------------------------
(* Faithful types: what can be reached *)

(* A symbol refers to symbols of the PDB. *)
LEMMA SuccessorsTyped ==
  ASSUME IsPdb(Names, pdb), NEW o \in DOMAIN pdb.symbols
  PROVE  Successors(o) \subseteq DOMAIN pdb.symbols
<1>1. Sym(o).type \in DOMAIN pdb.symbols \cup {0} /\ DOMAIN Sym(o).members = 1..Len(Sym(o).members)
  BY SymbolAnswers, LenProperties
<1>2. \A i \in DOMAIN Sym(o).members : Sym(o).members[i].type \in DOMAIN pdb.symbols \cup {0}
  BY <1>1, MemberAnswers
<1>. QED
  BY <1>1, <1>2 DEF Successors

(* So does a function. *)
LEMMA FunctionTypesTyped ==
  ASSUME IsPdb(Names, pdb), NEW h \in DOMAIN pdb.functions
  PROVE  FunctionTypes(pdb.functions[h]) \subseteq DOMAIN pdb.symbols
<1>. PICK f : f = pdb.functions[h]
  OBVIOUS
<1>1. /\ f.returnType \in DOMAIN pdb.symbols \cup {0} /\ f.this \in DOMAIN pdb.symbols \cup {0}
      /\ f.arguments \in Seq(DOMAIN pdb.symbols)
  BY FunctionAnswers
<1>2. \A i \in DOMAIN f.arguments : f.arguments[i] \in DOMAIN pdb.symbols
  BY <1>1
<1>. QED
  BY <1>1, <1>2 DEF FunctionTypes, KeptArguments

(* The roots are symbols of the PDB. *)
LEMMA RootsTyped ==
  ASSUME IsPdb(Names, pdb)
  PROVE  Roots \subseteq DOMAIN pdb.symbols
<1>1. pdb.global \subseteq DOMAIN pdb.symbols
  BY DEF IsPdb
<1>. QED
  BY <1>1, FunctionTypesTyped DEF Roots

(* A set that the roots are in and no reference leads out of. *)
Closed(S) == Roots \subseteq S /\ \A o \in S : Successors(o) \subseteq S

(* What can be reached is the least such set. *)
LEMMA ReachableIsLeast ==
  ASSUME IsPdb(Names, pdb)
  PROVE  /\ Reachable \subseteq DOMAIN pdb.symbols
         /\ Closed(Reachable)
         /\ \A T \in SUBSET Reachable : Closed(T) => T = Reachable
<1>. DEFINE D == DOMAIN pdb.symbols
            Least(S) == Closed(S) /\ \A T \in SUBSET S : Closed(T) => T = S
            common == {o \in D : \A S \in SUBSET D : Closed(S) => o \in S}
<1>1. Closed(common)
  <2>1. Roots \subseteq common
    BY RootsTyped DEF Closed
  <2>2. ASSUME NEW o \in common PROVE Successors(o) \subseteq common
    BY SuccessorsTyped DEF Closed
  <2>. QED
    BY <2>1, <2>2 DEF Closed
<1>2. ASSUME NEW T \in SUBSET common, Closed(T) PROVE T = common
  BY <1>2
<1>3. \E S \in SUBSET D : Least(S)
  <2>1. Least(common) /\ common \in SUBSET D
    BY <1>1, <1>2
  <2>. HIDE DEF common
  <2>. QED
    BY <2>1
<1>4. Reachable = CHOOSE S \in SUBSET D : Least(S)
  BY Zenon DEF Reachable, Closed
<1>. HIDE DEF Least
<1>5. Reachable \in SUBSET D /\ Least(Reachable)
  BY <1>3, <1>4
<1>. USE DEF Least
<1>. QED
  BY <1>5

(* All this only looks at the PDB. *)
LEMMA ReachableOfThePdb ==
  ASSUME pdb' = pdb
  PROVE  /\ Reachable' = Reachable /\ CleanPdb' = CleanPdb
         /\ \A o : DescribedType(o)' = DescribedType(o)
         /\ \A o : Creatable(o)' = Creatable(o)
         /\ \A n : Listed(n)' = Listed(n)
         /\ \A f : FunctionTypes(f)' = FunctionTypes(f)
<1>1. /\ \A o : Successors(o)' = Successors(o)
      /\ \A f : FunctionTypes(f)' = FunctionTypes(f)
  BY DEF Successors, FunctionTypes, KeptArguments, IsNoType, IsFunctionType, Sym
<1>2. Roots' = Roots
  BY <1>1 DEF Roots, Sym
<1>3. Reachable' = Reachable
  BY <1>1, <1>2 DEF Reachable
<1>4. \A o : Creatable(o)' = Creatable(o)
  BY DEF Creatable, IsFunctionType, Sym
<1>5. CleanPdb' = CleanPdb
  BY <1>3, <1>4 DEF CleanPdb
<1>6. \A o : DescribedType(o)' = DescribedType(o)
  BY DEF DescribedType, DescribedField, IsFunctionType, Sym
<1>7. \A n : Listed(n)' = Listed(n)
  BY DEF Listed, Sym
<1>. QED
  BY <1>1, <1>3, <1>4, <1>5, <1>6, <1>7

-----------------------------------------------------------------------------
(* Faithful types: the numbers of unions *)

(* Unions are counted where they start. *)
LEMMA UnionsCounted ==
  ASSUME NEW members, NEW n \in Nat
  PROVE  /\ UnionsUpTo(members, n) \in Nat
         /\ UnionsUpTo(members, n + 1) = IF StartsUnion(members, n + 1)
                                         THEN UnionsUpTo(members, n) + 1
                                         ELSE UnionsUpTo(members, n)
<1>. DEFINE starts(k) == {j \in 1..k : StartsUnion(members, j)}
<1>1. IsFiniteSet(1..n)
  BY FS_Interval
<1>2. IsFiniteSet(starts(n)) /\ Cardinality(starts(n)) \in Nat
  BY <1>1, FS_Subset, FS_CardinalityType
<1>3. 1..(n + 1) = 1..n \cup {n + 1} /\ n + 1 \notin 1..n
  OBVIOUS
<1>4. CASE StartsUnion(members, n + 1)
  <2>1. starts(n + 1) = starts(n) \cup {n + 1} /\ n + 1 \notin starts(n)
    BY <1>3, <1>4
  <2>. HIDE DEF starts
  <2>2. Cardinality(starts(n + 1)) = Cardinality(starts(n)) + 1
    BY <1>2, <2>1, FS_AddElement
  <2>. QED
    BY <1>2, <1>4, <2>2 DEF UnionsUpTo, starts
<1>5. CASE ~StartsUnion(members, n + 1)
  <2>1. starts(n + 1) = starts(n)
    BY <1>3, <1>5
  <2>. QED
    BY <1>2, <1>5, <2>1 DEF UnionsUpTo
<1>. QED
  BY <1>4, <1>5, <1>2 DEF UnionsUpTo

(* There is no union before the first member. *)
LEMMA NoUnionsYet ==
  ASSUME NEW members
  PROVE  UnionsUpTo(members, 0) = 0
<1>1. {k \in 1..0 : StartsUnion(members, k)} = {}
  OBVIOUS
<1>. QED
  BY <1>1, FS_EmptySet DEF UnionsUpTo

(* A union starts at a pair that no pair comes right before. *)
LEMMA UnionStarts ==
  ASSUME NEW members, Len(members) \in Nat, NEW n \in Nat \ {0}
  PROVE  StartsUnion(members, n) <=> SamePlace(members, n) /\ ~SamePlace(members, n - 1)
  BY DEF StartsUnion, SamePlace

(* Looking at a pair of one offset marks its fields. *)
LEMMA PairNumbered ==
  ASSUME NEW members, Len(members) \in Nat, NEW n \in 1..(Len(members) - 1),
         SamePlace(members, n)
  PROVE  MarkUnion(FieldsBefore(members, n), n, UnionsUpTo(members, n) - 1)
           = FieldsBefore(members, n + 1)
<1>. DEFINE u == UnionsUpTo(members, n) - 1
            old == FieldsBefore(members, n)
<1>1. ASSUME NEW i \in 1..Len(members), i \notin {n, n + 1}
      PROVE  FieldBefore(members, i, n) = FieldBefore(members, i, n + 1)
  <2>1. /\ (i - 1 < n) <=> (i - 1 < n + 1)
        /\ (i < n) <=> (i < n + 1)
    BY <1>1
  <2>. QED
    BY <2>1, Zenon DEF FieldBefore
<1>2. UnionsUpTo(members, n + 1) = UnionsUpTo(members, n)
  <2>1. ~StartsUnion(members, n + 1)
    BY UnionStarts
  <2>. QED
    BY <2>1, UnionsCounted
<1>3. ASSUME NEW i \in {n, n + 1}
      PROVE  [FieldBefore(members, i, n) EXCEPT !.isAnonymousUnion = TRUE, !.unionId = u]
               = FieldBefore(members, i, n + 1)
  <2>1. UnionsUpTo(members, i) - 1 = u
    BY <1>2
  <2>2. \/ i - 1 < n + 1 /\ SamePlace(members, i - 1)
        \/ i < n + 1 /\ SamePlace(members, i)
    OBVIOUS
  <2>3. FieldBefore(members, i, n + 1)
          = [Field(members[i]) EXCEPT !.isAnonymousUnion = TRUE, !.unionId = u]
    BY <2>1, <2>2 DEF FieldBefore
  <2>. HIDE DEF u
  <2>4. \E a, b : FieldBefore(members, i, n)
          = [Field(members[i]) EXCEPT !.isAnonymousUnion = a, !.unionId = b]
    BY Zenon DEF FieldBefore
  <2>. QED
    BY <2>3, <2>4 DEF Field
<1>. HIDE DEF u
<1>4. /\ DOMAIN old = 1..Len(members)
      /\ \A i \in 1..Len(members) : old[i] = FieldBefore(members, i, n)
  BY DEF FieldsBefore
<1>. HIDE DEF old
<1>5. MarkUnion(old, n, u) = [i \in 1..Len(members) |->
        IF i \in {n, n + 1}
        THEN [FieldBefore(members, i, n) EXCEPT !.isAnonymousUnion = TRUE, !.unionId = u]
        ELSE FieldBefore(members, i, n)]
  BY <1>4 DEF MarkUnion
<1>6. MarkUnion(old, n, u) = FieldsBefore(members, n + 1)
  <2>1. \A i \in 1..Len(members) :
          (IF i \in {n, n + 1}
           THEN [FieldBefore(members, i, n) EXCEPT !.isAnonymousUnion = TRUE, !.unionId = u]
           ELSE FieldBefore(members, i, n)) = FieldBefore(members, i, n + 1)
    BY <1>1, <1>3
  <2>. QED
    BY <1>5, <2>1 DEF FieldsBefore
<1>. QED
  BY <1>6 DEF u, old

(* Looking at a pair of two offsets changes nothing. *)
LEMMA PairLeft ==
  ASSUME NEW members, Len(members) \in Nat, NEW n \in 1..(Len(members) - 1),
         ~SamePlace(members, n)
  PROVE  FieldsBefore(members, n + 1) = FieldsBefore(members, n)
<1>1. ASSUME NEW i \in 1..Len(members)
      PROVE  FieldBefore(members, i, n + 1) = FieldBefore(members, i, n)
  <2>1. /\ (i - 1 < n + 1 /\ SamePlace(members, i - 1)) <=> (i - 1 < n /\ SamePlace(members, i - 1))
        /\ (i < n + 1 /\ SamePlace(members, i)) <=> (i < n /\ SamePlace(members, i))
    OBVIOUS
  <2>. QED
    BY <2>1, Zenon DEF FieldBefore
<1>. QED
  BY <1>1 DEF FieldsBefore

(* Before the first pair nothing is marked. *)
LEMMA NothingMarked ==
  ASSUME NEW members, Len(members) \in Nat
  PROVE  FieldsBefore(members, 1) = [i \in 1..Len(members) |-> Field(members[i])]
<1>1. ASSUME NEW i \in 1..Len(members)
      PROVE  FieldBefore(members, i, 1) = Field(members[i])
  <2>1. ~(\/ i - 1 < 1 /\ SamePlace(members, i - 1)
          \/ i < 1 /\ SamePlace(members, i))
    BY DEF SamePlace
  <2>2. FieldBefore(members, i, 1)
          = [Field(members[i]) EXCEPT !.isAnonymousUnion = FALSE, !.unionId = 0]
    BY <2>1 DEF FieldBefore
  <2>. QED
    BY <2>2 DEF Field
<1>. QED
  BY <1>1 DEF FieldsBefore

(* Behind the last pair all of them are. *)
LEMMA AllMarked ==
  ASSUME NEW s, DOMAIN s.members = 1..Len(s.members), Len(s.members) \in Nat,
         s.tag = "SymTagUDT", s.kind # "UdtUnion",
         NEW n \in Nat \ {0}, n >= Len(s.members)
  PROVE  FieldsBefore(s.members, n) = [i \in DOMAIN s.members |-> DescribedField(s, i)]
<1>1. ASSUME NEW i \in 1..Len(s.members)
      PROVE  FieldBefore(s.members, i, n) = DescribedField(s, i)
  <2>1. InUnion(s.members, i) <=> (\/ i - 1 < n /\ SamePlace(s.members, i - 1)
                                   \/ i < n /\ SamePlace(s.members, i))
    BY DEF InUnion, SamePlace
  <2>2. UnionsUpTo(s.members, i) = Cardinality({j \in 1..i : StartsUnion(s.members, j)})
    BY DEF UnionsUpTo
  <2>. QED
    BY <2>1, <2>2, Zenon DEF FieldBefore, DescribedField
<1>. QED
  BY <1>1 DEF FieldsBefore

-----------------------------------------------------------------------------
(* Faithful types: what the creators fill in *)

(* The description of a symbol without members. *)
LEMMA PlainDescribed ==
  ASSUME IsPdb(Names, pdb), NEW o \in DOMAIN pdb.symbols,
         Sym(o).tag \in {"SymTagBaseType", "SymTagPointerType", "SymTagArrayType"}
  PROVE  DescribedType(o) =
           [id |-> o,
            name |-> IF Sym(o).tag = "SymTagBaseType"
                     THEN GetBaseName(Sym(o).kind, Sym(o).length) ELSE Sym(o).name,
            type |-> IF Sym(o).tag = "SymTagBaseType" THEN "kBase"
                     ELSE IF Sym(o).tag = "SymTagPointerType" THEN "kPointer" ELSE "kArray",
            length |-> Sym(o).length, fieldCount |-> 0, fields |-> << >>,
            typedefSource |-> 0]
<1>. PICK s : s = Sym(o)
  OBVIOUS
<1>1. s.members = << >>
  BY SymbolAnswers DEF AnswersItsTag
<1>2. Len(s.members) = 0 /\ DOMAIN s.members = {}
  BY <1>1
<1>3. [i \in DOMAIN s.members |-> DescribedField(s, i)] = << >>
  BY <1>2
<1>. PICK fields : fields = [i \in DOMAIN s.members |-> DescribedField(s, i)]
  OBVIOUS
<1>. QED
  BY <1>2, <1>3 DEF DescribedType, IsFunctionType

(* The description of a typedef. *)
LEMMA TypedefDescribed ==
  ASSUME IsPdb(Names, pdb), NEW o \in DOMAIN pdb.symbols, Sym(o).tag = "SymTagTypedef"
  PROVE  DescribedType(o) =
           [id |-> o, name |-> Sym(o).name, type |-> "kTypedef",
            length |-> IF IsFunctionType(Sym(o).type) THEN 0 ELSE Sym(Sym(o).type).length,
            fieldCount |-> 0, fields |-> << >>,
            typedefSource |-> IF IsFunctionType(Sym(o).type) THEN 0 ELSE Sym(o).type]
<1>. PICK s : s = Sym(o)
  OBVIOUS
<1>1. s.members = << >>
  BY SymbolAnswers DEF AnswersItsTag
<1>2. Len(s.members) = 0 /\ DOMAIN s.members = {}
  BY <1>1
<1>3. [i \in DOMAIN s.members |-> DescribedField(s, i)] = << >>
  BY <1>2
<1>. QED
  BY <1>2, <1>3 DEF DescribedType

(* The description of a type with members. *)
LEMMA MembersDescribed ==
  ASSUME NEW o, Sym(o).tag \in {"SymTagUDT", "SymTagEnum"}
  PROVE  DescribedType(o) =
           [id |-> o, name |-> Sym(o).name,
            type |-> IF Sym(o).tag = "SymTagUDT" THEN UdtType[Sym(o).kind] ELSE "kEnum",
            length |-> Sym(o).length, fieldCount |-> Len(Sym(o).members),
            fields |-> [i \in DOMAIN Sym(o).members |-> DescribedField(Sym(o), i)],
            typedefSource |-> 0]
<1>. PICK s : s = Sym(o)
  OBVIOUS
<1>. PICK fields : fields = [i \in DOMAIN s.members |-> DescribedField(s, i)]
  OBVIOUS
<1>. QED
  BY DEF DescribedType, IsFunctionType

-----------------------------------------------------------------------------
(* Faithful types: the ways the calls change *)

(* What is said of symbols and calls only looks at the PDB. *)
LEMMA FaithfulOfThePdb ==
  ASSUME pdb' = pdb
  PROVE  /\ \A o, symbol : Faithful(o, symbol) => Faithful(o, symbol)'
         /\ \A f : FrameFaithful(f) => FrameFaithful(f)'
<1>1. /\ \A o : DescribedType(o)' = DescribedType(o)
      /\ \A o : Sym(o)' = Sym(o)
      /\ \A o : IsFunctionType(o)' = IsFunctionType(o)
  BY ReachableOfThePdb DEF Sym, IsFunctionType
<1>2. ASSUME NEW o, NEW symbol, Faithful(o, symbol) PROVE Faithful(o, symbol)'
  <2>1. DescribedType(o)' = DescribedType(o) /\ Sym(o)' = Sym(o)
    BY <1>1, Zenon
  <2>. QED
    BY <1>2, <2>1, Zenon DEF Faithful
<1>3. ASSUME NEW f, FrameFaithful(f) PROVE FrameFaithful(f)'
  <2>1. PICK o : o = f.obj
    OBVIOUS
  <2>2. PICK s : s = Sym(o) /\ s = Sym(o)'
    BY <1>1, Zenon
  <2>3. PICK d : d = DescribedType(o) /\ d = DescribedType(o)'
    BY <1>1, Zenon
  <2>4. IsFunctionType(s.type)' = IsFunctionType(s.type)
    BY <1>1, Zenon
  <2>. QED
    BY <1>3, <2>1, <2>2, <2>3, <2>4, Zenon DEF FrameFaithful
<1>. QED
  BY <1>2, <1>3

(* All that is entered can be created, and so can all it refers to. *)
LEMMA EnteredCreatable ==
  ASSUME TypeInv, CleanPdb, EntriesFaithful, NEW o \in DOMAIN typeSymbols
  PROVE  /\ Creatable(o)
         /\ \A q \in Successors(o) : q \in Reachable /\ Creatable(q)
<1>1. IsPdb(Names, pdb) /\ o \in Reachable
  BY DEF TypeInv, SessionInv, EntriesFaithful
<1>2. Successors(o) \subseteq Reachable
  BY <1>1, ReachableIsLeast DEF Closed
<1>. QED
  BY <1>1, <1>2 DEF CleanPdb

(* CreateTypeSymbol returns what the PDB describes. *)
LEMMA ReturnFaithful ==
  ASSUME TypeInv, EntriesFaithful, stack # << >>, TypeStep,
         NEW symbol, Return(symbol), Faithful(Top.obj, symbol)
  PROVE  EntriesFaithful'
<1>1. /\ Len(stack) \in Nat \ {0} /\ Len(stack') = Len(stack) - 1
      /\ \A i \in 1..(Len(stack) - 1) : stack'[i] = stack[i]
      /\ Top = stack[Len(stack)]
  BY Popped DEF TypeInv, StackInv, Below, Return, Top
<1>2. /\ DOMAIN typeSymbols' = DOMAIN typeSymbols
      /\ \A t \in DOMAIN typeSymbols :
           typeSymbols'[t] = IF t = Top.obj THEN symbol ELSE typeSymbols[t]
  BY DEF Return
<1>3. pdb' = pdb
  BY DEF TypeStep, sessionVars
<1>4. ASSUME NEW t \in DOMAIN typeSymbols'
      PROVE  Faithful(t, typeSymbols'[t]) \/ \E i \in 1..Len(stack') : stack'[i].obj = t
  <2>1. CASE t = Top.obj
    BY <1>2, <2>1
  <2>2. CASE t # Top.obj
    <3>1. typeSymbols'[t] = typeSymbols[t]
      BY <1>2, <2>2
    <3>2. CASE \E i \in 1..Len(stack) : stack[i].obj = t
      <4>1. PICK i \in 1..Len(stack) : stack[i].obj = t
        BY <3>2
      <4>2. i \in 1..(Len(stack) - 1)
        BY <1>1, <2>2, <4>1
      <4>. QED
        BY <1>1, <4>1, <4>2
    <3>. QED
      BY <1>2, <3>1, <3>2 DEF EntriesFaithful
  <2>. QED
    BY <2>1, <2>2
<1>5. \A i \in 1..Len(stack') : FrameFaithful(stack'[i])
  BY <1>1 DEF EntriesFaithful
<1>6. DOMAIN typeSymbols' \subseteq Reachable' /\ ret'
  BY <1>2, <1>3, ReachableOfThePdb DEF EntriesFaithful, Return
<1>. QED
  BY <1>3, <1>4, <1>5, <1>6, FaithfulOfThePdb DEF EntriesFaithful

(* The call on top goes on. *)
LEMMA ContinueFaithful ==
  ASSUME TypeInv, EntriesFaithful, stack # << >>, TypeStep,
         NEW frame \in Frames, Continue(frame), FrameFaithful(frame),
         frame.obj = Top.obj, frame.step # "field"
  PROVE  EntriesFaithful'
<1>1. /\ Len(stack) \in Nat \ {0} /\ Len(stack') = Len(stack)
      /\ stack'[Len(stack)] = frame
      /\ \A i \in 1..(Len(stack) - 1) : stack'[i] = stack[i]
      /\ typeSymbols' = typeSymbols
      /\ Top = stack[Len(stack)]
  BY Popped, Replaced DEF TypeInv, StackInv, Below, Continue, Top
<1>2. pdb' = pdb
  BY DEF TypeStep, sessionVars
<1>3. \A i \in 1..Len(stack) : stack'[i].obj = stack[i].obj
  BY <1>1
<1>4. \A t \in DOMAIN typeSymbols' :
        Faithful(t, typeSymbols'[t]) \/ \E i \in 1..Len(stack') : stack'[i].obj = t
  BY <1>1, <1>3 DEF EntriesFaithful
<1>5. \A i \in 1..Len(stack') : FrameFaithful(stack'[i])
  BY <1>1 DEF EntriesFaithful
<1>6. DOMAIN typeSymbols' \subseteq Reachable' /\ Top'.step # "field"
  BY <1>1, <1>2, ReachableOfThePdb DEF EntriesFaithful, Top
<1>. QED
  BY <1>2, <1>4, <1>5, <1>6, FaithfulOfThePdb DEF EntriesFaithful

(* CreateTypeSymbol is called for a symbol that can be reached, by a list or
   by the call on top. *)
LEMMA CreateFaithful ==
  ASSUME EntriesFaithful, pdb' = pdb, NEW o \in Reachable, Creatable(o), o # 0,
         NEW S, NEW frames \in Seq(S), CreateTypeSymbol(o, frames),
         \A i \in 1..Len(frames) : FrameFaithful(frames[i]),
         \A i \in 1..Len(stack) : \E j \in 1..Len(frames) : frames[j].obj = stack[i].obj
  PROVE  EntriesFaithful' /\ o \in DOMAIN typeSymbols'
<1>1. /\ DOMAIN typeSymbols' = DOMAIN typeSymbols \cup {o}
      /\ \A t \in DOMAIN typeSymbols : typeSymbols'[t] = typeSymbols[t]
      /\ stack' = Append(frames, Frame(o))
  BY DEF CreateTypeSymbol, Creatable, Put
<1>2. /\ Len(stack') = Len(frames) + 1 /\ Len(frames) \in Nat
      /\ stack'[Len(frames) + 1] = Frame(o)
      /\ \A i \in 1..Len(frames) : stack'[i] = frames[i]
  BY <1>1, Pushed, LenProperties
<1>3. /\ Frame(o).obj = o /\ Frame(o).step = "create" /\ FrameFaithful(Frame(o))
  <2>1. PICK f : f = Frame(o)
    OBVIOUS
  <2>2. /\ f.obj = o /\ f.step = "create" /\ f.next = 1
        /\ f.unionId = 0 /\ f.wasLastUnion = FALSE
    BY <2>1 DEF Frame
  <2>3. FrameFaithful(f)
    BY <2>2 DEF FrameFaithful
  <2>. QED
    BY <2>1, <2>2, <2>3, Zenon
<1>4. \A i \in 1..Len(stack') : FrameFaithful(stack'[i])
  BY <1>2, <1>3
<1>5. ASSUME NEW t \in DOMAIN typeSymbols'
      PROVE  Faithful(t, typeSymbols'[t]) \/ \E i \in 1..Len(stack') : stack'[i].obj = t
  <2>1. CASE t = o
    BY <1>2, <1>3, <2>1
  <2>2. CASE t # o
    <3>1. t \in DOMAIN typeSymbols /\ typeSymbols'[t] = typeSymbols[t]
      BY <1>1, <2>2
    <3>2. ASSUME NEW i \in 1..Len(stack), stack[i].obj = t
          PROVE  \E j \in 1..Len(stack') : stack'[j].obj = t
      <4>1. PICK j \in 1..Len(frames) : frames[j].obj = stack[i].obj
        OBVIOUS
      <4>. QED
        BY <1>2, <3>2, <4>1
    <3>. QED
      BY <3>1, <3>2 DEF EntriesFaithful
  <2>. QED
    BY <2>1, <2>2
<1>6. DOMAIN typeSymbols' \subseteq Reachable' /\ Top'.step # "field"
  BY <1>1, <1>2, <1>3, ReachableOfThePdb DEF EntriesFaithful, Top
<1>. QED
  BY <1>1, <1>4, <1>5, <1>6, FaithfulOfThePdb DEF EntriesFaithful

(* A typedef or a field makes the call; it keeps what it has. *)
LEMMA NestedCreateFaithful ==
  ASSUME TypeInv, CleanPdb, EntriesFaithful, stack # << >>, TypeStep,
         NEW step \in {"source", "field"}, NEW o \in Successors(Top.obj),
         step = "source" => ~IsFunctionType(Sym(Top.obj).type),
         step = "field" => Top.step = "members",
         CreateTypeSymbol(o, Append(Below, [Top EXCEPT !.step = step]))
  PROVE  EntriesFaithful'
<1>. PICK frame : frame = [Top EXCEPT !.step = step]
  OBVIOUS
<1>. PICK frames : frames = Append(Below, frame)
  OBVIOUS
<1>1. /\ frame \in Frames /\ frame.obj = Top.obj /\ frame.step = step
      /\ frame.next = Top.next /\ frame.symbol = Top.symbol
      /\ frame.unionId = Top.unionId /\ frame.wasLastUnion = Top.wasLastUnion
  BY StepTyped, TopTyped DEF Frames
<1>2. /\ frames \in Seq(Frames) /\ Len(frames) = Len(stack)
      /\ frames[Len(stack)] = frame
      /\ \A i \in 1..(Len(stack) - 1) : frames[i] = stack[i]
      /\ Len(stack) \in Nat \ {0}
      /\ Top = stack[Len(stack)]
  BY <1>1, Popped, Replaced DEF TypeInv, StackInv, Below, Top
<1>3. pdb' = pdb
  BY DEF TypeStep, sessionVars
<1>4. FrameFaithful(Top)
  BY <1>2 DEF EntriesFaithful
<1>5. FrameFaithful(frame)
  BY <1>1, <1>4 DEF FrameFaithful
<1>6. \A i \in 1..Len(frames) : FrameFaithful(frames[i])
  BY <1>2, <1>5 DEF EntriesFaithful
<1>7. \A i \in 1..Len(stack) : i \in 1..Len(frames) /\ frames[i].obj = stack[i].obj
  BY <1>1, <1>2
<1>8. o \in Reachable /\ Creatable(o)
  BY TopTyped, EnteredCreatable
<1>9. o # 0
  BY <1>8, ReachableIsLeast, SymbolAnswers DEF TypeInv, SessionInv
<1>. QED
  BY <1>2, <1>3, <1>6, <1>7, <1>8, <1>9, CreateFaithful

-----------------------------------------------------------------------------
(* Faithful types: the steps of CreateTypeSymbol *)

(* One more field behind those of the members passed. *)
LEMMA FieldAppended ==
  ASSUME NEW members, NEW n \in Nat \ {0},
         [i \in 1..(n - 1) |-> Field(members[i])] \in Seq(FieldSymbols(SymbolNames)),
         Field(members[n]) \in FieldSymbols(SymbolNames)
  PROVE  Append([i \in 1..(n - 1) |-> Field(members[i])], Field(members[n]))
           = [i \in 1..n |-> Field(members[i])]
<1>. DEFINE F == FieldSymbols(SymbolNames)
            old == [i \in 1..(n - 1) |-> Field(members[i])]
            field == Field(members[n])
            new == [i \in 1..n |-> Field(members[i])]
<1>1. Len(old) = n - 1 /\ \A i \in 1..(n - 1) : old[i] = Field(members[i])
  <2>1. DOMAIN old = 1..(n - 1) /\ DOMAIN old = 1..Len(old) /\ Len(old) \in Nat
    BY LenProperties
  <2>. QED
    BY <2>1
<1>2. \A i \in 1..n : new[i] = Field(members[i])
  OBVIOUS
<1>3. new \in Seq(F) /\ Len(new) = n
  <2>1. \A i \in 1..(n - 1) : Field(members[i]) \in F
    BY <1>1, ElementOfSeq
  <2>2. \A i \in 1..n : Field(members[i]) \in F
    BY <2>1
  <2>3. new \in [1..n -> F]
    BY <2>2
  <2>. HIDE DEF new, F
  <2>. QED
    BY <2>3, LenProperties
<1>. HIDE DEF old, new, F
<1>4. /\ Append(old, field) \in Seq(F) /\ Len(Append(old, field)) = n
      /\ \A i \in 1..n : Append(old, field)[i] = Field(members[i])
  <2>1. old \in Seq(F) /\ field \in F
    BY DEF F, old
  <2>. QED
    BY <1>1, <2>1, AppendProperties
<1>5. Append(old, field) = new
  BY <1>2, <1>3, <1>4, SeqEqual
<1>. QED
  BY <1>5 DEF old, new

(* CreateFieldSymbol has made the field of the next member. *)
LEMMA PushFieldFaithful ==
  ASSUME TypeInv, EntriesFaithful, stack # << >>, TypeStep,
         Top.step \in {"members", "field"},
         Top.next \in 1..Len(Sym(Top.obj).members), PushField(Field(Member))
  PROVE  EntriesFaithful'
<1>. DEFINE members == Sym(Top.obj).members
            field == Field(Member)
            n == Top.next
<1>. PICK frame : frame = [Top EXCEPT !.step = "members", !.next = @ + 1,
                                      !.symbol.fields = Append(@, field)]
  OBVIOUS
<1>1. field \in FieldSymbols(SymbolNames) /\ field = Field(members[n])
  BY FieldTyped DEF Member
<1>. HIDE DEF field
<1>2. /\ frame \in Frames /\ frame.obj = Top.obj /\ frame.step = "members"
      /\ frame.next = n + 1
      /\ frame.symbol = [Top.symbol EXCEPT !.fields = Append(Top.symbol.fields, field)]
  BY <1>1, PushedFrame, Zenon
<1>3. Continue(frame)
  BY DEF PushField, field
<1>4. frame.unionId = Top.unionId /\ frame.wasLastUnion = Top.wasLastUnion
  BY TopTyped DEF Frames
<1>5. /\ Top.symbol \in TypeSymbols(SymbolNames)
      /\ Top.symbol.fields \in Seq(FieldSymbols(SymbolNames))
      /\ n \in Nat \ {0} /\ Top.obj \in DOMAIN pdb.symbols
      /\ Len(stack) \in 1..Len(stack) /\ Top = stack[Len(stack)]
  BY TopTyped
<1>6. FrameFaithful(Top)
  BY <1>5 DEF EntriesFaithful
<1>. DEFINE old == [i \in 1..(n - 1) |-> Field(members[i])]
            new == [i \in 1..n |-> Field(members[i])]
<1>7. /\ Top.unionId = 0 /\ ~Top.wasLastUnion
      /\ Top.symbol = [DescribedType(Top.obj) EXCEPT !.fields = old]
  BY <1>6 DEF FrameFaithful
<1>8. Top.symbol.fields = old
  BY <1>7 DEF DescribedType
<1>9. Append(old, field) = new
  <2>1. old \in Seq(FieldSymbols(SymbolNames))
    BY <1>5, <1>8, Zenon
  <2>2. field = Field(members[n]) /\ Field(members[n]) \in FieldSymbols(SymbolNames)
    BY <1>1, Zenon
  <2>. QED
    BY <1>5, <2>1, <2>2, FieldAppended, Zenon
<1>. HIDE DEF old, new
<1>10. frame.symbol = [DescribedType(Top.obj) EXCEPT !.fields = new]
  <2>1. frame.symbol = [Top.symbol EXCEPT !.fields = new]
    BY <1>2, <1>8, <1>9
  <2>. QED
    BY <1>7, <2>1
<1>11. Len(members) \in Nat
  BY <1>5, SymbolAnswers, LenProperties DEF TypeInv, SessionInv
<1>12. FrameFaithful(frame)
  <2>1. frame.next \in 1..(Len(members) + 1) /\ frame.next - 1 = n
    BY <1>2, <1>5, <1>11
  <2>2. frame.symbol = [DescribedType(frame.obj) EXCEPT
          !.fields = [i \in 1..(frame.next - 1) |-> Field(Sym(frame.obj).members[i])]]
    BY <1>2, <1>10, <2>1, Zenon DEF new
  <2>. QED
    BY <1>2, <1>4, <1>7, <2>1, <2>2 DEF FrameFaithful
<1>. QED
  BY <1>2, <1>3, <1>12, ContinueFaithful

(* CreateMembersForSymbol begins. *)
LEMMA BeginMembersFaithful ==
  ASSUME TypeInv, EntriesFaithful, stack # << >>, TypeStep, s_counter' = s_counter,
         Sym(Top.obj).tag \in {"SymTagUDT", "SymTagEnum"}, Top.step = "create",
         NEW kind \in TypeKinds, BeginMembers(kind),
         kind = IF Sym(Top.obj).tag = "SymTagUDT" THEN UdtType[Sym(Top.obj).kind] ELSE "kEnum"
  PROVE  EntriesFaithful'
<1>. DEFINE s == Sym(Top.obj)
<1>1. PICK frame \in Frames :
        /\ Continue(frame)
        /\ frame.obj = Top.obj /\ frame.step = "members" /\ frame.next = Top.next
        /\ frame.symbol = [Described(kind, s.name) EXCEPT !.fieldCount = Len(s.members)]
        /\ frame.unionId = Top.unionId /\ frame.wasLastUnion = Top.wasLastUnion
  BY BeginMembersKeeps
<1>2. FrameFaithful(Top)
  BY TopTyped DEF EntriesFaithful
<1>3. frame.next = 1 /\ frame.unionId = 0 /\ ~frame.wasLastUnion
  BY <1>1, <1>2 DEF FrameFaithful
<1>4. [i \in 1..(1 - 1) |-> Field(s.members[i])] = << >>
  OBVIOUS
<1>5. [DescribedType(Top.obj) EXCEPT !.fields = << >>]
        = [Described(kind, s.name) EXCEPT !.fieldCount = Len(s.members)]
  BY MembersDescribed DEF Described
<1>6. Len(s.members) \in Nat
  BY TopTyped, SymbolAnswers, LenProperties DEF TypeInv, SessionInv
<1>7. frame.symbol = [DescribedType(frame.obj) EXCEPT
        !.fields = [i \in 1..(frame.next - 1) |-> Field(Sym(frame.obj).members[i])]]
  <2>1. frame.symbol = [DescribedType(Top.obj) EXCEPT !.fields = << >>]
    BY <1>1, <1>5
  <2>. QED
    BY <1>1, <1>3, <1>4, <2>1
<1>8. FrameFaithful(frame)
  BY <1>1, <1>3, <1>6, <1>7 DEF FrameFaithful
<1>. QED
  BY <1>1, <1>8, ContinueFaithful

(* Which udts have no anonymous unions marked. *)
LEMMA UdtKindKept ==
  ASSUME NEW kind \in UdtKinds
  PROVE  /\ UdtType[kind] \in TypeKinds \ {"kEnum"}
         /\ UdtType[kind] = "kUnion" <=> kind = "UdtUnion"
  BY DEF UdtKinds, UdtType, TypeKinds

(* Fields that are not marked are those of a union or an enum. *)
LEMMA UnmarkedDescribed ==
  ASSUME NEW s, ~(s.tag = "SymTagUDT" /\ s.kind # "UdtUnion"),
         DOMAIN s.members = 1..Len(s.members)
  PROVE  [i \in DOMAIN s.members |-> DescribedField(s, i)]
           = [i \in 1..Len(s.members) |-> Field(s.members[i])]
<1>1. ASSUME NEW i \in 1..Len(s.members)
      PROVE  DescribedField(s, i) = Field(s.members[i])
  <2>1. ~(/\ s.tag = "SymTagUDT" /\ s.kind # "UdtUnion"
          /\ InUnion(s.members, i))
    OBVIOUS
  <2>2. DescribedField(s, i)
          = [Field(s.members[i]) EXCEPT !.isAnonymousUnion = FALSE, !.unionId = 0]
    BY <2>1 DEF DescribedField
  <2>. QED
    BY <2>2 DEF Field
<1>. QED
  BY <1>1

(* A symbol with all fields described is the description. *)
LEMMA AllFieldsDescribed ==
  ASSUME NEW o, Sym(o).tag \in {"SymTagUDT", "SymTagEnum"}, NEW fields,
         fields = [i \in DOMAIN Sym(o).members |-> DescribedField(Sym(o), i)],
         NEW symbol, symbol = [DescribedType(o) EXCEPT !.fields = fields]
  PROVE  Faithful(o, symbol)
<1>1. symbol = DescribedType(o)
  BY MembersDescribed
<1>2. DescribedType(o) = [DescribedType(o) EXCEPT !.name = DescribedType(o).name]
  BY MembersDescribed
<1>. QED
  BY <1>1, <1>2 DEF Faithful

(* An iteration of SetAnonymousUnionData. *)
LEMMA UnionStepFaithful ==
  ASSUME TypeInv, CleanPdb, EntriesFaithful, SetAnonymousUnionData
  PROVE  EntriesFaithful'
<1>. DEFINE s == Sym(Top.obj)
            members == s.members
            n == Top.next
            u == Top.unionId
            old == Top.symbol.fields
<1>1. stack # << >> /\ Top.step = "unions" /\ n < Len(old) /\ TypeStep
  BY DEF SetAnonymousUnionData, AtUnion
<1>2. /\ Top.obj \in DOMAIN pdb.symbols /\ Top.obj \in DOMAIN typeSymbols
      /\ n \in Nat \ {0} /\ u \in Nat /\ Top.wasLastUnion \in BOOLEAN
      /\ FrameFaithful(Top) /\ IsPdb(Names, pdb)
  BY <1>1, TopTyped DEF Frames, EntriesFaithful, TypeInv, SessionInv
<1>3. Len(members) \in Nat /\ DOMAIN members = 1..Len(members)
  BY <1>2, SymbolAnswers, LenProperties
<1>4. /\ s.tag = "SymTagUDT" /\ s.kind # "UdtUnion"
      /\ Top.symbol = [DescribedType(Top.obj) EXCEPT !.fields = FieldsBefore(members, n)]
      /\ Top.wasLastUnion = SamePlace(members, n - 1)
      /\ u + (IF Top.wasLastUnion THEN 1 ELSE 0) = UnionsUpTo(members, n - 1)
  BY <1>1, <1>2 DEF FrameFaithful
<1>5. old = FieldsBefore(members, n) /\ Len(old) = Len(members)
  <2>1. old = FieldsBefore(members, n)
    BY <1>4 DEF DescribedType
  <2>2. DOMAIN old = 1..Len(members)
    BY <2>1 DEF FieldsBefore
  <2>3. DOMAIN old = 1..Len(old) /\ Len(old) \in Nat
    BY <1>1, TopTyped, LenProperties
  <2>. QED
    BY <1>3, <2>1, <2>2, <2>3
<1>6. n \in 1..(Len(members) - 1)
  BY <1>1, <1>2, <1>3, <1>5
<1>7. /\ \A i \in 1..Len(members) : members[i].id # 0
      /\ \A i \in 1..Len(members) :
           old[i].id = members[i].id /\ old[i].offset = members[i].offset
  <2>1. Creatable(Top.obj)
    BY <1>2, EnteredCreatable
  <2>2. ASSUME NEW i \in 1..Len(members)
        PROVE  /\ FieldBefore(members, i, n).id = members[i].id
               /\ FieldBefore(members, i, n).offset = members[i].offset
    BY DEF FieldBefore, Field
  <2>3. \A i \in 1..Len(members) : members[i].id # 0
    BY <1>3, <2>1 DEF Creatable
  <2>. QED
    BY <1>5, <2>2, <2>3 DEF FieldsBefore
<1>. DEFINE same == members[n].offset = members[n + 1].offset
<1>8. PICK frame \in Frames :
        /\ Continue(frame)
        /\ frame.obj = Top.obj /\ frame.step = "unions" /\ frame.next = n + 1
        /\ \/ /\ same
              /\ frame.symbol = [Top.symbol EXCEPT !.fields = MarkUnion(old, n, u)]
              /\ frame.unionId = u /\ frame.wasLastUnion = TRUE
           \/ /\ ~same
              /\ frame.symbol = Top.symbol
              /\ frame.wasLastUnion = FALSE
              /\ frame.unionId = IF Top.wasLastUnion THEN u + 1 ELSE u
  <2>0. n \in 1..Len(members) /\ n + 1 \in 1..Len(members)
    BY <1>2, <1>3, <1>6
  <2>1. /\ old[n].id # 0 /\ old[n + 1].id # 0
        /\ (old[n].offset = old[n + 1].offset) <=> same
    BY <1>7, <2>0
  <2>. QED
    BY <2>1, UnionStep
<1>9. same <=> SamePlace(members, n)
  BY <1>6 DEF SamePlace
<1>10. /\ UnionsUpTo(members, n - 1) \in Nat
       /\ UnionsUpTo(members, n) = IF SamePlace(members, n) /\ ~SamePlace(members, n - 1)
                                   THEN UnionsUpTo(members, n - 1) + 1
                                   ELSE UnionsUpTo(members, n - 1)
  <2>1. n - 1 \in Nat /\ (n - 1) + 1 = n
    BY <1>2
  <2>2. /\ UnionsUpTo(members, n - 1) \in Nat
        /\ UnionsUpTo(members, n) = IF StartsUnion(members, n)
                                    THEN UnionsUpTo(members, n - 1) + 1
                                    ELSE UnionsUpTo(members, n - 1)
    BY <2>1, UnionsCounted
  <2>. QED
    BY <1>2, <1>3, <2>2, UnionStarts
<1>. HIDE DEF same
<1>11. frame.next - 1 = n
  BY <1>2, <1>8
<1>12. CASE same
  <2>1. UnionsUpTo(members, n) - 1 = u
    BY <1>2, <1>4, <1>9, <1>10, <1>12
  <2>2. MarkUnion(old, n, u) = FieldsBefore(members, n + 1)
    BY <1>3, <1>5, <1>6, <1>9, <1>12, <2>1, PairNumbered
  <2>3. frame.symbol = [DescribedType(Top.obj) EXCEPT !.fields = FieldsBefore(members, n + 1)]
    BY <1>4, <1>8, <1>12, <2>2
  <2>4. /\ frame.wasLastUnion = SamePlace(members, frame.next - 1)
        /\ frame.unionId + (IF frame.wasLastUnion THEN 1 ELSE 0)
             = UnionsUpTo(members, frame.next - 1)
    <3>1. frame.wasLastUnion = TRUE /\ SamePlace(members, n) = TRUE
      BY <1>8, <1>9, <1>12 DEF SamePlace
    <3>2. frame.unionId + (IF frame.wasLastUnion THEN 1 ELSE 0) = UnionsUpTo(members, n)
      BY <1>2, <1>4, <1>8, <1>10, <1>12, <2>1, <3>1
    <3>. QED
      BY <1>11, <3>1, <3>2
  <2>5. FrameFaithful(frame)
    BY <1>4, <1>8, <2>3, <2>4 DEF FrameFaithful
  <2>. QED
    BY <1>1, <1>8, <2>5, ContinueFaithful
<1>13. CASE ~same
  <2>1. FieldsBefore(members, n + 1) = FieldsBefore(members, n)
    BY <1>3, <1>6, <1>9, <1>13, PairLeft
  <2>2. frame.symbol = [DescribedType(Top.obj) EXCEPT !.fields = FieldsBefore(members, n + 1)]
    BY <1>4, <1>8, <1>13, <2>1
  <2>3. /\ frame.wasLastUnion = SamePlace(members, frame.next - 1)
        /\ frame.unionId + (IF frame.wasLastUnion THEN 1 ELSE 0)
             = UnionsUpTo(members, frame.next - 1)
    <3>1. frame.wasLastUnion = FALSE /\ SamePlace(members, n) = FALSE
      BY <1>8, <1>9, <1>13 DEF SamePlace
    <3>2. frame.unionId + (IF frame.wasLastUnion THEN 1 ELSE 0) = UnionsUpTo(members, n)
      BY <1>2, <1>4, <1>8, <1>10, <1>13, <3>1
    <3>. QED
      BY <1>11, <3>1, <3>2
  <2>4. FrameFaithful(frame)
    BY <1>4, <1>8, <2>2, <2>3 DEF FrameFaithful
  <2>. QED
    BY <1>1, <1>8, <2>4, ContinueFaithful
<1>. QED
  BY <1>12, <1>13

(* Every step of CreateTypeSymbol fills in what the PDB describes. *)
LEMMA CreateStepFaithful ==
  ASSUME TypeInv, CleanPdb, EntriesFaithful, CreateStep
  PROVE  EntriesFaithful'
<1>. DEFINE s == Sym(Top.obj)
            o == Top.obj
<1>0. /\ TypeStep /\ stack # << >>
      /\ IsPdb(Names, pdb) /\ o \in DOMAIN pdb.symbols
      /\ AnswersItsTag(s) /\ Len(s.members) \in Nat
      /\ DOMAIN s.members = 1..Len(s.members)
      /\ FrameOK(Top) /\ FrameFaithful(Top)
      /\ Creatable(o)
      /\ \A q \in Successors(o) : Creatable(q)
      /\ Top.next \in Nat \ {0}
  <2>1. TypeStep /\ stack # << >> /\ IsPdb(Names, pdb)
    BY CreateStepKeeps DEF TypeInv, SessionInv
  <2>2. /\ Len(stack) \in 1..Len(stack) /\ Top = stack[Len(stack)] /\ FrameOK(Top)
        /\ o \in DOMAIN pdb.symbols /\ o \in DOMAIN typeSymbols
        /\ Top.next \in Nat \ {0}
    BY <2>1, TopTyped
  <2>3. /\ AnswersItsTag(s) /\ Len(s.members) \in Nat
        /\ DOMAIN s.members = 1..Len(s.members)
    BY <2>1, <2>2, SymbolAnswers, LenProperties
  <2>4. FrameFaithful(Top)
    BY <2>2 DEF EntriesFaithful
  <2>5. Creatable(o) /\ \A q \in Successors(o) : Creatable(q)
    BY <2>2, EnteredCreatable
  <2>. QED
    BY <2>1, <2>2, <2>3, <2>4, <2>5
<1>1. ASSUME NEW symbol, Return(symbol), Faithful(o, symbol)
      PROVE  EntriesFaithful'
  BY <1>0, <1>1, ReturnFaithful
<1>2. CASE CreateBaseTypeSymbol
  <2>. DEFINE symbol == Described("kBase", GetBaseName(s.kind, s.length))
  <2>1. s.tag = "SymTagBaseType"
    BY <1>2 DEF CreateBaseTypeSymbol, Creating
  <2>2. Return(symbol)
    BY <1>0, <1>2, <2>1 DEF CreateBaseTypeSymbol, Creatable
  <2>3. Faithful(o, symbol)
    BY <1>0, <2>1, PlainDescribed DEF Faithful, Described
  <2>. HIDE DEF symbol
  <2>. QED
    BY <1>1, <2>2, <2>3
<1>3. CASE CreateArrayTypeSymbol
  <2>. DEFINE symbol == Described("kArray", s.name)
  <2>1. s.tag = "SymTagArrayType"
    BY <1>3 DEF CreateArrayTypeSymbol, Creating
  <2>2. Return(symbol)
    BY <1>0, <1>3, <2>1 DEF CreateArrayTypeSymbol, Creatable
  <2>3. Faithful(o, symbol)
    BY <1>0, <2>1, PlainDescribed DEF Faithful, Described
  <2>. HIDE DEF symbol
  <2>. QED
    BY <1>1, <2>2, <2>3
<1>4. CASE CreatePointerTypeSymbol
  <2>. DEFINE symbol == Described("kPointer", PointerName(s_counter'))
  <2>1. s.tag = "SymTagPointerType"
    BY <1>4 DEF CreatePointerTypeSymbol, Creating
  <2>2. Return(symbol)
    BY <1>0, <1>4, <2>1 DEF CreatePointerTypeSymbol, Creatable
  <2>3. Faithful(o, symbol)
    BY <1>0, <2>1, PlainDescribed DEF Faithful, Described
  <2>. HIDE DEF symbol
  <2>. QED
    BY <1>1, <2>2, <2>3
<1>5. CASE CreateUnsupportedSymbol
  BY <1>0, <1>5 DEF CreateUnsupportedSymbol, Creating, Creatable
<1>6. CASE CreateTypedefSymbol
  <2>1. s.tag = "SymTagTypedef" /\ s.type # 0
    BY <1>0, <1>6 DEF CreateTypedefSymbol, Creating, Creatable
  <2>2. CASE IsFunctionType(s.type)
    <3>. DEFINE symbol == [Described("kTypedef", s.name) EXCEPT !.length = 0]
    <3>1. Return(symbol)
      BY <1>6, <2>1, <2>2 DEF CreateTypedefSymbol, IsFunctionType
    <3>2. Faithful(o, symbol)
      BY <1>0, <2>1, <2>2, TypedefDescribed DEF Faithful, Described
    <3>. HIDE DEF symbol
    <3>. QED
      BY <1>1, <3>1, <3>2
  <2>3. CASE ~IsFunctionType(s.type)
    <3>1. CreateTypeSymbol(s.type, Append(Below, [Top EXCEPT !.step = "source"]))
      BY <1>6, <2>1, <2>3 DEF CreateTypedefSymbol, IsFunctionType
    <3>2. s.type \in Successors(o)
      BY <2>1, <2>3 DEF Successors
    <3>. QED
      BY <1>0, <2>3, <3>1, <3>2, NestedCreateFaithful
  <2>. QED
    BY <2>2, <2>3
<1>7. CASE FinishTypedefSymbol
  <2>. DEFINE symbol == [Described("kTypedef", s.name) EXCEPT
                           !.length = Sym(s.type).length, !.typedefSource = s.type]
  <2>1. Top.step = "source"
    BY <1>7 DEF FinishTypedefSymbol
  <2>2. s.tag = "SymTagTypedef" /\ s.type # 0 /\ ~IsFunctionType(s.type)
    BY <1>0, <2>1 DEF FrameOK, FrameFaithful
  <2>3. s.type \in Successors(o)
    BY <2>2 DEF Successors
  <2>4. Sym(s.type).hasLength /\ Sym(s.type).hasId
    BY <1>0, <2>2, <2>3 DEF Creatable
  <2>5. Return(symbol)
    BY <1>7, <2>4 DEF FinishTypedefSymbol
  <2>6. symbol = [id |-> o, name |-> s.name, type |-> "kTypedef",
                  length |-> Sym(s.type).length, fieldCount |-> 0, fields |-> << >>,
                  typedefSource |-> s.type]
    <3>1. PICK length, source, name : length = Sym(s.type).length /\ source = s.type /\ name = s.name
      OBVIOUS
    <3>2. [Described("kTypedef", name) EXCEPT !.length = length, !.typedefSource = source]
            = [id |-> o, name |-> name, type |-> "kTypedef", length |-> length,
               fieldCount |-> 0, fields |-> << >>, typedefSource |-> source]
      <4>1. PICK e : e = [Described("kTypedef", name) EXCEPT !.length = length]
        OBVIOUS
      <4>2. e = [id |-> o, name |-> name, type |-> "kTypedef", length |-> length,
                 fieldCount |-> 0, fields |-> << >>, typedefSource |-> 0]
        BY <4>1 DEF Described
      <4>3. [e EXCEPT !.typedefSource = source]
              = [id |-> o, name |-> name, type |-> "kTypedef", length |-> length,
                 fieldCount |-> 0, fields |-> << >>, typedefSource |-> source]
        BY <4>2
      <4>. QED
        BY <4>1, <4>3
    <3>. QED
      BY <3>1, <3>2
  <2>. HIDE DEF symbol
  <2>7. symbol = DescribedType(o) /\ symbol = [symbol EXCEPT !.name = symbol.name]
    BY <1>0, <2>2, <2>6, TypedefDescribed
  <2>8. Faithful(o, symbol)
    BY <2>2, <2>7 DEF Faithful
  <2>. QED
    BY <1>1, <2>5, <2>8
<1>8. CASE CreateUDTSymbol
  <2>1. s_counter' = s_counter /\ s.tag = "SymTagUDT" /\ Top.step = "create"
    BY <1>8 DEF CreateUDTSymbol, Creating
  <2>2. s.kind \in UdtKinds /\ BeginMembers(UdtType[s.kind])
    BY <1>0, <1>8, <2>1 DEF CreateUDTSymbol, Creatable, AnswersItsTag
  <2>3. UdtType[s.kind] \in TypeKinds
    BY <2>2, UdtKindKept
  <2>. QED
    BY <1>0, <2>1, <2>2, <2>3, BeginMembersFaithful
<1>9. CASE CreateEnumSymbol
  <2>1. /\ s_counter' = s_counter /\ s.tag = "SymTagEnum" /\ Top.step = "create"
        /\ BeginMembers("kEnum")
    BY <1>0, <1>9 DEF CreateEnumSymbol, Creating, Creatable
  <2>2. "kEnum" \in TypeKinds
    BY DEF TypeKinds
  <2>. QED
    BY <1>0, <2>1, <2>2, BeginMembersFaithful
<1>10. CASE CreateFieldSymbol
  <2>1. Top.step = "members" /\ Top.next \in 1..Len(s.members)
    BY <1>0, <1>10 DEF CreateFieldSymbol, AtMember
  <2>2. s.tag \in {"SymTagUDT", "SymTagEnum"}
    BY <1>0, <2>1 DEF FrameOK
  <2>3. Member.id # 0 /\ Member.type # 0
    BY <1>0, <2>1 DEF Creatable, Member
  <2>4. Member.type \in Successors(o)
    BY <1>0, <2>1, <2>2, <2>3 DEF Successors, Member
  <2>5. MemberReadable(Member)
    BY <1>0, <2>3, <2>4 DEF MemberReadable, Creatable
  <2>6. CASE PushField(Field(Member))
    BY <1>0, <2>1, <2>6, PushFieldFaithful
  <2>7. CASE CreateTypeSymbol(Member.type, Append(Below, [Top EXCEPT !.step = "field"]))
    BY <1>0, <2>1, <2>4, <2>7, NestedCreateFaithful
  <2>. QED
    BY <1>10, <2>5, <2>6, <2>7 DEF CreateFieldSymbol
<1>11. CASE FinishFieldSymbol
  <2>1. /\ Top.step = "field"
        /\ PushField(IF ret THEN Field(Member) ELSE EmptyField(NoName))
    BY <1>11 DEF FinishFieldSymbol
  <2>2. Top.next \in 1..Len(s.members)
    BY <1>0, <2>1 DEF FrameOK
  <2>3. ret
    BY <1>0, <2>1 DEF EntriesFaithful
  <2>. QED
    BY <1>0, <2>1, <2>2, <2>3, PushFieldFaithful
<1>12. CASE EndMembers
  <2>1. Top.step = "members" /\ Top.next > Len(s.members)
    BY <1>12 DEF EndMembers
  <2>2. s.tag \in {"SymTagUDT", "SymTagEnum"}
    BY <1>0, <2>1 DEF FrameOK
  <2>. DEFINE fields == [i \in 1..Len(s.members) |-> Field(s.members[i])]
  <2>3. /\ Top.symbol = [DescribedType(o) EXCEPT !.fields = fields]
        /\ Top.unionId = 0 /\ ~Top.wasLastUnion
    <3>1. /\ Top.next \in 1..(Len(s.members) + 1)
          /\ Top.symbol = [DescribedType(o) EXCEPT
               !.fields = [i \in 1..(Top.next - 1) |-> Field(s.members[i])]]
          /\ Top.unionId = 0 /\ ~Top.wasLastUnion
      BY <1>0, <2>1 DEF FrameFaithful
    <3>2. Top.next - 1 = Len(s.members)
      BY <1>0, <2>1, <3>1
    <3>. QED
      BY <3>1, <3>2
  <2>4. /\ s.tag = "SymTagUDT" => s.kind \in UdtKinds
        /\ Top.symbol.type = IF s.tag = "SymTagUDT" THEN UdtType[s.kind] ELSE "kEnum"
    BY <1>0, <2>2, <2>3, MembersDescribed DEF Creatable, AnswersItsTag
  <2>5. (Top.symbol.type \in {"kUnion", "kEnum"}) <=> ~(s.tag = "SymTagUDT" /\ s.kind # "UdtUnion")
    BY <2>2, <2>4, UdtKindKept
  <2>6. CASE Top.symbol.type \in {"kUnion", "kEnum"}
    <3>1. Return(Top.symbol)
      BY <1>12, <2>6 DEF EndMembers
    <3>2. fields = [i \in DOMAIN s.members |-> DescribedField(s, i)]
      BY <1>0, <2>5, <2>6, UnmarkedDescribed
    <3>. HIDE DEF fields
    <3>3. Faithful(o, Top.symbol)
      BY <2>2, <2>3, <3>2, AllFieldsDescribed
    <3>. QED
      BY <1>1, <3>1, <3>3
  <2>7. CASE Top.symbol.type \notin {"kUnion", "kEnum"}
    <3>. DEFINE e == [Top EXCEPT !.step = "unions"]
                frame == [e EXCEPT !.next = 1]
    <3>1. /\ e \in Frames /\ e.obj = o /\ e.step = "unions"
          /\ e.symbol = Top.symbol
          /\ e.unionId = Top.unionId /\ e.wasLastUnion = Top.wasLastUnion
      BY <1>0, StepTyped, TopTyped DEF Frames
    <3>2. Continue(frame)
      BY <1>12, <2>7 DEF EndMembers
    <3>. HIDE DEF e
    <3>3. /\ frame \in Frames /\ frame.obj = o /\ frame.step = "unions"
          /\ frame.symbol = Top.symbol /\ frame.next = 1
          /\ frame.unionId = Top.unionId /\ frame.wasLastUnion = Top.wasLastUnion
      BY <3>1 DEF Frames
    <3>. HIDE DEF frame
    <3>4. /\ FieldsBefore(s.members, frame.next) = fields
          /\ UnionsUpTo(s.members, frame.next - 1) = 0
      <4>1. FieldsBefore(s.members, 1) = fields
        BY <1>0, NothingMarked
      <4>2. frame.next - 1 = 0
        BY <3>3
      <4>. QED
        BY <3>3, <4>1, <4>2, NoUnionsYet
    <3>5. SamePlace(s.members, frame.next - 1) = FALSE
      BY <3>3 DEF SamePlace
    <3>6. frame.wasLastUnion = FALSE
      BY <2>3, <3>3 DEF Frames
    <3>. HIDE DEF fields
    <3>7. /\ frame.unionId + (IF frame.wasLastUnion THEN 1 ELSE 0)
               = UnionsUpTo(s.members, frame.next - 1)
          /\ s.tag = "SymTagUDT" /\ s.kind # "UdtUnion"
          /\ frame.symbol = [DescribedType(o) EXCEPT !.fields =
                               FieldsBefore(s.members, frame.next)]
      BY <2>3, <2>5, <2>7, <3>3, <3>4, <3>6
    <3>8. FrameFaithful(frame)
      BY <3>3, <3>5, <3>6, <3>7 DEF FrameFaithful
    <3>. QED
      BY <1>0, <3>2, <3>3, <3>8, ContinueFaithful
  <2>. QED
    BY <2>6, <2>7
<1>13. CASE SetAnonymousUnionData
  BY <1>13, UnionStepFaithful
<1>14. CASE EndUnions
  <2>1. /\ Top.step = "unions" /\ Top.next >= Len(Top.symbol.fields)
        /\ Return(Top.symbol)
    BY <1>14 DEF EndUnions, AtUnion
  <2>2. /\ s.tag = "SymTagUDT" /\ s.kind # "UdtUnion"
        /\ Top.symbol = [DescribedType(o) EXCEPT !.fields = FieldsBefore(s.members, Top.next)]
    BY <1>0, <2>1 DEF FrameFaithful
  <2>3. Len(Top.symbol.fields) = Len(s.members)
    <3>1. Top.symbol.fields = FieldsBefore(s.members, Top.next)
      BY <2>2 DEF DescribedType
    <3>2. DOMAIN Top.symbol.fields = 1..Len(s.members)
      BY <3>1 DEF FieldsBefore
    <3>3. /\ DOMAIN Top.symbol.fields = 1..Len(Top.symbol.fields)
          /\ Len(Top.symbol.fields) \in Nat
      BY <1>0, TopTyped, LenProperties
    <3>. QED
      BY <1>0, <3>2, <3>3
  <2>4. FieldsBefore(s.members, Top.next) = [i \in DOMAIN s.members |-> DescribedField(s, i)]
    BY <1>0, <2>1, <2>2, <2>3, AllMarked
  <2>5. Faithful(o, Top.symbol)
    BY <2>2, <2>4, AllFieldsDescribed
  <2>. QED
    BY <1>1, <2>1, <2>5
<1>. QED
  BY <1>2, <1>3, <1>4, <1>5, <1>6, <1>7, <1>8, <1>9, <1>10, <1>11, <1>12, <1>13, <1>14
  DEF CreateStep

-----------------------------------------------------------------------------
(* Faithful types: the lists *)

(* What the lists deliver are roots. *)
LEMMA ListedRoots ==
  ASSUME NEW n \in 0..Len(TypeLists)
  PROVE  Listed(n) \subseteq Roots
<1>1. 1..n \subseteq DOMAIN TypeLists
  BY DEF TypeLists
<1>. QED
  BY <1>1 DEF Listed, Roots

(* One more list. *)
LEMMA ListedNext ==
  ASSUME NEW n \in Nat
  PROVE  /\ Listed(0) = {}
         /\ Listed(n + 1) =
              Listed(n) \cup {o \in pdb.global : Sym(o).tag = TypeLists[n + 1]}
<1>1. \A i : i \in 1..(n + 1) <=> i \in 1..n \/ i = n + 1
  OBVIOUS
<1>. QED
  BY <1>1 DEF Listed

(* So are the types of functions. *)
LEMMA FunctionTypesReachable ==
  ASSUME TypeInv, CleanPdb, NEW h \in DOMAIN pdb.functions, pdb.functions[h].hasType,
         NEW o \in FunctionTypes(pdb.functions[h])
  PROVE  o \in Reachable /\ Creatable(o) /\ o # 0
<1>1. o \in Roots
  BY DEF Roots
<1>2. o \in Reachable
  BY <1>1, ReachableIsLeast DEF Closed, TypeInv, SessionInv
<1>. QED
  BY <1>2 DEF CleanPdb, FunctionTypes

(* The steps of CreateTypeSymbol take no entry away. *)
LEMMA CreateStepGrows ==
  ASSUME CreateStep
  PROVE  DOMAIN typeSymbols \subseteq DOMAIN typeSymbols'
<1>1. \A symbol : Return(symbol) => DOMAIN typeSymbols' = DOMAIN typeSymbols
  BY DEF Return
<1>2. ReturnFalse => typeSymbols' = typeSymbols
  BY DEF ReturnFalse
<1>3. \A frame : Continue(frame) => typeSymbols' = typeSymbols
  BY DEF Continue
<1>4. \A o, frames : CreateTypeSymbol(o, frames) =>
        DOMAIN typeSymbols \subseteq DOMAIN typeSymbols'
  BY CreateEffect
<1>5. CASE CreateBaseTypeSymbol
  BY <1>1, <1>2, <1>5 DEF CreateBaseTypeSymbol
<1>6. CASE CreateArrayTypeSymbol
  BY <1>1, <1>2, <1>6 DEF CreateArrayTypeSymbol
<1>7. CASE CreatePointerTypeSymbol
  BY <1>1, <1>2, <1>7 DEF CreatePointerTypeSymbol
<1>8. CASE CreateUnsupportedSymbol
  BY <1>2, <1>8 DEF CreateUnsupportedSymbol
<1>9. CASE CreateTypedefSymbol
  BY <1>1, <1>2, <1>4, <1>9 DEF CreateTypedefSymbol
<1>10. CASE FinishTypedefSymbol
  BY <1>1, <1>2, <1>10 DEF FinishTypedefSymbol
<1>11. CASE CreateUDTSymbol
  BY <1>2, <1>3, <1>11 DEF CreateUDTSymbol, BeginMembers
<1>12. CASE CreateEnumSymbol
  BY <1>2, <1>3, <1>12 DEF CreateEnumSymbol, BeginMembers
<1>13. CASE CreateFieldSymbol
  BY <1>3, <1>4, <1>13 DEF CreateFieldSymbol, PushField
<1>14. CASE FinishFieldSymbol
  BY <1>3, <1>14 DEF FinishFieldSymbol, PushField
<1>15. CASE EndMembers
  BY <1>1, <1>3, <1>15 DEF EndMembers
<1>16. CASE SetAnonymousUnionData
  BY <1>3, <1>16 DEF SetAnonymousUnionData
<1>17. CASE EndUnions
  BY <1>1, <1>17 DEF EndUnions
<1>. QED
  BY <1>5, <1>6, <1>7, <1>8, <1>9, <1>10, <1>11, <1>12, <1>13, <1>14, <1>15, <1>16, <1>17
  DEF CreateStep

(* CreateTypeSymbol called for a list. *)
LEMMA RootCreateFaithful ==
  ASSUME EntriesFaithful, pdb' = pdb, stack = << >>, NEW o \in Reachable, Creatable(o),
         o # 0, CreateTypeSymbol(o, << >>)
  PROVE  /\ EntriesFaithful' /\ o \in DOMAIN typeSymbols'
         /\ DOMAIN typeSymbols \subseteq DOMAIN typeSymbols'
<1>1. /\ << >> \in Seq(Nat) /\ Len(<< >>) = 0
      /\ \A i \in 1..Len(<< >>) : FrameFaithful(<< >>[i])
  BY EmptySeq
<1>2. \A i \in 1..Len(stack) : \E j \in 1..Len(<< >>) : << >>[j].obj = stack[i].obj
  OBVIOUS
<1>3. EntriesFaithful' /\ o \in DOMAIN typeSymbols'
  BY <1>1, <1>2, CreateFaithful
<1>. QED
  BY <1>3, CreateEffect

(* The type of a return value or an argument. *)
LEMMA EnsureTypeFaithful ==
  ASSUME EntriesFaithful, stack = << >>, NEW o,
         o = 0 \/ (o \in Reachable /\ Creatable(o) /\ o # 0), EnsureType(o)
  PROVE  /\ EntriesFaithful' /\ o \in Entered'
         /\ DOMAIN typeSymbols \subseteq DOMAIN typeSymbols'
<1>0. pdb' = pdb
  BY DEF EnsureType, sessionVars
<1>1. CASE o = 0 \/ o \in DOMAIN typeSymbols
  <2>1. typeSymbols' = typeSymbols /\ stack' = stack /\ ret' = ret
    BY <1>1 DEF EnsureType, Id, Creatable
  <2>2. EntriesFaithful'
    BY <1>0, <2>1, FaithfulOfThePdb, ReachableOfThePdb DEF EntriesFaithful
  <2>. QED
    BY <1>1, <2>1, <2>2 DEF Entered
<1>2. CASE ~(o = 0 \/ o \in DOMAIN typeSymbols)
  <2>1. CreateTypeSymbol(o, << >>)
    BY <1>2 DEF EnsureType, Id, Creatable
  <2>. QED
    BY <1>0, <1>2, <2>1, RootCreateFaithful DEF Entered
<1>. QED
  BY <1>1, <1>2

(* Entries only come, so what is entered stays entered. *)
LEMMA RootsStay ==
  ASSUME RootsEntered, pdb' = pdb, DOMAIN typeSymbols \subseteq DOMAIN typeSymbols',
         functionSymbols' = functionSymbols, fn' = fn, todo' = todo, list' = list,
         pc' = "header" => pc = "header", pc' = "types" => pc = "types",
         (pc' = "functions" \/ Built') => (pc = "functions" \/ Built)
  PROVE  RootsEntered'
<1>1. Entered \subseteq Entered' /\ Fun' = Fun
  BY DEF Entered, Fun
<1>2. /\ \A n : Listed(n)' = Listed(n)
      /\ \A f : FunctionTypes(f)' = FunctionTypes(f)
  BY ReachableOfThePdb
<1>3. /\ \A f : Counted(f)' = Counted(f)
      /\ \A f : KeptArguments(f)' = KeptArguments(f)
      /\ \A o : IsNoType(o)' = IsNoType(o)
  BY DEF Counted, KeptArguments, IsNoType, Sym
<1>4. CurrentTypes'
  BY <1>1, <1>3 DEF RootsEntered, CurrentTypes
<1>5. FinishedTypes => FinishedTypes'
  BY <1>1, <1>2 DEF FinishedTypes, Done
<1>. QED
  BY <1>1, <1>2, <1>4, <1>5 DEF RootsEntered

(* A step within a function: the types it has asked for are left to show. *)
LEMMA WithinFunctionTypes ==
  ASSUME TypeInv, RootsEntered, fn # NoFunction, UNCHANGED <<sessionVars, listVars>>,
         OnlyEntry(Fun.id), DOMAIN typeSymbols \subseteq DOMAIN typeSymbols',
         fn'.handle = fn.handle, fn' # NoFunction, CurrentTypes'
  PROVE  RootsEntered'
<1>1. pdb' = pdb /\ pc' = pc /\ todo' = todo /\ list' = list
  BY DEF sessionVars, listVars
<1>2. /\ pc = "functions" /\ fn.handle \in DOMAIN pdb.functions
      /\ Fun = pdb.functions[fn.handle]
  BY FunTyped
<1>3. Entered \subseteq Entered'
  BY DEF Entered
<1>4. /\ \A n : Listed(n)' = Listed(n)
      /\ \A f : FunctionTypes(f)' = FunctionTypes(f)
  BY <1>1, ReachableOfThePdb
<1>5. FinishedTypes'
  <2>. SUFFICES ASSUME NEW h \in DOMAIN pdb.functions, pdb.functions[h].hasType, Done(h)'
                PROVE  LET f == pdb.functions[h]
                       IN  /\ FunctionTypes(f) \subseteq Entered'
                           /\ f.id \in DOMAIN functionSymbols'
                           /\ functionSymbols'[f.id].returnTypeId = f.returnType
    BY <1>1, <1>4 DEF FinishedTypes
  <2>1. Done(h) /\ h # fn.handle
    BY <1>1 DEF Done
  <2>. PICK f : f = pdb.functions[h]
    OBVIOUS
  <2>2. /\ FunctionTypes(f) \subseteq Entered
        /\ f.id \in DOMAIN functionSymbols
        /\ functionSymbols[f.id].returnTypeId = f.returnType
    BY <1>2, <2>1 DEF RootsEntered, FinishedTypes
  <2>3. f.id # Fun.id
    BY <1>2, <2>1, IdsDiffer
  <2>. QED
    BY <1>3, <2>2, <2>3 DEF OnlyEntry
<1>. QED
  BY <1>1, <1>2, <1>3, <1>4, <1>5 DEF RootsEntered, Built

(* A function begins: its entry is new, and nothing has been asked for. *)
LEMMA BeginFunctionTypes ==
  ASSUME TypeInv, ArgumentInv, RootsEntered, NEW h \in DOMAIN pdb.functions, BeginFunction(h)
  PROVE  RootsEntered'
<1>1. PICK f : f = pdb.functions[h]
  OBVIOUS
<1>2. /\ pc = "functions" /\ fn = NoFunction /\ h \in todo /\ todo' = todo \ {h}
      /\ pdb' = pdb /\ pc' = pc /\ typeSymbols' = typeSymbols
      /\ fn' = IF f.hasType
               THEN [handle |-> h, step |-> "return", next |-> 1, position |-> 0]
               ELSE NoFunction
  BY <1>1 DEF BeginFunction, sessionVars, typeVars
<1>3. f.id \notin DOMAIN functionSymbols
  BY <1>1, <1>2 DEF ArgumentInv
<1>4. /\ DOMAIN functionSymbols' = DOMAIN functionSymbols \cup {f.id}
      /\ \A g \in DOMAIN functionSymbols \ {f.id} : functionSymbols'[g] = functionSymbols[g]
      /\ functionSymbols'[f.id].returnTypeId = 0
      /\ functionSymbols'[f.id].argumentCount = 0
  BY <1>1, <1>3, BeginFunctionEffect
<1>5. /\ \A n : Listed(n)' = Listed(n)
      /\ \A k : FunctionTypes(k)' = FunctionTypes(k)
      /\ Entered' = Entered
  BY <1>2, ReachableOfThePdb DEF Entered
<1>6. CurrentTypes'
  <2>. SUFFICES ASSUME fn' # NoFunction PROVE CurrentTypes'
    BY DEF CurrentTypes
  <2>1. fn' = [handle |-> h, step |-> "return", next |-> 1, position |-> 0] /\ f.hasType
    BY <1>2
  <2>2. fn'.handle = h /\ fn'.step = "return" /\ fn'.next = 1 /\ fn'.position = 0
    BY <2>1
  <2>3. Fun' = f
    BY <1>1, <1>2, <2>2 DEF Fun
  <2>. QED
    BY <1>4, <2>1, <2>2, <2>3 DEF CurrentTypes
<1>7. FinishedTypes'
  <2>. SUFFICES ASSUME NEW g \in DOMAIN pdb.functions, pdb.functions[g].hasType, Done(g)'
                PROVE  LET k == pdb.functions[g]
                       IN  /\ FunctionTypes(k) \subseteq Entered
                           /\ k.id \in DOMAIN functionSymbols'
                           /\ functionSymbols'[k.id].returnTypeId = k.returnType
    BY <1>2, <1>5 DEF FinishedTypes
  <2>1. g # h
    <3>1. CASE f.hasType
      <4>1. fn'.handle = h /\ fn' # NoFunction
        BY <1>2, <3>1 DEF NoFunction
      <4>. QED
        BY <4>1 DEF Done
    <3>2. CASE ~f.hasType
      BY <1>1, <3>2
    <3>. QED
      BY <3>1, <3>2
  <2>2. Done(g)
    BY <1>2, <2>1 DEF Done
  <2>. PICK k : k = pdb.functions[g]
    OBVIOUS
  <2>3. /\ FunctionTypes(k) \subseteq Entered
        /\ k.id \in DOMAIN functionSymbols
        /\ functionSymbols[k.id].returnTypeId = k.returnType
    BY <1>2, <2>2 DEF RootsEntered, FinishedTypes
  <2>4. k.id # f.id
    BY <1>1, <2>1, IdsDiffer
  <2>. QED
    BY <1>4, <2>3, <2>4
<1>. QED
  BY <1>2, <1>5, <1>6, <1>7 DEF RootsEntered, Built

(* Its return type is entered, ... *)
LEMMA ReturnTypeTypes ==
  ASSUME TypeInv, CleanPdb, EntriesFaithful, RootsEntered, ReturnType
  PROVE  EntriesFaithful' /\ RootsEntered'
<1>1. PICK f : f = Fun
  OBVIOUS
<1>2. /\ fn # NoFunction /\ stack = << >> /\ EnsureType(f.returnType)
      /\ OnlyEntry(f.id) /\ f.id \in DOMAIN functionSymbols
      /\ functionSymbols'[f.id].argumentCount = functionSymbols[f.id].argumentCount
      /\ fn'.handle = fn.handle /\ fn'.step = "this"
      /\ fn'.next = fn.next /\ fn'.position = fn.position
  BY <1>1, ReturnTypeEffect, FunTyped
<1>3. /\ fn.step = "return"
      /\ functionSymbols' =
           IF f.returnType # 0 /\ Sym(f.returnType).hasId
           THEN [functionSymbols EXCEPT ![f.id].returnTypeId = f.returnType]
           ELSE functionSymbols
  BY <1>1 DEF ReturnType, AtFunction
<1>4. /\ f.hasType /\ functionSymbols[f.id].argumentCount = 0
      /\ fn.next = 1 /\ fn.position = 0 /\ functionSymbols[f.id].returnTypeId = 0
  BY <1>1, <1>2, <1>3 DEF RootsEntered, CurrentTypes
<1>5. f.returnType = 0 \/
      (f.returnType \in Reachable /\ Creatable(f.returnType) /\ f.returnType # 0)
  <2>1. f.returnType # 0 => f.returnType \in FunctionTypes(f)
    BY DEF FunctionTypes
  <2>. QED
    BY <1>1, <1>2, <1>4, <2>1, FunTyped, FunctionTypesReachable
<1>6. /\ EntriesFaithful' /\ f.returnType \in Entered'
      /\ DOMAIN typeSymbols \subseteq DOMAIN typeSymbols'
  BY <1>2, <1>5, EnsureTypeFaithful
<1>7. functionSymbols'[f.id].returnTypeId = f.returnType
  <2>1. CASE f.returnType = 0
    BY <1>3, <1>4, <2>1
  <2>2. CASE f.returnType # 0
    <3>1. functionSymbols[f.id] \in FunctionSymbols(Names)
      BY <1>1, <1>2, FunTyped
    <3>2. Sym(f.returnType).hasId
      BY <1>5, <2>2 DEF Creatable
    <3>3. functionSymbols'[f.id] = [functionSymbols[f.id] EXCEPT !.returnTypeId = f.returnType]
      BY <1>2, <1>3, <2>2, <3>2
    <3>. QED
      BY <3>1, <3>3 DEF FunctionSymbols
  <2>. QED
    BY <2>1, <2>2
<1>8. UNCHANGED <<sessionVars, listVars>> /\ pdb' = pdb
  BY <1>2 DEF EnsureType, sessionVars
<1>9. Fun' = f
  BY <1>1, <1>2, <1>8 DEF Fun
<1>10. CurrentTypes'
  BY <1>2, <1>4, <1>6, <1>7, <1>9 DEF CurrentTypes
<1>11. fn' # NoFunction
  BY <1>2 DEF NoFunction
<1>. QED
  BY <1>1, <1>2, <1>6, <1>8, <1>10, <1>11, WithinFunctionTypes

(* ... and so is the type of its this pointer, if it counts arguments, ... *)
LEMMA ThisArgumentTypes ==
  ASSUME TypeInv, CleanPdb, EntriesFaithful, RootsEntered, ThisArgument
  PROVE  EntriesFaithful' /\ RootsEntered'
<1>1. PICK f : f = Fun
  OBVIOUS
<1>. DEFINE count == IF f.hasCount THEN f.count ELSE functionSymbols[f.id].argumentCount
<1>2. /\ fn # NoFunction /\ fn.step = "this" /\ stack = << >> /\ OnlyEntry(f.id)
      /\ functionSymbols'[f.id].returnTypeId = functionSymbols[f.id].returnTypeId
      /\ fn'.handle = fn.handle /\ fn'.step = "arguments" /\ fn'.position = fn.position
      /\ \/ count > 0 /\ EnsureType(f.this) /\ fn'.next = fn.next
         \/ count = 0 /\ EnsureType(0) /\ fn'.next = Len(f.arguments) + 1
  BY <1>1, ThisArgumentEffect
<1>3. /\ f.hasType /\ functionSymbols[f.id].argumentCount = 0
      /\ fn.next = 1 /\ fn.position = 0
      /\ f.returnType \in Entered /\ functionSymbols[f.id].returnTypeId = f.returnType
  BY <1>1, <1>2 DEF RootsEntered, CurrentTypes
<1>4. /\ f.count \in Nat /\ Len(f.arguments) \in Nat
      /\ fn.handle \in DOMAIN pdb.functions /\ f = pdb.functions[fn.handle]
  BY <1>1, <1>2, FunTyped
<1>5. /\ UNCHANGED <<sessionVars, listVars>> /\ pdb' = pdb
      /\ Fun' = f /\ fn' # NoFunction
  BY <1>1, <1>2 DEF EnsureType, sessionVars, Fun, NoFunction
<1>6. count > 0 <=> Counted(f)
  BY <1>3, <1>4 DEF Counted
<1>7. Counted(f)' = Counted(f)
  BY DEF Counted
<1>8. CASE Counted(f)
  <2>1. EnsureType(f.this) /\ fn'.next = 1 /\ fn'.position = 0
    <3>1. ~(count = 0)
      BY <1>4, <1>6, <1>8
    <3>. HIDE DEF count
    <3>. QED
      BY <1>2, <1>3, <3>1
  <2>2. f.this = 0 \/ (f.this \in Reachable /\ Creatable(f.this) /\ f.this # 0)
    <3>1. f.this # 0 => f.this \in FunctionTypes(f)
      BY <1>4, <1>8 DEF FunctionTypes, Counted
    <3>. QED
      BY <1>3, <1>4, <3>1, FunctionTypesReachable
  <2>3. /\ EntriesFaithful' /\ f.this \in Entered'
        /\ DOMAIN typeSymbols \subseteq DOMAIN typeSymbols'
    BY <1>2, <2>1, <2>2, EnsureTypeFaithful
  <2>4. f.returnType \in Entered'
    BY <1>3, <2>3 DEF Entered
  <2>5. (\A i \in KeptArguments(f) : i < 1 => f.arguments[i] \in Entered)'
    <3>1. KeptArguments(f)' \subseteq 1..Len(f.arguments)
      BY <1>1, <1>2, FunTyped, LenProperties DEF KeptArguments
    <3>. QED
      BY <1>4, <3>1
  <2>6. \A j \in 1..Len(f.arguments) : ~(j < 1)
    BY <1>4
  <2>7. CurrentTypes'
    BY <1>2, <1>3, <1>5, <1>7, <1>8, <2>1, <2>3, <2>4, <2>5, <2>6 DEF CurrentTypes
  <2>. QED
    BY <1>1, <1>2, <1>5, <2>3, <2>7, WithinFunctionTypes
<1>9. CASE ~Counted(f)
  <2>1. EnsureType(0) /\ fn'.next = Len(f.arguments) + 1
    <3>1. ~(count > 0)
      BY <1>6, <1>9
    <3>. HIDE DEF count
    <3>. QED
      BY <1>2, <3>1
  <2>2. EntriesFaithful' /\ DOMAIN typeSymbols \subseteq DOMAIN typeSymbols'
    BY <1>2, <2>1, EnsureTypeFaithful
  <2>3. f.returnType \in Entered'
    BY <1>3, <2>2 DEF Entered
  <2>4. CurrentTypes'
    BY <1>2, <1>3, <1>4, <1>5, <1>7, <1>9, <2>1, <2>3, SMTT(30) DEF CurrentTypes
  <2>. QED
    BY <1>1, <1>2, <1>5, <2>2, <2>4, WithinFunctionTypes
<1>. QED
  BY <1>8, <1>9

(* ... and that of each argument that is no stub, ... *)
LEMMA ArgumentTypes ==
  ASSUME TypeInv, CleanPdb, EntriesFaithful, RootsEntered, Argument
  PROVE  EntriesFaithful' /\ RootsEntered'
<1>1. PICK f : f = Fun
  OBVIOUS
<1>2. PICK o : o = f.arguments[fn.next]
  OBVIOUS
<1>3. /\ fn # NoFunction /\ fn.step = "arguments" /\ stack = << >> /\ OnlyEntry(f.id)
      /\ fn.next \in 1..Len(f.arguments)
      /\ functionSymbols'[f.id].returnTypeId = functionSymbols[f.id].returnTypeId
      /\ fn'.handle = fn.handle /\ fn'.step = "arguments" /\ fn'.next = fn.next + 1
      /\ \/ /\ IsNoType(o) /\ fn.position = 0 /\ EnsureType(0)
            /\ fn'.position = fn.position
         \/ /\ ~(IsNoType(o) /\ fn.position = 0) /\ EnsureType(o)
            /\ fn'.position = fn.position + 1
  BY <1>1, <1>2, ArgumentEffect
<1>4. /\ Len(f.arguments) \in Nat /\ fn.position \in Nat
      /\ f.arguments \in Seq(DOMAIN pdb.symbols) /\ DOMAIN f.arguments = 1..Len(f.arguments)
      /\ fn.handle \in DOMAIN pdb.functions /\ f = pdb.functions[fn.handle]
  BY <1>1, <1>3, FunTyped, LenProperties DEF TypeInv, ListInv
<1>5. Counted(f)
  BY <1>1, <1>3, <1>4 DEF RootsEntered, CurrentTypes
<1>6. /\ f.hasType /\ f.this \in Entered
      /\ f.returnType \in Entered /\ functionSymbols[f.id].returnTypeId = f.returnType
      /\ \A i \in KeptArguments(f) : i < fn.next => f.arguments[i] \in Entered
      /\ fn.position = 0 <=> \A j \in 1..Len(f.arguments) : j < fn.next => IsNoType(f.arguments[j])
  BY <1>1, <1>3, <1>5 DEF RootsEntered, CurrentTypes
<1>7. /\ UNCHANGED <<sessionVars, listVars>> /\ pdb' = pdb
      /\ Fun' = f /\ fn' # NoFunction
  BY <1>1, <1>3 DEF EnsureType, sessionVars, Fun, NoFunction
<1>8. /\ Counted(f)' = Counted(f) /\ KeptArguments(f)' = KeptArguments(f)
      /\ \A q : IsNoType(q)' = IsNoType(q)
  BY <1>7 DEF Counted, KeptArguments, IsNoType, Sym
<1>9. fn.next \in KeptArguments(f) <=> ~(IsNoType(o) /\ fn.position = 0)
  <2>1. \A j : j \in 1..fn.next <=> j = fn.next \/ (j \in 1..Len(f.arguments) /\ j < fn.next)
    BY <1>3, <1>4
  <2>2. fn.next \in KeptArguments(f) <=> \E j \in 1..fn.next : ~IsNoType(f.arguments[j])
    BY <1>3, <1>4 DEF KeptArguments
  <2>. QED
    BY <1>2, <1>6, <2>1, <2>2
<1>10. \A i \in 1..Len(f.arguments) : i < fn.next + 1 <=> i < fn.next \/ i = fn.next
  BY <1>3, <1>4
<1>11. KeptArguments(f) \subseteq 1..Len(f.arguments)
  BY <1>4 DEF KeptArguments
<1>12. CASE IsNoType(o) /\ fn.position = 0
  <2>1. EnsureType(0) /\ fn'.position = 0
    BY <1>3, <1>12
  <2>2. EntriesFaithful' /\ DOMAIN typeSymbols \subseteq DOMAIN typeSymbols'
    BY <1>3, <2>1, EnsureTypeFaithful
  <2>3. Entered \subseteq Entered'
    BY <2>2 DEF Entered
  <2>4. \A i \in KeptArguments(f) : i < fn'.next => f.arguments[i] \in Entered'
    BY <1>3, <1>6, <1>9, <1>10, <1>11, <1>12, <2>3
  <2>5. \A j \in 1..Len(f.arguments) : j < fn'.next => IsNoType(f.arguments[j])
    BY <1>2, <1>3, <1>6, <1>10, <1>12
  <2>6. CurrentTypes'
    BY <1>3, <1>5, <1>6, <1>7, <1>8, <2>1, <2>3, <2>4, <2>5 DEF CurrentTypes
  <2>. QED
    BY <1>1, <1>3, <1>7, <2>2, <2>6, WithinFunctionTypes
<1>13. CASE ~(IsNoType(o) /\ fn.position = 0)
  <2>1. EnsureType(o) /\ fn'.position = fn.position + 1
    BY <1>3, <1>13
  <2>2. o \in Reachable /\ Creatable(o) /\ o # 0
    <3>1. o # 0
      <4>1. o \in DOMAIN pdb.symbols
        BY <1>2, <1>3, <1>4
      <4>2. 0 \notin DOMAIN pdb.symbols
        BY DEF TypeInv, SessionInv, IsPdb
      <4>. QED
        BY <4>1, <4>2
    <3>2. o \in FunctionTypes(f)
      BY <1>2, <1>4, <1>5, <1>9, <1>13, <3>1 DEF FunctionTypes, Counted
    <3>. QED
      BY <1>4, <1>6, <3>2, FunctionTypesReachable
  <2>3. /\ EntriesFaithful' /\ o \in Entered'
        /\ DOMAIN typeSymbols \subseteq DOMAIN typeSymbols'
    BY <1>3, <2>1, <2>2, EnsureTypeFaithful
  <2>4. Entered \subseteq Entered'
    BY <2>3 DEF Entered
  <2>5. \A i \in KeptArguments(f) : i < fn'.next => f.arguments[i] \in Entered'
    BY <1>2, <1>3, <1>6, <1>10, <1>11, <2>3, <2>4
  <2>6. fn'.position # 0
    BY <1>4, <2>1
  <2>7. ~(\A j \in 1..Len(f.arguments) : j < fn'.next => IsNoType(f.arguments[j]))
    <3>1. CASE fn.position = 0
      BY <1>2, <1>3, <1>10, <1>13, <3>1
    <3>2. CASE fn.position # 0
      BY <1>3, <1>6, <1>10, <3>2
    <3>. QED
      BY <3>1, <3>2
  <2>8. CurrentTypes'
    BY <1>3, <1>5, <1>6, <1>7, <1>8, <2>4, <2>5, <2>6, <2>7 DEF CurrentTypes
  <2>. QED
    BY <1>1, <1>3, <1>7, <2>3, <2>8, WithinFunctionTypes
<1>. QED
  BY <1>12, <1>13

(* ... so that all are once it ends. *)
LEMMA EndFunctionTypes ==
  ASSUME TypeInv, EntriesFaithful, RootsEntered, EndFunction
  PROVE  EntriesFaithful' /\ RootsEntered'
<1>1. PICK f : f = Fun
  OBVIOUS
<1>2. /\ fn # NoFunction /\ fn.step = "arguments" /\ fn.next > Len(f.arguments)
      /\ fn' = NoFunction /\ OnlyEntry(f.id)
      /\ functionSymbols'[f.id].returnTypeId = functionSymbols[f.id].returnTypeId
      /\ UNCHANGED <<sessionVars, listVars, typeVars>>
  BY <1>1, EndFunctionEffect
<1>3. /\ pdb' = pdb /\ pc' = pc /\ todo' = todo /\ list' = list
      /\ typeSymbols' = typeSymbols /\ stack' = stack /\ ret' = ret
  BY <1>2 DEF sessionVars, listVars, typeVars
<1>4. /\ pc = "functions" /\ fn.handle \in DOMAIN pdb.functions /\ fn.next \in Nat
      /\ f = pdb.functions[fn.handle] /\ Len(f.arguments) \in Nat
      /\ f.id \in DOMAIN functionSymbols /\ f.count \in Nat
      /\ DOMAIN f.arguments = 1..Len(f.arguments)
  BY <1>1, <1>2, FunTyped, LenProperties DEF TypeInv, ListInv
<1>5. EntriesFaithful'
  BY <1>3, FaithfulOfThePdb, ReachableOfThePdb DEF EntriesFaithful, Top
<1>6. /\ \A n : Listed(n)' = Listed(n)
      /\ \A k : FunctionTypes(k)' = FunctionTypes(k)
      /\ Entered' = Entered
  BY <1>3, ReachableOfThePdb DEF Entered
<1>7. FunctionTypes(f) \subseteq Entered /\ functionSymbols[f.id].returnTypeId = f.returnType
  <2>1. /\ f.hasType /\ f.returnType \in Entered
        /\ functionSymbols[f.id].returnTypeId = f.returnType
    BY <1>1, <1>2 DEF RootsEntered, CurrentTypes
  <2>2. CASE Counted(f)
    <3>1. /\ f.this \in Entered
          /\ \A i \in KeptArguments(f) : i < fn.next => f.arguments[i] \in Entered
      BY <1>1, <1>2, <2>2 DEF RootsEntered, CurrentTypes
    <3>2. \A i \in KeptArguments(f) : i < fn.next
      BY <1>2, <1>4 DEF KeptArguments
    <3>. QED
      BY <2>1, <3>1, <3>2 DEF FunctionTypes
  <2>3. CASE ~Counted(f)
    <3>1. ~f.hasCount \/ f.count = 0
      BY <1>4, <2>1, <2>3 DEF Counted
    <3>. QED
      BY <2>1, <3>1 DEF FunctionTypes
  <2>. QED
    BY <2>1, <2>2, <2>3
<1>8. FinishedTypes'
  <2>. SUFFICES ASSUME NEW h \in DOMAIN pdb.functions, pdb.functions[h].hasType, Done(h)'
                PROVE  LET k == pdb.functions[h]
                       IN  /\ FunctionTypes(k) \subseteq Entered
                           /\ k.id \in DOMAIN functionSymbols'
                           /\ functionSymbols'[k.id].returnTypeId = k.returnType
    BY <1>3, <1>6 DEF FinishedTypes
  <2>1. CASE h = fn.handle
    BY <1>2, <1>4, <1>7, <2>1 DEF OnlyEntry
  <2>2. CASE h # fn.handle
    <3>1. Done(h)
      BY <1>3, <2>2 DEF Done
    <3>. PICK k : k = pdb.functions[h]
      OBVIOUS
    <3>2. /\ FunctionTypes(k) \subseteq Entered /\ k.id \in DOMAIN functionSymbols
          /\ functionSymbols[k.id].returnTypeId = k.returnType
      BY <1>4, <3>1 DEF RootsEntered, FinishedTypes
    <3>3. k.id # f.id
      BY <1>4, <2>2, IdsDiffer
    <3>. QED
      BY <1>2, <3>2, <3>3 DEF OnlyEntry
  <2>. QED
    BY <2>1, <2>2
<1>. QED
  BY <1>2, <1>3, <1>4, <1>5, <1>6, <1>8 DEF RootsEntered, CurrentTypes, Built

(* The types stay as they are. *)
LEMMA EntriesStay ==
  ASSUME EntriesFaithful, pdb' = pdb, typeSymbols' = typeSymbols, stack' = stack, ret' = ret
  PROVE  EntriesFaithful'
  BY FaithfulOfThePdb, ReachableOfThePdb DEF EntriesFaithful, Top

(* No types and no functions yet, or none any more. *)
LEMMA NothingEntered ==
  ASSUME typeSymbols' = EmptyMap, stack' = << >>, fn' = NoFunction,
         pc' \in {"header", "catch"}, list' = 0 \/ pc' = "catch"
  PROVE  FaithfulInv'
<1>1. DOMAIN typeSymbols' = {} /\ Len(stack') = 0
  BY DEF EmptyMap
<1>2. EntriesFaithful'
  BY <1>1 DEF EntriesFaithful
<1>3. RootsEntered'
  BY DEF RootsEntered, CurrentTypes, Built
<1>. QED
  BY <1>2, <1>3 DEF FaithfulInv

(* Every step of CreateUsymFromFile keeps the types what the PDB describes. *)
LEMMA NextFaithful == TypeInv /\ ArgumentInv /\ FaithfulInv /\ [Next]_vars => FaithfulInv'
<1>. SUFFICES ASSUME TypeInv, ArgumentInv, FaithfulInv, [Next]_vars
              PROVE  FaithfulInv'
  OBVIOUS
<1>1. ASSUME NEW p \in Pdbs, NEW failing \in Failures, InitializeDia(p, failing)
      PROVE  FaithfulInv'
  <2>1. /\ pc = "idle" /\ typeSymbols' = EmptyMap /\ fn' = fn /\ stack' = stack
        /\ pc' \in {"header", "catch"} /\ list' = 0
    BY <1>1 DEF InitializeDia
  <2>2. fn = NoFunction /\ stack = << >>
    BY <2>1 DEF TypeInv, ListInv, StackInv
  <2>. QED
    BY <2>1, <2>2, NothingEntered
<1>2. CASE Throw
  <2>1. fn' = NoFunction /\ pc' = "catch" /\ typeSymbols' = EmptyMap /\ stack' = << >>
    BY <1>2 DEF Throw
  <2>. QED
    BY <2>1, NothingEntered
<1>3. ASSUME pdb' = pdb, CleanPdb /\ EntriesFaithful /\ RootsEntered =>
                           EntriesFaithful' /\ RootsEntered'
      PROVE  FaithfulInv'
  <2>1. CleanPdb' = CleanPdb
    BY <1>3, ReachableOfThePdb
  <2>. QED
    BY <1>3, <2>1 DEF FaithfulInv
<1>. DEFINE Old == CleanPdb /\ EntriesFaithful /\ RootsEntered
            Kept == EntriesFaithful' /\ RootsEntered'
<1>4. CASE BuildHeader
  <2>1. /\ pc = "header" /\ pc' = "types" /\ UNCHANGED <<pdb, list, todo, fn, typeSymbols, stack, ret>>
    BY <1>4 DEF BuildHeader, functionVars, typeVars
  <2>2. fn = NoFunction /\ todo = {}
    BY <2>1 DEF TypeInv, ListInv
  <2>3. Listed(0)' = {}
    BY <2>1, ListedNext, ReachableOfThePdb
  <2>4. Old => RootsEntered'
    BY <2>1, <2>2, <2>3 DEF RootsEntered, CurrentTypes, Built
  <2>. QED
    BY <1>3, <2>1, <2>4, EntriesStay
<1>5. CASE BeginList
  <2>1. /\ pc = "types" /\ todo = {} /\ fn = NoFunction
        /\ UNCHANGED <<pdb, fn, functionSymbols, typeSymbols, stack, ret>>
        /\ list \in 0..Len(TypeLists)
    BY <1>5 DEF BeginList, sessionVars, functionVars, typeVars, TypeInv, ListInv, SessionInv
  <2>2. Entered' = Entered /\ \A n : Listed(n)' = Listed(n)
    BY <2>1, ReachableOfThePdb DEF Entered
  <2>3. CASE list < Len(TypeLists)
    <3>1. /\ pc' = "types" /\ list' = list + 1
          /\ todo' = {o \in pdb.global : Sym(o).tag = TypeLists[list + 1]}
      BY <1>5, <2>1, <2>3 DEF BeginList
    <3>2. Listed(list + 1) = Listed(list) \cup todo'
      BY <2>1, <3>1, ListedNext
    <3>3. Old => RootsEntered'
      BY <2>1, <2>2, <3>1, <3>2 DEF RootsEntered, CurrentTypes, Built
    <3>. QED
      BY <1>3, <2>1, <3>3, EntriesStay
  <2>4. CASE ~(list < Len(TypeLists))
    <3>1. pc' = "functions" /\ todo' = DOMAIN pdb.functions
      BY <1>5, <2>4 DEF BeginList
    <3>2. list = Len(TypeLists)
      BY <2>1, <2>4 DEF TypeLists
    <3>3. FinishedTypes'
      BY <2>1, <3>1 DEF FinishedTypes, Done
    <3>4. Old => RootsEntered'
      BY <2>1, <2>2, <3>1, <3>2, <3>3 DEF RootsEntered, CurrentTypes
    <3>. QED
      BY <1>3, <2>1, <3>4, EntriesStay
  <2>. QED
    BY <2>3, <2>4
<1>6. ASSUME NEW o \in DOMAIN pdb.symbols, BuildTypeList(o)
      PROVE  FaithfulInv'
  <2>1. /\ pc = "types" /\ pc' = pc /\ stack = << >> /\ o \in todo /\ todo' = todo \ {o}
        /\ CreateTypeSymbol(o, << >>) /\ UNCHANGED <<pdb, fn, list>>
        /\ fn = NoFunction /\ list \in 0..Len(TypeLists)
    BY <1>6 DEF BuildTypeList, sessionVars, functionVars, TypeInv, ListInv, SessionInv
  <2>2. ASSUME Old PROVE Kept
    <3>1. o \in Listed(list)
      BY <2>1, <2>2 DEF RootsEntered
    <3>2. o \in Reachable
      BY <2>1, <3>1, ListedRoots, ReachableIsLeast DEF Closed, TypeInv, SessionInv
    <3>3. Creatable(o) /\ o # 0
      BY <1>6, <2>2, <3>2, SymbolAnswers DEF CleanPdb, TypeInv, SessionInv
    <3>4. /\ EntriesFaithful' /\ o \in DOMAIN typeSymbols'
          /\ DOMAIN typeSymbols \subseteq DOMAIN typeSymbols'
      BY <2>1, <2>2, <3>2, <3>3, RootCreateFaithful
    <3>5. Listed(list)' = Listed(list)
      BY <2>1, ReachableOfThePdb
    <3>6. RootsEntered'
      BY <2>1, <2>2, <3>4, <3>5 DEF RootsEntered, Entered, CurrentTypes, Built
    <3>. QED
      BY <3>4, <3>6
  <2>. QED
    BY <1>3, <2>1, <2>2
<1>7. CASE CreateStep
  <2>1. /\ UNCHANGED <<pdb, pc, outcome, list, todo, fn, functionSymbols>>
    BY <1>7, CreateStepKeeps DEF TypeStep, sessionVars, listVars, functionVars
  <2>2. Old => Kept
    BY <1>7, <2>1, CreateStepFaithful, CreateStepGrows, RootsStay DEF Built
  <2>. QED
    BY <1>3, <2>1, <2>2
<1>8. CASE FunctionStep
  <2>1. ASSUME NEW h \in DOMAIN pdb.functions, BeginFunction(h) PROVE FaithfulInv'
    <3>1. UNCHANGED <<pdb, typeSymbols, stack, ret>>
      BY <2>1 DEF BeginFunction, sessionVars, typeVars
    <3>. QED
      BY <1>3, <2>1, <3>1, BeginFunctionTypes, EntriesStay
  <2>2. CASE ReturnType
    <3>1. pdb' = pdb
      BY <2>2 DEF ReturnType, EnsureType, sessionVars
    <3>. QED
      BY <1>3, <2>2, <3>1, ReturnTypeTypes
  <2>3. CASE ThisArgument
    <3>1. pdb' = pdb
      BY <2>3, ThisArgumentEffect DEF EnsureType, sessionVars
    <3>. QED
      BY <1>3, <2>3, <3>1, ThisArgumentTypes
  <2>4. CASE Argument
    <3>1. pdb' = pdb
      BY <2>4, ArgumentEffect DEF EnsureType, sessionVars
    <3>. QED
      BY <1>3, <2>4, <3>1, ArgumentTypes
  <2>5. CASE EndFunction
    <3>1. pdb' = pdb
      BY <2>5 DEF EndFunction, sessionVars
    <3>. QED
      BY <1>3, <2>5, <3>1, EndFunctionTypes
  <2>. QED
    BY <1>8, <2>1, <2>2, <2>3, <2>4, <2>5 DEF FunctionStep
<1>9. CASE ReturnUsym
  <2>1. /\ pc = "functions" /\ pc' = "idle"
        /\ UNCHANGED <<pdb, list, todo, fn, functionSymbols, typeSymbols, stack, ret>>
    BY <1>9 DEF ReturnUsym, functionVars, typeVars
  <2>. QED
    BY <1>3, <2>1, EntriesStay, RootsStay DEF Built
<1>10. CASE Catch
  <2>1. /\ pc' = "idle" /\ outcome' = "nullopt"
        /\ UNCHANGED <<pdb, list, todo, fn, functionSymbols, typeSymbols, stack, ret>>
    BY <1>10 DEF Catch, functionVars, typeVars
  <2>. QED
    BY <1>3, <2>1, EntriesStay, RootsStay DEF Built
<1>11. CASE UNCHANGED vars
  <2>1. UNCHANGED <<pdb, pc, outcome, list, todo, fn, functionSymbols, typeSymbols, stack, ret>>
    BY <1>11 DEF vars, sessionVars, listVars, functionVars, typeVars
  <2>. QED
    BY <1>3, <2>1, EntriesStay, RootsStay DEF Built
<1>. QED
  BY <1>1, <1>2, <1>4, <1>5, <1>6, <1>7, <1>8, <1>9, <1>10, <1>11 DEF Next, BuildStep

(* When nothing is left to do, the map is closed under references. *)
LEMMA FaithfulSuffices == TypeInv /\ MapInv /\ FaithfulInv => TypesFaithful
<1>. SUFFICES ASSUME TypeInv, MapInv, FaithfulInv, Built, CleanPdb
              PROVE  /\ DOMAIN typeSymbols = Reachable
                     /\ \A t \in DOMAIN typeSymbols : Faithful(t, typeSymbols[t])
  BY Zenon DEF TypesFaithful, Faithful
<1>1. /\ EntriesFaithful /\ RootsEntered /\ IsPdb(Names, pdb)
      /\ stack = << >> /\ fn = NoFunction /\ todo = {}
  BY DEF FaithfulInv, Built, TypeInv, SessionInv, ListInv, StackInv
<1>2. \A t \in DOMAIN typeSymbols : Faithful(t, typeSymbols[t])
  <2>1. Len(stack) = 0
    BY <1>1
  <2>. QED
    BY <1>1, <2>1 DEF EntriesFaithful
<1>3. DOMAIN typeSymbols \subseteq Reachable
  BY <1>1 DEF EntriesFaithful
<1>4. Roots \subseteq DOMAIN typeSymbols
  <2>1. \A o \in Roots : o # 0
    BY <1>1, RootsTyped DEF IsPdb
  <2>2. ASSUME NEW o \in pdb.global, \E i \in DOMAIN TypeLists : TypeLists[i] = Sym(o).tag
        PROVE  o \in Entered
    <3>1. o \in Listed(Len(TypeLists))
      BY <2>2 DEF Listed, TypeLists
    <3>. QED
      BY <1>1, <3>1 DEF RootsEntered
  <2>3. ASSUME NEW h \in DOMAIN pdb.functions, pdb.functions[h].hasType
        PROVE  FunctionTypes(pdb.functions[h]) \subseteq Entered
    BY <1>1, <2>3 DEF RootsEntered, FinishedTypes, Done
  <2>. QED
    BY <2>1, <2>2, <2>3 DEF Roots, Entered
<1>5. ASSUME NEW o \in DOMAIN typeSymbols, NEW q \in Successors(o)
      PROVE  q \in DOMAIN typeSymbols
  <2>. DEFINE s == Sym(o)
  <2>1. Creatable(q) /\ q \in DOMAIN pdb.symbols /\ q # 0
    BY <1>1, <1>5, EnteredCreatable, ReachableIsLeast, SymbolAnswers
  <2>2. q \in TypeReferences(typeSymbols[o])
    <3>1. PICK name : typeSymbols[o] = [DescribedType(o) EXCEPT !.name = name]
      BY <1>2 DEF Faithful
    <3>2. /\ typeSymbols[o].typedefSource = DescribedType(o).typedefSource
          /\ typeSymbols[o].fields = DescribedType(o).fields
      BY <3>1 DEF DescribedType
    <3>3. CASE s.tag = "SymTagTypedef"
      <4>1. q = s.type /\ ~IsFunctionType(s.type)
        BY <3>3 DEF Successors
      <4>2. DescribedType(o).typedefSource = s.type
        BY <3>3, <4>1 DEF DescribedType
      <4>. QED
        BY <3>2, <4>1, <4>2 DEF TypeReferences
    <3>4. CASE s.tag \in {"SymTagUDT", "SymTagEnum"}
      <4>1. PICK i \in DOMAIN s.members : q = s.members[i].type
        BY <3>4 DEF Successors
      <4>2. DescribedType(o).fields = [j \in DOMAIN s.members |-> DescribedField(s, j)]
        BY DEF DescribedType
      <4>3. DescribedField(s, i).underlyingTypeId = s.members[i].type
        BY DEF DescribedField, Field
      <4>. QED
        BY <3>2, <4>1, <4>2, <4>3 DEF TypeReferences
    <3>5. CASE s.tag \notin {"SymTagTypedef", "SymTagUDT", "SymTagEnum"}
      BY <3>5 DEF Successors
    <3>. QED
      BY <3>3, <3>4, <3>5
  <2>3. Resolves(q)
    BY <2>2 DEF MapInv, ReferenceInv, SymbolResolves
  <2>. QED
    BY <2>1, <2>3 DEF Resolves, Creatable
<1>6. Closed(DOMAIN typeSymbols)
  BY <1>4, <1>5 DEF Closed
<1>. QED
  BY <1>1, <1>2, <1>3, <1>6, ReachableIsLeast

(* Before the first call nothing is entered and no function is read. *)
LEMMA InitContents == Init => FaithfulInv /\ ArgumentInv
<1>1. Init => FaithfulInv
  <2>. SUFFICES ASSUME Init PROVE EntriesFaithful /\ RootsEntered
    BY DEF FaithfulInv
  <2>1. DOMAIN typeSymbols = {} /\ Len(stack) = 0 /\ stack = << >>
    BY DEF Init, EmptyMap
  <2>. QED
    BY <2>1 DEF Init, EntriesFaithful, RootsEntered, CurrentTypes, Built
<1>2. Init => ArgumentInv
  BY DEF Init, ArgumentInv, CurrentFunction, Built
<1>. QED
  BY <1>1, <1>2

(* For every PDB without unreadable symbols, whatever order the SDK lists its
   symbols in and whichever type leads to which first, the map handed out has
   exactly the types that can be reached and each is what the PDB says of it:
   recursion, re-creation and anonymous unions included (CreateTypeSymbol and
   all it calls, BuildTypeList, BuildFunctionList). *)
THEOREM TypesAlwaysFaithful == Spec => []TypesFaithful
  BY InitContents, NextFaithful, NextArguments, TypeInvHolds, MapInvHolds, FaithfulSuffices,
     PTL DEF Spec

-----------------------------------------------------------------------------
(* What is handed over *)

(* Symbols that are those of the PDB, in which a pointer can be told by its
   name from all but the types that the PDB itself gives that name. *)
IsDescription(types, functions) ==
  /\ DOMAIN types = Reachable
  /\ \A t \in DOMAIN types :
       LET symbol == types[t]
           described == DescribedType(t)
       IN  /\ symbol.type = "kPointer" <=> Sym(t).tag = "SymTagPointerType"
           /\ IF Sym(t).tag = "SymTagPointerType"
              THEN \A s \in DOMAIN types \ {t} :
                     types[s].name = symbol.name =>
                       Sym(s).tag # "SymTagPointerType" /\ Sym(s).name = symbol.name
              ELSE symbol.name = described.name
           /\ symbol.typedefSource = described.typedefSource
           /\ symbol.fields = described.fields
           /\ TypeReferences(symbol) \subseteq DOMAIN types \cup {0}
  /\ \A h \in DOMAIN pdb.functions :
       LET f == pdb.functions[h]
       IN  f.hasType =>
             /\ f.id \in DOMAIN functions
             /\ functions[f.id].returnTypeId = f.returnType
             /\ f.returnType \in DOMAIN types \cup {0}

(* The name of a base type is none that GeneratePointerName makes up. *)
LEMMA BaseNameNotGenerated ==
  ASSUME NEW b, NEW size \in Nat, NEW n
  PROVE  GetBaseName(b, size) # PointerName(n)
<1>1. \A a, c : <<a>> # <<"pUnk", n>> /\ (a # "pUnk" => <<a, c>> # <<"pUnk", n>>)
  OBVIOUS
<1>. QED
  BY <1>1 DEF GetBaseName, PointerName

(* What is handed over for a PDB without unreadable symbols is a description
   of it. *)
LEMMA HandedOver ==
  ASSUME TypeInv, MapInv, FaithfulInv, Built, CleanPdb
  PROVE  IsDescription(typeSymbols, functionSymbols)
<1>1. /\ EntriesFaithful /\ RootsEntered /\ IsPdb(Names, pdb)
      /\ fn = NoFunction /\ todo = {} /\ s_counter \in Nat
  BY DEF FaithfulInv, Built, TypeInv, SessionInv, ListInv, StackInv
<1>2. /\ DOMAIN typeSymbols = Reachable
      /\ \A t \in DOMAIN typeSymbols : Faithful(t, typeSymbols[t])
  BY FaithfulSuffices DEF TypesFaithful, Faithful
<1>3. ASSUME NEW t \in DOMAIN typeSymbols
      PROVE  /\ typeSymbols[t].type = DescribedType(t).type
             /\ typeSymbols[t].typedefSource = DescribedType(t).typedefSource
             /\ typeSymbols[t].fields = DescribedType(t).fields
             /\ Sym(t).tag # "SymTagPointerType" => typeSymbols[t].name = DescribedType(t).name
             /\ Creatable(t) /\ t \in DOMAIN pdb.symbols
             /\ Sym(t).tag \in SymTags
             /\ Sym(t).tag = "SymTagUDT" => Sym(t).kind \in UdtKinds
             /\ Sym(t).tag = "SymTagBaseType" => Sym(t).kind \in BasicTypes
             /\ Sym(t).name \in Names /\ Sym(t).length \in Nat
  <2>1. Creatable(t) /\ t \in DOMAIN pdb.symbols
    BY <1>1, <1>2, ReachableIsLeast DEF CleanPdb
  <2>2. Sym(t) \in DiaTypes(Names, DOMAIN pdb.symbols) /\ AnswersItsTag(Sym(t))
    BY <1>1, <2>1 DEF IsPdb, Sym
  <2>3. /\ Sym(t).tag \in SymTags \cup {"fail"} /\ Sym(t).name \in Names
        /\ Sym(t).length \in Nat
    BY <2>2 DEF DiaTypes
  <2>4. PICK name : /\ typeSymbols[t] = [DescribedType(t) EXCEPT !.name = name]
                    /\ Sym(t).tag # "SymTagPointerType" => name = DescribedType(t).name
    BY <1>2, Zenon DEF Faithful
  <2>5. /\ typeSymbols[t].type = DescribedType(t).type
        /\ typeSymbols[t].typedefSource = DescribedType(t).typedefSource
        /\ typeSymbols[t].fields = DescribedType(t).fields
        /\ typeSymbols[t].name = name
    BY <2>4 DEF DescribedType
  <2>6. /\ Sym(t).tag = "SymTagUDT" => Sym(t).kind \in UdtKinds
        /\ Sym(t).tag = "SymTagBaseType" => Sym(t).kind \in BasicTypes
    BY <2>1, <2>2 DEF AnswersItsTag, Creatable
  <2>7. Sym(t).tag \in SymTags
    BY <2>1, <2>3 DEF Creatable
  <2>. QED
    BY <2>1, <2>3, <2>4, <2>5, <2>6, <2>7
<1>4. ASSUME NEW t \in DOMAIN typeSymbols
      PROVE  typeSymbols[t].type = "kPointer" <=> Sym(t).tag = "SymTagPointerType"
  <2>1. CASE Sym(t).tag = "SymTagUDT"
    <3>1. DescribedType(t).type = UdtType[Sym(t).kind]
      BY <2>1 DEF DescribedType
    <3>2. UdtType[Sym(t).kind] # "kPointer"
      BY <1>3, <2>1 DEF UdtType, UdtKinds
    <3>. QED
      BY <1>3, <2>1, <3>1, <3>2
  <2>2. CASE Sym(t).tag # "SymTagUDT"
    <3>1. Sym(t).tag \in {"SymTagBaseType", "SymTagEnum", "SymTagPointerType", "SymTagTypedef",
                          "SymTagArrayType"}
      BY <1>3, <2>2 DEF SymTags, Creatable
    <3>2. DescribedType(t).type = "kPointer" <=> Sym(t).tag = "SymTagPointerType"
      BY <3>1 DEF DescribedType
    <3>. QED
      BY <1>3, <3>2
  <2>. QED
    BY <2>1, <2>2
<1>5. ASSUME NEW t \in DOMAIN typeSymbols, Sym(t).tag = "SymTagPointerType",
             NEW s \in DOMAIN typeSymbols \ {t}, typeSymbols[s].name = typeSymbols[t].name
      PROVE  Sym(s).tag # "SymTagPointerType" /\ Sym(s).name = typeSymbols[t].name
  <2>1. PICK n \in Nat : typeSymbols[t].name = PointerName(n)
    BY <1>1, <1>4, <1>5 DEF MapInv, PointerInv
  <2>2. CASE Sym(s).tag = "SymTagPointerType"
    BY <1>4, <1>5, <2>2 DEF MapInv, PointerNamesDistinct
  <2>3. CASE Sym(s).tag = "SymTagBaseType"
    <3>1. typeSymbols[s].name = GetBaseName(Sym(s).kind, Sym(s).length)
      BY <1>3, <2>3 DEF DescribedType
    <3>2. Sym(s).length \in Nat
      BY <1>3
    <3>. QED
      BY <1>5, <2>1, <3>1, <3>2, BaseNameNotGenerated
  <2>4. CASE Sym(s).tag \notin {"SymTagPointerType", "SymTagBaseType"}
    <3>1. typeSymbols[s].name = Sym(s).name
      BY <1>3, <2>4 DEF DescribedType
    <3>. QED
      BY <1>5, <2>4, <3>1
  <2>. QED
    BY <2>2, <2>3, <2>4
<1>6. ASSUME NEW t \in DOMAIN typeSymbols, NEW id \in TypeReferences(typeSymbols[t]), id # 0
      PROVE  id \in DOMAIN typeSymbols
  <2>. DEFINE s == Sym(t)
  <2>1. id \in Successors(t)
    <3>1. CASE id = typeSymbols[t].typedefSource
      <4>1. s.tag = "SymTagTypedef" /\ id = s.type /\ ~IsFunctionType(s.type)
        BY <1>3, <1>6, <3>1 DEF DescribedType
      <4>. QED
        BY <1>6, <4>1 DEF Successors
    <3>2. ASSUME NEW i \in DOMAIN typeSymbols[t].fields,
                 id = typeSymbols[t].fields[i].underlyingTypeId
          PROVE  id \in Successors(t)
      <4>1. typeSymbols[t].fields = [j \in DOMAIN s.members |-> DescribedField(s, j)]
        BY <1>3 DEF DescribedType
      <4>2. i \in DOMAIN s.members /\ id = DescribedField(s, i).underlyingTypeId
        BY <3>2, <4>1
      <4>3. id = s.members[i].type
        BY <4>2 DEF DescribedField, Field
      <4>4. s.tag \in {"SymTagUDT", "SymTagEnum"}
        <5>1. AnswersItsTag(s)
          BY <1>1, <1>3 DEF IsPdb, Sym
        <5>2. s.members # << >>
          BY <4>2
        <5>. QED
          BY <5>1, <5>2 DEF AnswersItsTag
      <4>. QED
        BY <1>6, <4>2, <4>3, <4>4 DEF Successors
    <3>. QED
      BY <3>1, <3>2 DEF TypeReferences
  <2>. QED
    BY <1>1, <1>2, <2>1, ReachableIsLeast DEF Closed
<1>7. ASSUME NEW h \in DOMAIN pdb.functions, pdb.functions[h].hasType
      PROVE  LET f == pdb.functions[h]
             IN  /\ f.id \in DOMAIN functionSymbols
                 /\ functionSymbols[f.id].returnTypeId = f.returnType
                 /\ f.returnType \in DOMAIN typeSymbols \cup {0}
  BY <1>1, <1>7 DEF RootsEntered, FinishedTypes, Done, FunctionTypes, Entered
<1>. QED
  BY <1>2, <1>3, <1>4, <1>5, <1>6, <1>7 DEF IsDescription
=============================================================================
