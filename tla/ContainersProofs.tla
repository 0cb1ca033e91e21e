-------------------------- MODULE ContainersProofs --------------------------
(***************************************************************************)
(* Proofs about the containers of RECore, for any keys, values and numbers *)
(* of calls.  RETree stays a search tree, walks never lose the key they    *)
(* look for, and the tree implements KeyMap.  REArray keeps its elements,  *)
(* and what Partition has split is in its place.  REList holds what was    *)
(* inserted and not removed as long as its head is not removed.            *)
(***************************************************************************)
EXTENDS MCContainers, TLAPS, SequenceTheorems, FiniteSetTheorems, WellFoundedInduction

-----------------------------------------------------------------------------
(* RETree *)

(* Every node is on its own way from the head, which begins at node 1, and
   nothing is above that. *)
Rooted ==
  /\ \A n \in 1..count : n \in above[n] /\ 1 \in above[n]
  /\ count # 0 => above[1] = {1}

(* A link extends the way to a node by the node it leads to. *)
LinksExtend ==
  \A n \in 1..count : \A c \in {nodes[n].pLeft, nodes[n].pRight} \ {0} :
    above[c] = above[n] \cup {c}

UniqueKeys ==
  \A n, m \in 1..count : nodes[n].key = nodes[m].key => n = m

(* The key of a walk belongs where the walk has gone. *)
PathIsRight ==
  call # Idle =>
    \A m \in above[call.at] \ {call.at} :
      \/ call.key < nodes[m].key /\ nodes[m].pLeft \in above[call.at]
      \/ call.key > nodes[m].key /\ nodes[m].pRight \in above[call.at]

(* The inductive invariant. *)
TreeInv ==
  /\ TypeOK
  /\ SearchOrder
  /\ WalkIsRight
  /\ Rooted
  /\ LinksExtend
  /\ UniqueKeys
  /\ PathIsRight

-----------------------------------------------------------------------------
(* A call in progress is typed and is at a node. *)
LEMMA CallTyped ==
  ASSUME TypeOK, call # Idle
  PROVE  /\ call.at \in 1..count
         /\ call.key \in Keys /\ call.key \in Nat
         /\ call.op = "Insert" => call.value \in Values
         /\ nodes[call.at].key \in Nat
         /\ nodes[call.at].pLeft \in 0..count /\ nodes[call.at].pRight \in 0..count
<1>1. /\ call.at \in 1..count
      /\ call.key \in Keys
      /\ call.op = "Insert" => call.value \in Values
  BY DEF TypeOK
<1>. QED
  BY <1>1, KeysAssumption DEF TypeOK

(* Where a walk can go no further and is not at its key, the key is in no
   node: it would be below on the side of the missing link. *)
LEMMA KeyIsAbsent ==
  ASSUME TreeInv, call # Idle, NextAt = 0, call.key # Here.key
  PROVE  \A n \in 1..count : nodes[n].key # call.key
<1>. SUFFICES ASSUME NEW n \in 1..count, nodes[n].key = call.key
              PROVE  FALSE
  OBVIOUS
<1>1. /\ call.at \in 1..count /\ call.key \in Nat /\ nodes[call.at].key \in Nat
  BY CallTyped DEF TreeInv
<1>2. call.at \in above[n] /\ call.at # n
  BY DEF TreeInv, WalkIsRight, Here
<1>3. 0 \notin above[n]
  BY DEF TreeInv, TypeOK
<1>4. \/ nodes[n].key < nodes[call.at].key /\ nodes[call.at].pLeft \in above[n]
      \/ nodes[n].key > nodes[call.at].key /\ nodes[call.at].pRight \in above[n]
  BY <1>2 DEF TreeInv, SearchOrder
<1>5. CASE nodes[n].key < nodes[call.at].key /\ nodes[call.at].pLeft \in above[n]
  <2>1. NextAt = nodes[call.at].pLeft
    BY <1>1, <1>5 DEF NextAt, Here
  <2>. QED
    BY <1>3, <1>5, <2>1
<1>6. CASE nodes[n].key > nodes[call.at].key /\ nodes[call.at].pRight \in above[n]
  <2>1. NextAt = nodes[call.at].pRight
    BY <1>1, <1>6 DEF NextAt, Here
  <2>. QED
    BY <1>3, <1>6, <2>1
<1>. QED
  BY <1>4, <1>5, <1>6

-----------------------------------------------------------------------------
(* An empty tree satisfies the invariant. *)
LEMMA InitInv == Init => TreeInv
<1>. SUFFICES ASSUME Init PROVE TreeInv
  OBVIOUS
<1>1. count = 0 /\ 1..count = {}
  BY DEF Init
<1>2. TypeOK
  BY <1>1 DEF Init, TypeOK
<1>. QED
  BY <1>1, <1>2 DEF Init, TreeInv, SearchOrder, WalkIsRight, Rooted, LinksExtend,
     UniqueKeys, PathIsRight

(* The first node becomes the head. *)
LEMMA FirstInsertInv ==
  ASSUME TreeInv, NEW key \in Keys, NEW value \in Values, count = 0,
         NewNode(nodes, key, value, {}), call = Idle, call' = Idle, answer' = answer
  PROVE  TreeInv'
<1>1. count' = 1 /\ 1..count' = {1}
  BY DEF NewNode
<1>2. nodes' = [n \in {1} |-> Node(key, value)]
  BY <1>1 DEF NewNode
<1>3. above' = [n \in {1} |-> {1}]
  BY <1>1 DEF NewNode
<1>4. TypeOK'
  BY <1>1, <1>2, <1>3 DEF TypeOK, TreeInv, Node
<1>. QED
  BY <1>1, <1>2, <1>3, <1>4 DEF TreeInv, SearchOrder, WalkIsRight, Rooted, LinksExtend,
     UniqueKeys, PathIsRight, Node

(* A walk begins at the head, which is above every node. *)
LEMMA BeginInv ==
  ASSUME TreeInv, count # 0, UNCHANGED <<nodes, count, above>>, answer' = answer,
         call'.at = 1, call' # Idle,
         call' \in [op: {"Insert"}, key: Keys, value: Values, at: 1..count]
                   \cup [op: {"Lookup"}, key: Keys, value: {Null}, at: 1..count]
  PROVE  TreeInv'
<1>1. TypeOK'
  BY DEF TreeInv, TypeOK
<1>2. above[1] = {1}
  BY DEF TreeInv, Rooted
<1>. QED
  BY <1>1, <1>2 DEF TreeInv, SearchOrder, WalkIsRight, Rooted, LinksExtend,
     UniqueKeys, PathIsRight

(* A call that returns without a new node, or makes none. *)
LEMMA EndInv ==
  ASSUME TreeInv, UNCHANGED <<nodes, count, above>>, call' = Idle,
         answer' \in Values \cup {Null}
  PROVE  TreeInv'
<1>1. TypeOK'
  BY DEF TreeInv, TypeOK
<1>2. SearchOrder'
  BY DEF TreeInv, SearchOrder
<1>3. WalkIsRight' /\ PathIsRight'
  BY DEF WalkIsRight, PathIsRight
<1>4. Rooted'
  BY DEF TreeInv, Rooted
<1>5. LinksExtend'
  BY DEF TreeInv, LinksExtend
<1>6. UniqueKeys'
  BY DEF TreeInv, UniqueKeys
<1>. QED
  BY <1>1, <1>2, <1>3, <1>4, <1>5, <1>6 DEF TreeInv

(* A step down goes to the side the key belongs. *)
LEMMA DescendInv ==
  ASSUME TreeInv, Descend
  PROVE  TreeInv'
<1>. DEFINE at == call.at
            next == NextAt
<1>1. /\ call # Idle
      /\ call' = [call EXCEPT !.at = next] /\ next # 0
      /\ UNCHANGED <<nodes, count, answer, above>>
  BY DEF Descend
<1>2. /\ at \in 1..count /\ call.key \in Nat /\ nodes[at].key \in Nat
      /\ nodes[at].pLeft \in 0..count /\ nodes[at].pRight \in 0..count
  BY <1>1, CallTyped DEF TreeInv
<1>3. \/ call.key > nodes[at].key /\ next = nodes[at].pRight
      \/ call.key < nodes[at].key /\ next = nodes[at].pLeft
  BY <1>1, <1>2 DEF NextAt, Here
<1>4. next \in 1..count /\ above[next] = above[at] \cup {next}
  BY <1>1, <1>2, <1>3 DEF TreeInv, LinksExtend
<1>. HIDE DEF next
<1>5. /\ call'.at = next /\ call'.key = call.key /\ call' # Idle
      /\ TypeOK'
  BY <1>1, <1>4 DEF TreeInv, TypeOK, Idle
<1>6. PathIsRight'
  <2>. SUFFICES ASSUME NEW m \in above[next] \ {next}
                PROVE  \/ call.key < nodes[m].key /\ nodes[m].pLeft \in above[next]
                       \/ call.key > nodes[m].key /\ nodes[m].pRight \in above[next]
    BY <1>1, <1>5 DEF PathIsRight
  <2>1. CASE m = at
    BY <1>3, <1>4, <2>1
  <2>2. CASE m # at
    BY <1>1, <1>4, <2>2 DEF TreeInv, PathIsRight
  <2>. QED
    BY <2>1, <2>2
<1>7. WalkIsRight'
  <2>. SUFFICES ASSUME NEW n \in 1..count, nodes[n].key = call.key
                PROVE  next \in above[n]
    BY <1>1, <1>5 DEF WalkIsRight
  <2>1. at \in above[n] /\ at # n
    BY <1>1, <1>2, <1>3 DEF TreeInv, WalkIsRight
  <2>2. \/ nodes[n].key < nodes[at].key /\ nodes[at].pLeft \in above[n]
        \/ nodes[n].key > nodes[at].key /\ nodes[at].pRight \in above[n]
    BY <2>1 DEF TreeInv, SearchOrder
  <2>. QED
    BY <1>2, <1>3, <2>2
<1>. QED
  BY <1>1, <1>5, <1>6, <1>7 DEF TreeInv, SearchOrder, Rooted, LinksExtend, UniqueKeys

(* What EndInsert does when the key is new. *)
LEMMA Linking ==
  ASSUME TreeInv, EndInsert, call.key # Here.key
  PROVE  /\ count' = count + 1
         /\ nodes' = [n \in 1..(count + 1) |->
                        IF n = count + 1 THEN Node(call.key, call.value)
                        ELSE Linked(count + 1)[n]]
         /\ above' = [n \in 1..(count + 1) |->
                        IF n = count + 1 THEN above[call.at] \cup {n} ELSE above[n]]
         /\ Linked(count + 1) \in [1..count -> [key: Keys, value: Values,
                                    pLeft: 0..(count + 1), pRight: 0..(count + 1)]]
         /\ \A n \in 1..count :
              /\ Linked(count + 1)[n].key = nodes[n].key
              /\ Linked(count + 1)[n].value = nodes[n].value
              /\ n # call.at => Linked(count + 1)[n] = nodes[n]
         /\ \/ /\ call.key > nodes[call.at].key /\ nodes[call.at].pRight = 0
               /\ Linked(count + 1)[call.at].pRight = count + 1
               /\ Linked(count + 1)[call.at].pLeft = nodes[call.at].pLeft
            \/ /\ call.key < nodes[call.at].key /\ nodes[call.at].pLeft = 0
               /\ Linked(count + 1)[call.at].pLeft = count + 1
               /\ Linked(count + 1)[call.at].pRight = nodes[call.at].pRight
<1>1. /\ call # Idle /\ NextAt = 0
      /\ NewNode(Linked(count + 1), call.key, call.value, above[call.at])
  BY DEF EndInsert, Idle
<1>2. /\ call.at \in 1..count /\ call.key \in Nat /\ nodes[call.at].key \in Nat
  BY <1>1, CallTyped DEF TreeInv
<1>3. /\ count \in Nat
      /\ nodes \in [1..count -> [key: Keys, value: Values, pLeft: 0..count, pRight: 0..count]]
  BY DEF TreeInv, TypeOK
<1>4. nodes \in [1..count -> [key: Keys, value: Values, pLeft: 0..(count + 1), pRight: 0..(count + 1)]]
  BY <1>3
<1>5. /\ count' = count + 1
      /\ nodes' = [n \in 1..(count + 1) |->
                     IF n = count + 1 THEN Node(call.key, call.value)
                     ELSE Linked(count + 1)[n]]
      /\ above' = [n \in 1..(count + 1) |->
                     IF n = count + 1 THEN above[call.at] \cup {n} ELSE above[n]]
  BY <1>1 DEF NewNode
<1>6. CASE call.key > nodes[call.at].key
  <2>1. Linked(count + 1) = [nodes EXCEPT ![call.at] =
                              [nodes[call.at] EXCEPT !.pRight = count + 1]]
    BY <1>6 DEF Linked, Here
  <2>2. nodes[call.at].pRight = 0
    BY <1>1, <1>6 DEF NextAt, Here
  <2>3. Linked(count + 1) \in [1..count -> [key: Keys, value: Values,
                                pLeft: 0..(count + 1), pRight: 0..(count + 1)]]
    <3>1. [nodes[call.at] EXCEPT !.pRight = count + 1] \in
            [key: Keys, value: Values, pLeft: 0..(count + 1), pRight: 0..(count + 1)]
      BY <1>2, <1>3
    <3>. QED
      BY <1>2, <1>4, <2>1, <3>1
  <2>4. /\ Linked(count + 1)[call.at] = [nodes[call.at] EXCEPT !.pRight = count + 1]
        /\ \A n \in 1..count : n # call.at => Linked(count + 1)[n] = nodes[n]
    BY <1>2, <1>3, <2>1
  <2>5. /\ Linked(count + 1)[call.at].pRight = count + 1
        /\ Linked(count + 1)[call.at].pLeft = nodes[call.at].pLeft
        /\ Linked(count + 1)[call.at].key = nodes[call.at].key
        /\ Linked(count + 1)[call.at].value = nodes[call.at].value
    BY <1>2, <1>3, <2>4
  <2>. QED
    BY <1>5, <1>6, <2>2, <2>3, <2>4, <2>5
<1>7. CASE call.key < nodes[call.at].key
  <2>1. Linked(count + 1) = [nodes EXCEPT ![call.at] =
                              [nodes[call.at] EXCEPT !.pLeft = count + 1]]
    BY <1>2, <1>7 DEF Linked, Here
  <2>2. nodes[call.at].pLeft = 0
    BY <1>1, <1>2, <1>7 DEF NextAt, Here
  <2>3. Linked(count + 1) \in [1..count -> [key: Keys, value: Values,
                                pLeft: 0..(count + 1), pRight: 0..(count + 1)]]
    <3>1. [nodes[call.at] EXCEPT !.pLeft = count + 1] \in
            [key: Keys, value: Values, pLeft: 0..(count + 1), pRight: 0..(count + 1)]
      BY <1>2, <1>3
    <3>. QED
      BY <1>2, <1>4, <2>1, <3>1
  <2>4. /\ Linked(count + 1)[call.at] = [nodes[call.at] EXCEPT !.pLeft = count + 1]
        /\ \A n \in 1..count : n # call.at => Linked(count + 1)[n] = nodes[n]
    BY <1>2, <1>3, <2>1
  <2>5. /\ Linked(count + 1)[call.at].pLeft = count + 1
        /\ Linked(count + 1)[call.at].pRight = nodes[call.at].pRight
        /\ Linked(count + 1)[call.at].key = nodes[call.at].key
        /\ Linked(count + 1)[call.at].value = nodes[call.at].value
    BY <1>2, <1>3, <2>4
  <2>. QED
    BY <1>5, <1>7, <2>2, <2>3, <2>4, <2>5
<1>. QED
  BY <1>2, <1>6, <1>7 DEF Here

(* A new node, linked where the walk ended, satisfies the invariant. *)
LEMMA LinkInv ==
  ASSUME TreeInv, EndInsert, call.key # Here.key
  PROVE  TreeInv'
<1>. DEFINE at == call.at
            new == count + 1
            tree == Linked(count + 1)
<1>1. call # Idle /\ call' = Idle /\ answer' = answer /\ NextAt = 0
  BY DEF EndInsert, Idle
<1>2. /\ count \in Nat /\ at \in 1..count /\ call.key \in Keys /\ call.key \in Nat
      /\ call.value \in Values /\ new \notin 1..count /\ 1..new = (1..count) \cup {new}
      /\ above \in [1..count -> SUBSET (1..count)]
      /\ nodes[at].key \in Nat
  <2>1. TypeOK
    BY DEF TreeInv
  <2>2. count \in Nat /\ above \in [1..count -> SUBSET (1..count)]
    BY <2>1 DEF TypeOK
  <2>3. /\ at \in 1..count /\ call.key \in Keys /\ call.key \in Nat
        /\ call.value \in Values /\ nodes[at].key \in Nat
    BY <1>1, <2>1, CallTyped DEF EndInsert
  <2>4. new \notin 1..count /\ 1..new = (1..count) \cup {new}
    BY <2>2
  <2>. QED
    BY <2>2, <2>3, <2>4
<1>3. /\ count' = new
      /\ nodes' = [n \in 1..new |-> IF n = new THEN Node(call.key, call.value) ELSE tree[n]]
      /\ above' = [n \in 1..new |-> IF n = new THEN above[at] \cup {n} ELSE above[n]]
      /\ tree \in [1..count -> [key: Keys, value: Values, pLeft: 0..new, pRight: 0..new]]
      /\ \A n \in 1..count : tree[n].key = nodes[n].key /\ (n # at => tree[n] = nodes[n])
  BY Linking
<1>4. \/ /\ call.key > nodes[at].key /\ nodes[at].pRight = 0
         /\ tree[at].pRight = new /\ tree[at].pLeft = nodes[at].pLeft
      \/ /\ call.key < nodes[at].key /\ nodes[at].pLeft = 0
         /\ tree[at].pLeft = new /\ tree[at].pRight = nodes[at].pRight
  BY Linking
<1>5. \A n \in 1..count : nodes[n].key # call.key
  BY <1>1, KeyIsAbsent
<1>. HIDE DEF at, new, tree
<1>6. /\ nodes'[new] = Node(call.key, call.value)
      /\ above'[new] = above[at] \cup {new}
      /\ \A n \in 1..count : nodes'[n] = tree[n] /\ above'[n] = above[n]
  BY <1>2, <1>3
<1>7. TypeOK'
  <2>1. Node(call.key, call.value) \in [key: Keys, value: Values, pLeft: 0..new, pRight: 0..new]
    BY <1>2 DEF Node, new
  <2>2. nodes' \in [1..new -> [key: Keys, value: Values, pLeft: 0..new, pRight: 0..new]]
    BY <1>2, <1>3, <2>1
  <2>3. above' \in [1..new -> SUBSET (1..new)]
    BY <1>2, <1>3
  <2>4. new \in Nat
    BY <1>2 DEF new
  <2>. QED
    BY <1>1, <1>3, <2>2, <2>3, <2>4 DEF TypeOK, TreeInv
<1>8. SearchOrder'
  <2>. SUFFICES ASSUME NEW n \in 1..new, NEW m \in above'[n] \ {n}
                PROVE  \/ nodes'[n].key < nodes'[m].key /\ nodes'[m].pLeft \in above'[n]
                       \/ nodes'[n].key > nodes'[m].key /\ nodes'[m].pRight \in above'[n]
    BY <1>3 DEF SearchOrder
  <2>1. CASE n = new
    <3>1. m \in above[at] /\ m \in 1..count /\ nodes'[n].key = call.key
      BY <1>2, <1>6, <2>1 DEF Node
    <3>2. CASE m = at
      <4>1. nodes'[m].key = nodes[at].key /\ nodes'[m] = tree[at] /\ new \in above'[n]
        BY <1>2, <1>3, <1>6, <2>1, <3>2
      <4>. QED
        BY <1>4, <3>1, <4>1
    <3>3. CASE m # at
      <4>1. \/ call.key < nodes[m].key /\ nodes[m].pLeft \in above[at]
            \/ call.key > nodes[m].key /\ nodes[m].pRight \in above[at]
        BY <1>1, <3>1, <3>3 DEF TreeInv, PathIsRight, at
      <4>2. nodes'[m] = nodes[m] /\ above[at] \subseteq above'[n]
        BY <1>3, <1>6, <2>1, <3>1, <3>3
      <4>. QED
        BY <3>1, <4>1, <4>2
    <3>. QED
      BY <3>2, <3>3
  <2>2. CASE n # new
    <3>1. n \in 1..count /\ above'[n] = above[n] /\ m \in above[n] \ {n} /\ m \in 1..count
      BY <1>2, <1>6, <2>2
    <3>2. \/ nodes[n].key < nodes[m].key /\ nodes[m].pLeft \in above[n]
          \/ nodes[n].key > nodes[m].key /\ nodes[m].pRight \in above[n]
      BY <3>1 DEF TreeInv, SearchOrder
    <3>3. nodes'[n].key = nodes[n].key /\ nodes'[m].key = nodes[m].key
      BY <1>3, <1>6, <3>1
    <3>4. 0 \notin above[n]
      BY <1>2, <3>1
    <3>5. CASE m = at
      <4>1. nodes[at].pLeft # 0 => nodes'[at].pLeft = nodes[at].pLeft
        BY <1>2, <1>4, <1>6
      <4>2. nodes[at].pRight # 0 => nodes'[at].pRight = nodes[at].pRight
        BY <1>2, <1>4, <1>6
      <4>. QED
        BY <3>1, <3>2, <3>3, <3>4, <3>5, <4>1, <4>2
    <3>6. CASE m # at
      BY <1>3, <1>6, <3>1, <3>2, <3>3, <3>6
    <3>. QED
      BY <3>5, <3>6
  <2>. QED
    BY <2>1, <2>2
<1>9. Rooted'
  <2>1. \A n \in 1..new : n \in above'[n] /\ 1 \in above'[n]
    BY <1>2, <1>6 DEF TreeInv, Rooted
  <2>2. above'[1] = {1}
    BY <1>2, <1>6 DEF TreeInv, Rooted
  <2>. QED
    BY <1>3, <2>1, <2>2 DEF Rooted
<1>10. LinksExtend'
  <2>. SUFFICES ASSUME NEW n \in 1..new,
                       NEW c \in {nodes'[n].pLeft, nodes'[n].pRight} \ {0}
                PROVE  above'[c] = above'[n] \cup {c}
    BY <1>3 DEF LinksExtend
  <2>1. n \in 1..count
    BY <1>2, <1>6 DEF Node
  <2>2. CASE c = new
    <3>1. ~(c \in {nodes[n].pLeft, nodes[n].pRight})
      BY <1>2, <2>1, <2>2 DEF TreeInv, TypeOK
    <3>2. n = at
      BY <1>3, <1>6, <2>1, <3>1
    <3>. QED
      BY <1>2, <1>6, <2>2, <3>2
  <2>3. CASE c # new
    <3>1. c \in {nodes[n].pLeft, nodes[n].pRight} \ {0}
      <4>1. nodes'[n] = tree[n] /\ c \in {tree[n].pLeft, tree[n].pRight} \ {0}
        BY <1>6, <2>1
      <4>2. CASE n = at
        BY <1>4, <2>3, <4>1, <4>2
      <4>3. CASE n # at
        BY <1>3, <2>1, <4>1, <4>3
      <4>. QED
        BY <4>2, <4>3
    <3>2. c \in 1..count
      BY <2>1, <3>1 DEF TreeInv, TypeOK
    <3>3. above[c] = above[n] \cup {c}
      BY <2>1, <3>1 DEF TreeInv, LinksExtend
    <3>4. above'[c] = above[c] /\ above'[n] = above[n]
      BY <1>6, <2>1, <3>2
    <3>. QED
      BY <3>3, <3>4
  <2>. QED
    BY <2>2, <2>3
<1>11. UniqueKeys'
  <2>1. nodes'[new].key = call.key
    BY <1>6 DEF Node
  <2>2. \A n \in 1..count : nodes'[n].key = nodes[n].key
    BY <1>3, <1>6
  <2>3. \A n, m \in 1..count : nodes[n].key = nodes[m].key => n = m
    BY DEF TreeInv, UniqueKeys
  <2>4. \A n, m \in (1..count) \cup {new} : nodes'[n].key = nodes'[m].key => n = m
    BY <1>5, <2>1, <2>2, <2>3
  <2>. QED
    BY <1>2, <1>3, <2>4 DEF UniqueKeys
<1>. QED
  BY <1>1, <1>7, <1>8, <1>9, <1>10, <1>11 DEF TreeInv, WalkIsRight, PathIsRight

(* Every step preserves the invariant. *)
LEMMA NextInv == TreeInv /\ [Next]_vars => TreeInv'
<1>. SUFFICES ASSUME TreeInv, [Next]_vars PROVE TreeInv'
  OBVIOUS
<1>1. ASSUME NEW key \in Keys, NEW value \in Values, Insert(key, value) PROVE TreeInv'
  <2>1. CASE count = 0
    BY <1>1, <2>1, FirstInsertInv DEF Insert
  <2>2. CASE count # 0
    <3>1. 1 \in 1..count
      BY <2>2 DEF TreeInv, TypeOK
    <3>2. /\ call' = [op |-> "Insert", key |-> key, value |-> value, at |-> 1]
          /\ UNCHANGED <<nodes, count, above>> /\ answer' = answer
      BY <1>1, <2>2 DEF Insert
    <3>3. call'.at = 1 /\ call' # Idle
      BY <3>2 DEF Idle
    <3>. QED
      BY <2>2, <3>1, <3>2, <3>3, BeginInv
  <2>. QED
    BY <2>1, <2>2
<1>2. ASSUME NEW key \in Keys, Lookup(key) PROVE TreeInv'
  <2>1. CASE count = 0
    BY <1>2, <2>1, EndInv DEF Lookup
  <2>2. CASE count # 0
    <3>1. 1 \in 1..count
      BY <2>2 DEF TreeInv, TypeOK
    <3>2. /\ call' = [op |-> "Lookup", key |-> key, value |-> Null, at |-> 1]
          /\ UNCHANGED <<nodes, count, above>> /\ answer' = answer
      BY <1>2, <2>2 DEF Lookup
    <3>3. call'.at = 1 /\ call' # Idle
      BY <3>2 DEF Idle
    <3>. QED
      BY <2>2, <3>1, <3>2, <3>3, BeginInv
  <2>. QED
    BY <2>1, <2>2
<1>3. CASE Descend
  BY <1>3, DescendInv
<1>4. CASE EndInsert
  <2>1. CASE call.key = Here.key
    <3>1. UNCHANGED <<nodes, count, above>> /\ call' = Idle /\ answer' = answer
      BY <1>4, <2>1 DEF EndInsert
    <3>2. answer' \in Values \cup {Null}
      BY <3>1 DEF TreeInv, TypeOK
    <3>. QED
      BY <3>1, <3>2, EndInv
  <2>. QED
    BY <1>4, <2>1, LinkInv
<1>5. CASE EndLookup
  <2>1. call # Idle
    BY <1>5 DEF EndLookup, Idle
  <2>2. call.at \in 1..count
    BY <2>1, CallTyped DEF TreeInv
  <2>3. answer' \in Values \cup {Null}
    BY <1>5, <2>2 DEF EndLookup, Here, TreeInv, TypeOK
  <2>. QED
    BY <1>5, <2>3, EndInv DEF EndLookup
<1>6. CASE UNCHANGED vars
  BY <1>6 DEF vars, TreeInv, TypeOK, SearchOrder, WalkIsRight, Rooted,
     LinksExtend, UniqueKeys, PathIsRight
<1>. QED
  BY <1>1, <1>2, <1>3, <1>4, <1>5, <1>6 DEF Next, CallStep

(* The tree is well typed after any calls, and so is every walk in it. *)
THEOREM TreeTypeCorrect == Spec => []TypeOK
<1>1. TreeInv => TypeOK
  BY DEF TreeInv
<1>. QED
  BY <1>1, InitInv, NextInv, PTL DEF Spec

(* Insert keeps the search order, for any keys in any order. *)
THEOREM TreeStaysOrdered == Spec => []SearchOrder
<1>1. TreeInv => SearchOrder
  BY DEF TreeInv
<1>. QED
  BY <1>1, InitInv, NextInv, PTL DEF Spec

(* FindEntry and FindPlacement never turn away from the key. *)
THEOREM WalksAreRight == Spec => []WalkIsRight
<1>1. TreeInv => WalkIsRight
  BY DEF TreeInv
<1>. QED
  BY <1>1, InitInv, NextInv, PTL DEF Spec

-----------------------------------------------------------------------------
(* Refinement *)

(* The map of a set of nodes with distinct keys has the value of a node under
   the key of that node. *)
LEMMA ValueUnderKey ==
  ASSUME NEW N, NEW f, \A n, m \in N : f[n].key = f[m].key => n = m,
         NEW x \in N
  PROVE  f[CHOOSE n \in N : f[n].key = f[x].key].value = f[x].value
<1>1. (CHOOSE n \in N : f[n].key = f[x].key) = x
  OBVIOUS
<1>. QED
  BY <1>1

(* The contents do not change while the nodes do not. *)
LEMMA ContentsUnchanged ==
  ASSUME UNCHANGED <<nodes, count>>
  PROVE  Contents' = Contents
BY DEF Contents, KeysOf

(* Linking a new node adds its key to the map. *)
LEMMA ContentsGrow ==
  ASSUME TreeInv, TreeInv', NEW key \in Keys, NEW value \in Values,
         count' = count + 1,
         nodes'[count + 1].key = key, nodes'[count + 1].value = value,
         \A n \in 1..count :
           nodes'[n].key = nodes[n].key /\ nodes'[n].value = nodes[n].value,
         answer' = answer
  PROVE  Map!Insert
<1>1. count \in Nat /\ 1..count' = (1..count) \cup {count + 1} /\ count + 1 \notin 1..count
  <2>1. count \in Nat
    BY DEF TreeInv, TypeOK
  <2>2. 1..(count + 1) = (1..count) \cup {count + 1}
    BY <2>1
  <2>. QED
    BY <2>1, <2>2
<1>2. KeysOf' = KeysOf \cup {key} /\ key \notin KeysOf
  <2>1. \A n \in 1..count : nodes[n].key # key
    BY <1>1 DEF TreeInv, UniqueKeys
  <2>2. KeysOf' = {nodes'[n].key : n \in 1..count} \cup {key}
    BY <1>1 DEF KeysOf
  <2>3. KeysOf = {nodes'[n].key : n \in 1..count}
    BY DEF KeysOf
  <2>4. key \notin KeysOf
    BY <2>1 DEF KeysOf
  <2>. QED
    BY <2>2, <2>3, <2>4
<1>3. \A k \in KeysOf' : Contents'[k] = IF k = key THEN value ELSE Contents[k]
  <2>. SUFFICES ASSUME NEW k \in KeysOf'
                PROVE  Contents'[k] = IF k = key THEN value ELSE Contents[k]
    OBVIOUS
  <2>1. PICK n \in 1..count' : nodes'[n].key = k
    BY DEF KeysOf
  <2>2. Contents'[k] = nodes'[n].value
    <3>1. \A l, m \in 1..count' : nodes'[l].key = nodes'[m].key => l = m
      BY DEF TreeInv, UniqueKeys
    <3>2. nodes'[CHOOSE m \in 1..count' : nodes'[m].key = nodes'[n].key].value = nodes'[n].value
      BY <2>1, <3>1, ValueUnderKey
    <3>. QED
      BY <2>1, <3>2 DEF Contents
  <2>3. CASE n = count + 1
    BY <2>1, <2>2, <2>3
  <2>4. CASE n # count + 1
    <3>1. n \in 1..count /\ k = nodes[n].key /\ k \in KeysOf
      BY <1>1, <2>1, <2>4 DEF KeysOf
    <3>2. \A l, m \in 1..count : nodes[l].key = nodes[m].key => l = m
      BY DEF TreeInv, UniqueKeys
    <3>3. nodes[CHOOSE m \in 1..count : nodes[m].key = nodes[n].key].value = nodes[n].value
      BY <3>1, <3>2, ValueUnderKey
    <3>4. Contents[k] = nodes[n].value
      BY <3>1, <3>3 DEF Contents
    <3>. QED
      BY <1>2, <2>2, <3>1, <3>4
  <2>. QED
    BY <2>3, <2>4
<1>4. DOMAIN Contents = KeysOf
  BY DEF Contents
<1>5. Contents' = [k \in KeysOf' |-> Contents'[k]]
  BY DEF Contents
<1>6. Contents' = [k \in KeysOf \cup {key} |-> IF k = key THEN value ELSE Contents[k]]
  BY <1>2, <1>3, <1>5
<1>. QED
  BY <1>2, <1>4, <1>6 DEF Map!Insert

(* RETree implements KeyMap, for any keys and values: a step inserts a new
   key, answers a lookup, or changes nothing that can be seen. *)
THEOREM TreeImplementsMap == Spec => ImplementsMap
<1>1. Init => Map!Init
  <2>. SUFFICES ASSUME Init PROVE Map!Init
    OBVIOUS
  <2>1. KeysOf = {}
    BY DEF Init, KeysOf
  <2>2. Contents = [k \in {} |-> Null]
    BY <2>1 DEF Contents
  <2>. QED
    BY <2>2 DEF Init, Map!Init
<1>2. TreeInv /\ TreeInv' /\ [Next]_vars => [Map!Insert \/ Map!Lookup]_<<Contents, answer>>
  <2>. SUFFICES ASSUME TreeInv, TreeInv', [Next]_vars
                PROVE  [Map!Insert \/ Map!Lookup]_<<Contents, answer>>
    OBVIOUS
  <2>1. ASSUME NEW key \in Keys, NEW value \in Values, Insert(key, value)
        PROVE  [Map!Insert \/ Map!Lookup]_<<Contents, answer>>
    <3>1. CASE count = 0
      <4>1. count' = 1 /\ nodes'[1] = Node(key, value) /\ answer' = answer
        BY <2>1, <3>1 DEF Insert, NewNode
      <4>2. nodes'[1].key = key /\ nodes'[1].value = value
        BY <4>1 DEF Node
      <4>3. count' = count + 1 /\ 1 = count + 1 /\ 1..count = {}
        BY <3>1, <4>1
      <4>. QED
        BY <4>1, <4>2, <4>3, ContentsGrow
    <3>2. CASE count # 0
      BY <2>1, <3>2, ContentsUnchanged DEF Insert
    <3>. QED
      BY <3>1, <3>2
  <2>2. ASSUME NEW key \in Keys, Lookup(key)
        PROVE  [Map!Insert \/ Map!Lookup]_<<Contents, answer>>
    <3>1. Contents' = Contents
      BY <2>2, ContentsUnchanged DEF Lookup
    <3>2. CASE count = 0
      <4>1. KeysOf = {} /\ DOMAIN Contents = {}
        BY <3>2 DEF KeysOf, Contents
      <4>2. answer' = Null
        BY <2>2, <3>2 DEF Lookup
      <4>. QED
        BY <3>1, <4>1, <4>2 DEF Map!Lookup
    <3>3. CASE count # 0
      BY <2>2, <3>1, <3>3 DEF Lookup
    <3>. QED
      BY <3>2, <3>3
  <2>3. CASE Descend
    BY <2>3, ContentsUnchanged DEF Descend
  <2>4. CASE EndInsert
    <3>1. CASE call.key = Here.key
      BY <2>4, <3>1, ContentsUnchanged DEF EndInsert
    <3>2. CASE call.key # Here.key
      <4>1. call # Idle /\ answer' = answer /\ call.op = "Insert"
        BY <2>4 DEF EndInsert, Idle
      <4>2. call.key \in Keys /\ call.value \in Values /\ count \in Nat
        BY <4>1, CallTyped DEF TreeInv, TypeOK
      <4>3. /\ count' = count + 1
            /\ nodes' = [n \in 1..(count + 1) |->
                           IF n = count + 1 THEN Node(call.key, call.value)
                           ELSE Linked(count + 1)[n]]
            /\ \A n \in 1..count : /\ Linked(count + 1)[n].key = nodes[n].key
                                   /\ Linked(count + 1)[n].value = nodes[n].value
        BY <2>4, <3>2, Linking
      <4>4. /\ nodes'[count + 1].key = call.key /\ nodes'[count + 1].value = call.value
            /\ \A n \in 1..count :
                 nodes'[n].key = nodes[n].key /\ nodes'[n].value = nodes[n].value
        BY <4>2, <4>3 DEF Node
      <4>. QED
        BY <4>1, <4>2, <4>3, <4>4, ContentsGrow
    <3>. QED
      BY <3>1, <3>2
  <2>5. CASE EndLookup
    <3>1. Contents' = Contents /\ call # Idle /\ NextAt = 0
      BY <2>5, ContentsUnchanged DEF EndLookup, Idle
    <3>2. call.key \in Keys /\ call.at \in 1..count
      BY <3>1, CallTyped DEF TreeInv
    <3>3. DOMAIN Contents = KeysOf
      BY DEF Contents
    <3>4. CASE call.key = Here.key
      <4>1. \A l, m \in 1..count : nodes[l].key = nodes[m].key => l = m
        BY DEF TreeInv, UniqueKeys
      <4>2. nodes[CHOOSE m \in 1..count : nodes[m].key = nodes[call.at].key].value
              = nodes[call.at].value
        BY <3>2, <4>1, ValueUnderKey
      <4>3. call.key \in KeysOf /\ Contents[call.key] = nodes[call.at].value
        BY <3>2, <3>4, <4>2 DEF KeysOf, Contents, Here
      <4>4. answer' = nodes[call.at].value
        BY <2>5, <3>4 DEF EndLookup, Here
      <4>. QED
        BY <3>1, <3>2, <3>3, <4>3, <4>4 DEF Map!Lookup
    <3>5. CASE call.key # Here.key
      <4>1. call.key \notin KeysOf
        BY <3>1, <3>5, KeyIsAbsent DEF KeysOf
      <4>2. answer' = Null
        BY <2>5, <3>5 DEF EndLookup
      <4>. QED
        BY <3>1, <3>2, <3>3, <4>1, <4>2 DEF Map!Lookup
    <3>. QED
      BY <3>4, <3>5
  <2>6. CASE UNCHANGED vars
    BY <2>6, ContentsUnchanged DEF vars
  <2>. QED
    BY <2>1, <2>2, <2>3, <2>4, <2>5, <2>6 DEF Next, CallStep
<1>. QED
  BY <1>1, <1>2, InitInv, NextInv, PTL DEF Spec, ImplementsMap, Map!Spec

-----------------------------------------------------------------------------
(* REArray: the invariant *)

(* Everything is in the array: the elements, and the ranges to be sorted. *)
ArrayTyped ==
  /\ Array!capacity \in Nat \ {0}
  /\ pData \in [0..(Array!capacity - 1) -> Items]
  /\ size \in Nat /\ size <= Array!capacity
  /\ added \in Seq(Items) /\ Len(added) = size
  /\ i \in Nat /\ j \in Nat
  /\ pc \in {"idle", "call", "up", "down", "compare"}
  /\ ranges \in Seq(Nat \X Nat)
  /\ \A r \in 1..Len(ranges) : ranges[r][2] <= size

(* Element k belongs to range r. *)
Within(r, k) == ranges[r][1] <= k /\ k < ranges[r][2]

Disjoint ==
  \A r, q \in 1..Len(ranges) : r # q => \A k \in Nat : ~(Within(r, k) /\ Within(q, k))

(* Two elements are in order unless they are still to be sorted together. *)
Separated ==
  pc # "idle" =>
    \A k, l \in 0..(size - 1) :
      k < l => pData[k] <= pData[l] \/ \E r \in 1..Len(ranges) : Within(r, k) /\ Within(r, l)

(* What the scans have passed: nothing larger than the pivot before from, and
   only larger elements from to on. *)
Passed(from, to) ==
  /\ \A k \in (Array!Low + 1)..(from - 1) : pData[k] <= Array!pivot
  /\ \A k \in to..(Array!High - 1) : pData[k] > Array!pivot

(* Where Partition is in the innermost range. *)
Partitioning ==
  /\ pc \in {"up", "down", "compare"} => ranges # << >> /\ Array!Low < Array!High
  /\ pc = "up" => Array!Low <= i /\ i < j /\ j <= Array!High /\ Passed(i + 1, j)
  /\ pc = "down" => Array!Low < j /\ j <= Array!High /\ Passed(i, j)
  /\ pc = "compare" =>
       /\ Array!Low <= j /\ j < Array!High /\ Passed(i, j + 1)
       /\ pData[j] <= Array!pivot
  /\ pc \in {"down", "compare"} =>
       /\ Array!Low < i /\ i <= Array!capacity
       /\ i < Array!capacity => pData[i] > Array!pivot

(* The inductive invariant. *)
ArrayInv ==
  ArrayTyped /\ Array!ElementsKept /\ Disjoint /\ Separated /\ Partitioning

-----------------------------------------------------------------------------
(* REArray: counting and exchanging *)

(* The capacity of an array is the number of its places. *)
LEMMA CapacityIs ==
  ASSUME NEW n \in Nat, NEW d, DOMAIN d = 0..(n - 1)
  PROVE  Cardinality(DOMAIN d) = n
<1>1. Cardinality(0..(n - 1)) = IF 0 > n - 1 THEN 0 ELSE (n - 1) - 0 + 1
  BY FS_Interval
<1>. QED
  BY <1>1

(* Exchanging two places, which may be the same one. *)
LEMMA SwappedIs ==
  ASSUME NEW S, NEW n \in Nat, NEW d \in [0..(n - 1) -> S],
         NEW a \in 0..(n - 1), NEW b \in 0..(n - 1),
         NEW e, e = [d EXCEPT ![a] = d[b], ![b] = d[a]]
  PROVE  /\ e \in [0..(n - 1) -> S]
         /\ e[a] = d[b] /\ e[b] = d[a]
         /\ \A k \in 0..(n - 1) : k # a /\ k # b => e[k] = d[k]
<1>. DEFINE c == [d EXCEPT ![a] = d[b]]
<1>0. e = [c EXCEPT ![b] = d[a]]
  OBVIOUS
<1>1. c \in [0..(n - 1) -> S] /\ c[a] = d[b] /\ \A k \in 0..(n - 1) : k # a => c[k] = d[k]
  OBVIOUS
<1>. HIDE DEF c
<1>2. e \in [0..(n - 1) -> S] /\ e[b] = d[a] /\ \A k \in 0..(n - 1) : k # b => e[k] = c[k]
  BY <1>0, <1>1
<1>3. e[a] = d[b]
  BY <1>1, <1>2
<1>4. \A k \in 0..(n - 1) : k # a /\ k # b => e[k] = d[k]
  BY <1>1, <1>2
<1>. QED
  BY <1>2, <1>3, <1>4

LEMMA PlacesFinite ==
  ASSUME NEW n \in Nat
  PROVE  IsFiniteSet(1..n)
  BY FS_Interval

(* Among the first n places, e is d with a and b exchanged. *)
Exchanged(d, e, n, a, b) ==
  /\ e[a] = d[b] /\ e[b] = d[a]
  /\ \A k \in 0..(n - 1) : k # a /\ k # b => e[k] = d[k]

(* Each value is among the first n places of d as often as in s. *)
SameCounts(d, n, s) ==
  \A value \in Items :
    Cardinality({k \in 1..n : d[k - 1] = value}) = Cardinality({k \in 1..Len(s) : s[k] = value})

(* An exchange loses no occurrence of a value. *)
LEMMA SwapCounts ==
  ASSUME NEW n \in Nat, NEW d, NEW e, NEW a \in 0..(n - 1), NEW b \in 0..(n - 1),
         Exchanged(d, e, n, a, b), NEW s, SameCounts(d, n, s)
  PROVE  SameCounts(e, n, s)
<1>. SUFFICES ASSUME NEW v
              PROVE  Cardinality({k \in 1..n : e[k - 1] = v}) =
                       Cardinality({k \in 1..n : d[k - 1] = v})
  BY Zenon DEF SameCounts
<1>. DEFINE S == {k \in 1..n : d[k - 1] = v}
            T == {k \in 1..n : e[k - 1] = v}
            m(k) == IF k = a + 1 THEN b + 1 ELSE IF k = b + 1 THEN a + 1 ELSE k
            f == [k \in S |-> m(k)]
<1>. USE DEF Exchanged
<1>1. ASSUME NEW k \in S PROVE m(k) \in T
  <2>1. CASE k = a + 1
    <3>1. b + 1 \in 1..n /\ (b + 1) - 1 = b /\ k - 1 = a
      BY <2>1
    <3>. QED
      BY <2>1, <3>1
  <2>2. CASE k # a + 1 /\ k = b + 1
    <3>1. a + 1 \in 1..n /\ (a + 1) - 1 = a /\ k - 1 = b
      BY <2>2
    <3>. QED
      BY <2>2, <3>1
  <2>3. CASE k # a + 1 /\ k # b + 1
    <3>1. k - 1 \in 0..(n - 1) /\ k - 1 # a /\ k - 1 # b
      BY <2>3
    <3>. QED
      BY <2>3, <3>1
  <2>. QED
    BY <2>1, <2>2, <2>3
<1>2. ASSUME NEW k \in T PROVE m(k) \in S
  <2>1. CASE k = a + 1
    <3>1. b + 1 \in 1..n /\ (b + 1) - 1 = b /\ k - 1 = a
      BY <2>1
    <3>. QED
      BY <2>1, <3>1
  <2>2. CASE k # a + 1 /\ k = b + 1
    <3>1. a + 1 \in 1..n /\ (a + 1) - 1 = a /\ k - 1 = b
      BY <2>2
    <3>. QED
      BY <2>2, <3>1
  <2>3. CASE k # a + 1 /\ k # b + 1
    <3>1. k - 1 \in 0..(n - 1) /\ k - 1 # a /\ k - 1 # b
      BY <2>3
    <3>. QED
      BY <2>3, <3>1
  <2>. QED
    BY <2>1, <2>2, <2>3
<1>3. ASSUME NEW k \in 1..n PROVE m(m(k)) = k
  OBVIOUS
<1>4. S \subseteq 1..n /\ T \subseteq 1..n
  OBVIOUS
<1>. HIDE DEF S, T, m
<1>5. f \in [S -> T] /\ \A k \in S : f[k] = m(k)
  BY <1>1
<1>. HIDE DEF f
<1>6. \A k, l \in S : f[k] = f[l] => k = l
  BY <1>3, <1>4, <1>5
<1>7. \A t \in T : \E k \in S : f[k] = t
  <2>. SUFFICES ASSUME NEW t \in T PROVE \E k \in S : f[k] = t
    OBVIOUS
  <2>1. m(t) \in S /\ m(m(t)) = t
    BY <1>2, <1>3, <1>4
  <2>. QED
    BY <1>5, <2>1
<1>8. f \in Bijection(S, T)
  <2>1. DOMAIN f = S
    BY <1>5
  <2>. QED
    BY <1>5, <1>6, <1>7, <2>1 DEF Bijection, Injection, Surjection, IsInjective
<1>9. IsFiniteSet(S)
  <2>1. IsFiniteSet(1..n)
    BY PlacesFinite
  <2>. QED
    BY <1>4, <2>1, FS_Subset
<1>. QED
  BY <1>8, <1>9, FS_Bijection DEF ExistsBijection, S, T

(* What REArray takes from the library is the same there as here. *)
LEMMA SameCardinality == \A S : Array!Cardinality(S) = Cardinality(S)
  BY DEF Array!Cardinality, Cardinality

LEMMA SameMinMax == \A S : /\ Array!Min(S) = CHOOSE x \in S : \A y \in S : x <= y
                           /\ Array!Max(S) = CHOOSE x \in S : \A y \in S : x >= y
  BY DEF Array!Min, Array!Max

FirstOf(d, n) == [k \in 1..n |-> d[k - 1]]

LEMMA OccurrencesAre ==
  ASSUME NEW d, NEW n \in Nat, NEW s \in Seq(Items)
  PROVE  (\A value \in Items :
            Array!Occurrences(FirstOf(d, n), value) = Array!Occurrences(s, value))
           <=> SameCounts(d, n, s)
<1>. DEFINE f == FirstOf(d, n)
<1>1. \A value : {k \in DOMAIN f : f[k] = value} = {k \in 1..n : d[k - 1] = value}
  BY DEF FirstOf
<1>2. \A value : {k \in DOMAIN s : s[k] = value} = {k \in 1..Len(s) : s[k] = value}
  OBVIOUS
<1>. QED
  BY <1>1, <1>2, SameCardinality, Zenon DEF Array!Occurrences, SameCounts

LEMMA KeptIs ==
  ASSUME size \in Nat, added \in Seq(Items)
  PROVE  Array!ElementsKept <=> SameCounts(pData, size, added)
<1>1. Array!Elements = FirstOf(pData, size)
  BY DEF Array!Elements, FirstOf
<1>. QED
  BY <1>1, OccurrencesAre, Zenon DEF Array!ElementsKept

LEMMA KeptWillBe ==
  ASSUME size' \in Nat, added' \in Seq(Items)
  PROVE  Array!ElementsKept' <=> SameCounts(pData', size', added')
<1>1. Array!Elements' = FirstOf(pData', size')
  BY DEF Array!Elements, FirstOf
<1>. QED
  BY <1>1, OccurrencesAre, Zenon DEF Array!ElementsKept

(* One place more. *)
LEMMA GrownCount ==
  ASSUME NEW n \in Nat, NEW A \in SUBSET (1..n), NEW B \in SUBSET (1..(n + 1)),
         \A k \in 1..n : k \in A <=> k \in B
  PROVE  Cardinality(B) = IF n + 1 \in B THEN Cardinality(A) + 1 ELSE Cardinality(A)
<1>1. IsFiniteSet(A)
  BY PlacesFinite, FS_Subset
<1>0. \A k \in 1..(n + 1) : k \in 1..n \/ k = n + 1
  OBVIOUS
<1>a. A \subseteq 1..n /\ B \subseteq 1..(n + 1) /\ 1..n \subseteq 1..(n + 1)
  OBVIOUS
<1>2. CASE n + 1 \in B
  <2>1. B = A \cup {n + 1}
    BY <1>0, <1>a, <1>2, Zenon
  <2>2. n + 1 \notin A
    OBVIOUS
  <2>. QED
    BY <1>1, <1>2, <2>1, <2>2, FS_AddElement
<1>3. CASE n + 1 \notin B
  <2>1. B = A
    BY <1>0, <1>a, <1>3, Zenon
  <2>. QED
    BY <1>3, <2>1
<1>. QED
  BY <1>2, <1>3

(* Adding an element adds it to both. *)
LEMMA CountsGrow ==
  ASSUME NEW d, NEW e, NEW n \in Nat, NEW s \in Seq(Items), Len(s) = n, NEW value \in Items,
         SameCounts(d, n, s), \A k \in 0..(n - 1) : e[k] = d[k], e[n] = value
  PROVE  SameCounts(e, n + 1, Append(s, value))
<1>1. /\ Len(Append(s, value)) = n + 1 /\ Append(s, value)[n + 1] = value
      /\ \A k \in 1..n : Append(s, value)[k] = s[k]
  BY AppendProperties
<1>. SUFFICES ASSUME NEW v \in Items
              PROVE  Cardinality({k \in 1..(n + 1) : e[k - 1] = v}) =
                       Cardinality({k \in 1..(n + 1) : Append(s, value)[k] = v})
  BY <1>1 DEF SameCounts
<1>. DEFINE A1 == {k \in 1..n : d[k - 1] = v}
            B1 == {k \in 1..(n + 1) : e[k - 1] = v}
            A2 == {k \in 1..n : s[k] = v}
            B2 == {k \in 1..(n + 1) : Append(s, value)[k] = v}
<1>2. Cardinality(A1) = Cardinality(A2)
  BY DEF SameCounts
<1>3. A1 \in SUBSET (1..n) /\ B1 \in SUBSET (1..(n + 1)) /\ \A k \in 1..n : k \in A1 <=> k \in B1
  OBVIOUS
<1>4. A2 \in SUBSET (1..n) /\ B2 \in SUBSET (1..(n + 1)) /\ \A k \in 1..n : k \in A2 <=> k \in B2
  BY <1>1
<1>5. (n + 1 \in B1 <=> value = v) /\ (n + 1 \in B2 <=> value = v)
  <2>1. (n + 1) - 1 = n /\ n + 1 \in 1..(n + 1)
    OBVIOUS
  <2>. QED
    BY <1>1, <2>1
<1>. HIDE DEF A1, B1, A2, B2
<1>6. Cardinality(B1) = IF n + 1 \in B1 THEN Cardinality(A1) + 1 ELSE Cardinality(A1)
  BY <1>3, GrownCount
<1>7. Cardinality(B2) = IF n + 1 \in B2 THEN Cardinality(A2) + 1 ELSE Cardinality(A2)
  BY <1>4, GrownCount
<1>8. Cardinality(B1) = Cardinality(B2)
  BY <1>2, <1>5, <1>6, <1>7
<1>. QED
  BY <1>8 DEF B1, B2

(* The least and the largest of a set of numbers. *)
LEMMA LeastNatural ==
  ASSUME NEW T, T \subseteq Nat, T # {}
  PROVE  \E x \in T : \A y \in T : x <= y
<1>. DEFINE R == OpToRel(<, Nat)
<1>1. IsWellFoundedOn(R, Nat)
  BY NatLessThanWellFounded, Zenon
<1>2. \A x, y \in Nat : x < y => <<x, y>> \in R
  BY DEF OpToRel
<1>. HIDE DEF R
<1>3. PICK x \in T : \A y \in T : ~ (<<y, x>> \in R)
  BY <1>1, WFMin
<1>4. ASSUME NEW y \in T PROVE x <= y
  <2>1. x \in Nat /\ y \in Nat
    OBVIOUS
  <2>2. ~(y < x)
    BY <1>2, <1>3, <2>1
  <2>. QED
    BY <2>1, <2>2
<1>. QED
  BY <1>4

LEMMA MinIs ==
  ASSUME NEW S, S \subseteq Nat, S # {}
  PROVE  Array!Min(S) \in S /\ \A y \in S : Array!Min(S) <= y
<1>1. \E x \in S : \A y \in S : x <= y
  BY LeastNatural
<1>. QED
  BY <1>1, SameMinMax, Zenon

LEMMA MaxIs ==
  ASSUME NEW n \in Nat, NEW S, S \subseteq 0..n, S # {}
  PROVE  Array!Max(S) \in S /\ \A y \in S : Array!Max(S) >= y
<1>1. \E x \in S : \A y \in S : x >= y
  <2>. DEFINE T == {n - k : k \in S}
  <2>1. T \subseteq Nat /\ T # {}
    <3>1. \A k \in S : n - k \in Nat
      OBVIOUS
    <3>. QED
      BY <3>1, Zenon
  <2>2. PICK t \in T : \A u \in T : t <= u
    <3>. HIDE DEF T
    <3>. QED
      BY <2>1, LeastNatural
  <2>3. PICK x \in S : t = n - x
    BY <2>2
  <2>4. ASSUME NEW y \in S PROVE x >= y
    <3>1. n - y \in T
      OBVIOUS
    <3>2. n - x <= n - y
      BY <2>2, <2>3, <3>1
    <3>. QED
      BY <3>2
  <2>. QED
    BY <2>4
<1>. QED
  BY <1>1, SameMinMax, Zenon

-----------------------------------------------------------------------------
(* REArray: the steps *)

LEMMA CapacityNow ==
  ASSUME NEW n \in Nat, DOMAIN pData = 0..(n - 1)
  PROVE  Array!capacity = n
  BY CapacityIs, SameCardinality, Zenon DEF Array!capacity

LEMMA CapacityNext ==
  ASSUME NEW n \in Nat, DOMAIN pData' = 0..(n - 1)
  PROVE  Array!capacity' = n
  BY CapacityIs, SameCardinality, Zenon DEF Array!capacity

(* The elements are numbers. *)
LEMMA ElementsAreNumbers ==
  ASSUME ArrayTyped
  PROVE  /\ \A k \in 0..(Array!capacity - 1) : pData[k] \in Int
         /\ \A k \in 0..(size - 1) : k \in 0..(Array!capacity - 1) /\ pData[k] \in Int
<1>1. \A k \in 0..(Array!capacity - 1) : pData[k] \in Int
  BY ContainersAssumption DEF ArrayTyped
<1>2. \A k \in 0..(size - 1) : k \in 0..(Array!capacity - 1)
  BY DEF ArrayTyped
<1>. QED
  BY <1>1, <1>2

LEMMA InitArray == Array!Init => ArrayInv
<1>. SUFFICES ASSUME Array!Init PROVE ArrayInv
  OBVIOUS
<1>1. pData \in [0..(Capacity - 1) -> Items] /\ Capacity \in Nat \ {0}
  BY ContainersAssumption DEF Array!Init
<1>2. Array!capacity = Capacity
  BY <1>1, CapacityNow
<1>3. size = 0 /\ added = << >> /\ ranges = << >> /\ pc = "idle" /\ i = 0 /\ j = 0
  BY DEF Array!Init
<1>4. ArrayTyped
  BY <1>1, <1>2, <1>3 DEF ArrayTyped
<1>5. Array!ElementsKept
  <2>1. SameCounts(pData, 0, << >>)
    <3>1. 1..0 = {} /\ Len(<< >>) = 0
      OBVIOUS
    <3>2. \A value \in Items : /\ {k \in 1..0 : pData[k - 1] = value} = {}
                               /\ {k \in 1..Len(<< >>) : << >>[k] = value} = {}
      BY <3>1, Zenon
    <3>. QED
      BY <3>2, Zenon DEF SameCounts
  <2>. QED
    BY <1>3, <1>4, <2>1, KeptIs DEF ArrayTyped
<1>6. Disjoint /\ Separated /\ Partitioning
  BY <1>3 DEF Disjoint, Separated, Partitioning
<1>. QED
  BY <1>4, <1>5, <1>6 DEF ArrayInv

(* Growing keeps what is there. *)
LEMMA GrownArray ==
  ASSUME ArrayTyped, NEW array \in IF size = Array!capacity THEN Array!Reallocated ELSE {pData}
  PROVE  \E n \in Nat \ {0} :
           /\ array \in [0..(n - 1) -> Items] /\ size < n
           /\ \A k \in 0..(size - 1) : array[k] = pData[k]
<1>. PICK c \in Nat \ {0} : c = Array!capacity
  BY DEF ArrayTyped
<1>0. pData \in [0..(c - 1) -> Items] /\ size \in Nat /\ size <= c
  BY DEF ArrayTyped
<1>1. CASE size = c
  <2>1. PICK garbage \in [c..(2 * c - 1) -> Items] :
          array = [k \in 0..(2 * c - 1) |-> IF k < c THEN pData[k] ELSE garbage[k]]
    BY <1>1 DEF Array!Reallocated
  <2>2. array \in [0..(2 * c - 1) -> Items]
    <3>1. \A k \in 0..(2 * c - 1) : k < c => k \in 0..(c - 1)
      BY <1>0
    <3>2. \A k \in 0..(2 * c - 1) : ~(k < c) => k \in c..(2 * c - 1)
      BY <1>0
    <3>. QED
      BY <1>0, <2>1, <3>1, <3>2
  <2>3. \A k \in 0..(size - 1) : array[k] = pData[k]
    <3>1. \A k \in 0..(size - 1) : k \in 0..(2 * c - 1) /\ k < c
      BY <1>0, <1>1
    <3>. QED
      BY <2>1, <3>1
  <2>4. 2 * c \in Nat \ {0} /\ size < 2 * c
    BY <1>1
  <2>. QED
    BY <2>2, <2>3, <2>4
<1>2. CASE size # c
  <2>1. array = pData /\ size < c
    BY <1>0, <1>2
  <2>. QED
    BY <1>0, <2>1
<1>. QED
  BY <1>1, <1>2

LEMMA AddArray ==
  ASSUME ArrayInv, NEW value \in Items, Array!Add(value)
  PROVE  ArrayInv'
<1>0. ArrayTyped
  BY DEF ArrayInv
<1>1. PICK array \in IF size = Array!capacity THEN Array!Reallocated ELSE {pData} :
        pData' = [array EXCEPT ![size] = value]
  BY DEF Array!Add
<1>2. /\ pc = "idle" /\ size' = size + 1 /\ added' = Append(added, value)
      /\ UNCHANGED <<ranges, pc, i, j>>
  BY DEF Array!Add
<1>3. PICK n \in Nat \ {0} : /\ array \in [0..(n - 1) -> Items] /\ size < n
                             /\ \A k \in 0..(size - 1) : array[k] = pData[k]
  BY <1>0, GrownArray
<1>4. size \in Nat /\ size \in 0..(n - 1) /\ added \in Seq(Items) /\ Len(added) = size
  BY <1>0, <1>3 DEF ArrayTyped
<1>5. /\ pData' \in [0..(n - 1) -> Items] /\ pData'[size] = value
      /\ \A k \in 0..(size - 1) : pData'[k] = pData[k]
  <2>1. pData' \in [0..(n - 1) -> Items] /\ pData'[size] = value
    BY <1>1, <1>3, <1>4
  <2>2. \A k \in 0..(size - 1) : k # size /\ k \in 0..(n - 1)
    BY <1>4
  <2>. QED
    BY <1>1, <1>3, <2>1, <2>2
<1>6. Array!capacity' = n
  BY <1>5, CapacityNext
<1>7. added' \in Seq(Items) /\ Len(added') = size' /\ size' \in Nat /\ size' <= n
  BY <1>2, <1>3, <1>4
<1>8. ArrayTyped'
  <2>1. \A r \in 1..Len(ranges) : ranges[r][2] \in Nat /\ ranges[r][2] <= size
    BY <1>0 DEF ArrayTyped
  <2>2. \A r \in 1..Len(ranges) : ranges[r][2] <= size'
    BY <1>2, <1>4, <2>1
  <2>. QED
    BY <1>0, <1>2, <1>5, <1>6, <1>7, <2>2 DEF ArrayTyped
<1>9. Array!ElementsKept'
  <2>1. SameCounts(pData, size, added)
    BY <1>4, KeptIs DEF ArrayInv
  <2>2. SameCounts(pData', size + 1, Append(added, value))
    BY <1>4, <1>5, <2>1, CountsGrow
  <2>3. SameCounts(pData', size', added')
    BY <1>2, <2>2, Zenon
  <2>. QED
    BY <1>7, <2>3, KeptWillBe
<1>10. Disjoint' /\ Separated' /\ Partitioning'
  <2>1. Disjoint'
    BY <1>2 DEF ArrayInv, Disjoint, Within
  <2>. QED
    BY <1>2, <2>1 DEF Separated, Partitioning
<1>. QED
  BY <1>8, <1>9, <1>10 DEF ArrayInv

(* Steps that leave the array alone. *)
LEMMA SameArray ==
  ASSUME ArrayInv, UNCHANGED <<pData, size, added>>
  PROVE  Array!capacity' = Array!capacity /\ Array!ElementsKept'
<1>1. Array!capacity' = Array!capacity
  BY DEF Array!capacity
<1>2. SameCounts(pData', size', added')
  BY KeptIs DEF ArrayInv, ArrayTyped
<1>. QED
  BY <1>1, <1>2, KeptWillBe DEF ArrayInv, ArrayTyped

LEMMA QuickSortArray ==
  ASSUME ArrayInv, Array!QuickSort
  PROVE  ArrayInv'
<1>1. /\ UNCHANGED <<pData, size, i, j, added>>
      /\ ranges' = << <<0, size>> >> /\ pc' = "call"
  BY DEF Array!QuickSort
<1>2. Array!capacity' = Array!capacity /\ Array!ElementsKept'
  BY <1>1, SameArray
<1>3. size \in Nat
  BY DEF ArrayInv, ArrayTyped
<1>4. /\ ranges' \in Seq(Nat \X Nat) /\ Len(ranges') = 1 /\ ranges'[1] = <<0, size>>
      /\ ranges'[1][1] = 0 /\ ranges'[1][2] = size
  BY <1>1, <1>3
<1>5. 1..Len(ranges') = {1}
  BY <1>4
<1>6. ArrayTyped'
  <2>1. \A r \in 1..Len(ranges') : ranges'[r][2] <= size'
    BY <1>1, <1>3, <1>4, <1>5
  <2>. QED
    BY <1>1, <1>2, <1>4, <2>1 DEF ArrayInv, ArrayTyped
<1>7. Disjoint'
  BY <1>5 DEF Disjoint
<1>8. Separated'
  <2>1. \A k \in 0..(size' - 1) : Within(1, k)'
    BY <1>1, <1>3, <1>4 DEF Within
  <2>. QED
    BY <1>5, <2>1 DEF Separated
<1>9. Partitioning'
  BY <1>1 DEF Partitioning
<1>. QED
  BY <1>2, <1>6, <1>7, <1>8, <1>9 DEF ArrayInv

LEMMA ReturnArray ==
  ASSUME ArrayInv, Array!ReturnSorted
  PROVE  ArrayInv'
<1>1. UNCHANGED <<pData, size, ranges, i, j, added>> /\ pc' = "idle"
  BY DEF Array!ReturnSorted
<1>2. Array!capacity' = Array!capacity /\ Array!ElementsKept'
  BY <1>1, SameArray
<1>3. ArrayTyped'
  BY <1>1, <1>2 DEF ArrayInv, ArrayTyped
<1>4. Disjoint' /\ Separated' /\ Partitioning'
  BY <1>1 DEF ArrayInv, Disjoint, Within, Separated, Partitioning
<1>. QED
  BY <1>2, <1>3, <1>4 DEF ArrayInv

(* The innermost range, and those around it. *)
LEMMA Innermost ==
  ASSUME ArrayTyped, ranges # << >>
  PROVE  \E n \in Nat :
           /\ n + 1 = Len(ranges)
           /\ Array!Low = ranges[n + 1][1] /\ Array!High = ranges[n + 1][2]
           /\ Array!Low \in Nat /\ Array!High \in Nat /\ Array!High <= size
           /\ Array!Outer \in Seq(Nat \X Nat) /\ Len(Array!Outer) = n
           /\ \A r \in 1..n : Array!Outer[r] = ranges[r]
<1>1. ranges \in Seq(Nat \X Nat)
  BY DEF ArrayTyped
<1>2. Len(ranges) \in Nat \ {0}
  BY <1>1, EmptySeq, Zenon
<1>3. PICK n \in Nat : n + 1 = Len(ranges) /\ n = Len(ranges) - 1
  <2>1. Len(ranges) - 1 \in Nat /\ (Len(ranges) - 1) + 1 = Len(ranges)
    BY <1>2
  <2>. QED
    BY <2>1, Zenon
<1>4. \A k \in 1..n : k \in 1..Len(ranges) /\ ranges[k] \in Nat \X Nat
  <2>1. \A k \in 1..n : k \in 1..(n + 1)
    OBVIOUS
  <2>2. \A k \in 1..Len(ranges) : ranges[k] \in Nat \X Nat
    BY <1>1, ElementOfSeq
  <2>. QED
    BY <1>3, <2>1, <2>2, Zenon
<1>5. /\ SubSeq(ranges, 1, n) \in Seq(Nat \X Nat)
      /\ Len(SubSeq(ranges, 1, n)) = IF 1 <= n THEN n - 1 + 1 ELSE 0
      /\ \A k \in 1..(n - 1 + 1) : SubSeq(ranges, 1, n)[k] = ranges[1 + k - 1]
  BY <1>4, SubSeqProperties
<1>6. Len(SubSeq(ranges, 1, n)) = n /\ \A k \in 1..n : SubSeq(ranges, 1, n)[k] = ranges[k]
  BY <1>5
<1>7. Array!Outer = SubSeq(ranges, 1, n)
  BY <1>3, Zenon DEF Array!Outer
<1>8. n + 1 \in 1..Len(ranges) /\ ranges[n + 1] \in Nat \X Nat
  BY <1>1, <1>3
<1>9. Array!Low = ranges[n + 1][1] /\ Array!High = ranges[n + 1][2]
  BY <1>3, Zenon DEF Array!Low, Array!High
<1>10. Array!Low \in Nat /\ Array!High \in Nat /\ Array!High <= size
  BY <1>8, <1>9 DEF ArrayTyped
<1>. QED
  BY <1>3, <1>5, <1>6, <1>7, <1>9, <1>10, Zenon

(* The innermost range is empty and returns, or Partition begins. *)
LEMMA BeginArray ==
  ASSUME ArrayInv, Array!BeginRange
  PROVE  ArrayInv'
<1>0. ArrayTyped /\ ranges # << >> /\ pc = "call"
  BY DEF ArrayInv, Array!BeginRange
<1>1. UNCHANGED <<pData, size, added>>
  BY DEF Array!BeginRange
<1>2. Array!capacity' = Array!capacity /\ Array!ElementsKept'
  BY <1>1, SameArray
<1>3. PICK n \in Nat :
        /\ n + 1 = Len(ranges)
        /\ Array!Low = ranges[n + 1][1] /\ Array!High = ranges[n + 1][2]
        /\ Array!Low \in Nat /\ Array!High \in Nat /\ Array!High <= size
        /\ Array!Outer \in Seq(Nat \X Nat) /\ Len(Array!Outer) = n
        /\ \A r \in 1..n : Array!Outer[r] = ranges[r]
  BY <1>0, Innermost
<1>4. CASE Array!Low < Array!High
  <2>1. i' = Array!Low /\ j' = Array!High /\ pc' = "up" /\ ranges' = ranges
    BY <1>4 DEF Array!BeginRange
  <2>2. ArrayTyped'
    BY <1>0, <1>1, <1>2, <1>3, <2>1 DEF ArrayTyped
  <2>3. Disjoint' /\ Separated'
    BY <1>0, <1>1, <2>1 DEF ArrayInv, Disjoint, Separated, Within
  <2>4. Array!Low' = Array!Low /\ Array!High' = Array!High
    BY <2>1 DEF Array!Low, Array!High
  <2>5. Passed(Array!Low + 1, Array!High)'
    BY <1>3, <2>4 DEF Passed
  <2>6. Passed(i + 1, j)'
    BY <2>1, <2>4, <2>5 DEF Passed
  <2>7. Partitioning'
    BY <1>0, <1>3, <1>4, <2>1, <2>4, <2>6 DEF Partitioning
  <2>. QED
    BY <1>2, <2>2, <2>3, <2>7 DEF ArrayInv
<1>5. CASE ~(Array!Low < Array!High)
  <2>1. ranges' = Array!Outer /\ UNCHANGED <<pc, i, j>>
    BY <1>5 DEF Array!BeginRange
  <2>2. /\ Len(ranges') = n /\ \A r \in 1..n : ranges'[r] = ranges[r]
        /\ \A r \in 1..n : r \in 1..Len(ranges)
    BY <1>3, <2>1
  <2>3. ArrayTyped'
    BY <1>0, <1>1, <1>2, <1>3, <2>1, <2>2 DEF ArrayTyped
  <2>4. \A r \in 1..n : \A k \in Nat : Within(r, k)' <=> Within(r, k)
    BY <2>2 DEF Within
  <2>5. Disjoint'
    BY <2>2, <2>4 DEF ArrayInv, Disjoint
  <2>6. Separated'
    <3>1. \A k \in Nat : ~Within(n + 1, k)
      BY <1>3, <1>5 DEF Within
    <3>2. \A r \in 1..Len(ranges) : r = n + 1 \/ r \in 1..n
      BY <1>3
    <3>3. \A k \in 0..(size - 1) : k \in Nat
      OBVIOUS
    <3>. QED
      BY <1>0, <1>1, <2>1, <2>2, <2>4, <3>1, <3>2, <3>3 DEF ArrayInv, Separated
  <2>7. Partitioning'
    BY <1>0, <2>1 DEF Partitioning
  <2>. QED
    BY <1>2, <2>3, <2>5, <2>6, <2>7 DEF ArrayInv
<1>. QED
  BY <1>4, <1>5

(* Where the pivot is. *)
LEMMA PivotIs ==
  ASSUME ArrayInv, pc \in {"up", "down", "compare"}
  PROVE  /\ ranges # << >> /\ Array!Low \in Nat /\ Array!High \in Nat
         /\ Array!Low < Array!High /\ Array!High <= size /\ size <= Array!capacity
         /\ Array!pivot = pData[Array!Low] /\ Array!pivot \in Int
         /\ Array!capacity \in Nat /\ size \in Nat /\ i \in Nat /\ j \in Nat
         /\ \A k \in 0..(Array!capacity - 1) : pData[k] \in Int
<1>1. ArrayTyped /\ ranges # << >> /\ Array!Low < Array!High
  BY DEF ArrayInv, Partitioning
<1>2. Array!Low \in Nat /\ Array!High \in Nat /\ Array!High <= size
  BY <1>1, Innermost
<1>3. /\ size <= Array!capacity /\ Array!capacity \in Nat /\ size \in Nat
      /\ i \in Nat /\ j \in Nat
  BY <1>1 DEF ArrayTyped
<1>4. \A k \in 0..(Array!capacity - 1) : pData[k] \in Int
  BY <1>1, ElementsAreNumbers
<1>5. Array!Low \in 0..(Array!capacity - 1)
  BY <1>1, <1>2, <1>3
<1>. QED
  BY <1>1, <1>2, <1>3, <1>4, <1>5 DEF Array!pivot

(* Places between two others. *)
LEMMA Between ==
  ASSUME NEW x \in Nat, NEW y \in Nat, NEW c \in Nat, x < y, y <= c
  PROVE  \A k \in (x + 1)..(y - 1) :
           /\ k \in (x + 1)..(c - 1) /\ k \in 0..(c - 1) /\ k \in 0..(y - 1)
           /\ ~(y <= k) /\ ~(x >= k)
  OBVIOUS

LEMMA BeforeOrAfter ==
  ASSUME NEW x \in Nat, NEW y \in Nat, NEW z \in Nat
  PROVE  \A k \in (x + 1)..(z - 1) :
           /\ k \in (x + 1)..y \/ k \in (y + 1)..(z - 1)
           /\ k \in (x + 1)..(y - 1) \/ k \in y..(z - 1)
  OBVIOUS

(* The scans only move i and j. *)
LEMMA ScanKeeps ==
  ASSUME ArrayInv, pc \in {"up", "down"}, pc' \in {"down", "compare"},
         UNCHANGED <<pData, size, ranges, added>>, i' \in Nat, j' \in Nat
  PROVE  /\ ArrayTyped' /\ Array!ElementsKept' /\ Disjoint' /\ Separated'
         /\ Array!Low' = Array!Low /\ Array!High' = Array!High /\ Array!pivot' = Array!pivot
         /\ Array!capacity' = Array!capacity
<1>1. Array!capacity' = Array!capacity /\ Array!ElementsKept'
  BY SameArray
<1>2. ArrayTyped'
  BY <1>1 DEF ArrayInv, ArrayTyped
<1>3. Disjoint' /\ Separated'
  BY DEF ArrayInv, Disjoint, Separated, Within
<1>4. Array!Low' = Array!Low /\ Array!High' = Array!High
  BY DEF Array!Low, Array!High
<1>5. Array!pivot' = Array!pivot
  BY <1>4 DEF Array!pivot
<1>. QED
  BY <1>1, <1>2, <1>3, <1>4, <1>5

LEMMA ScanUpArray ==
  ASSUME ArrayInv, Array!ScanUp
  PROVE  ArrayInv'
<1>. DEFINE larger == {k \in (i + 1)..(Array!capacity - 1) : pData[k] > Array!pivot}
<1>1. /\ pc = "up" /\ pc' = "down" /\ UNCHANGED <<pData, size, ranges, j, added>>
      /\ i' = IF larger = {} THEN Array!capacity ELSE Array!Min(larger)
  BY DEF Array!ScanUp
<1>2. /\ ranges # << >> /\ Array!Low \in Nat /\ Array!High \in Nat
      /\ Array!Low < Array!High /\ Array!High <= size /\ size <= Array!capacity
      /\ Array!pivot \in Int
      /\ Array!capacity \in Nat /\ size \in Nat /\ i \in Nat /\ j \in Nat
      /\ \A k \in 0..(Array!capacity - 1) : pData[k] \in Int
  BY <1>1, PivotIs
<1>3. Array!Low <= i /\ i < j /\ j <= Array!High /\ Passed(i + 1, j)
  BY <1>1 DEF ArrayInv, Partitioning
<1>4. /\ i' \in Nat /\ i < i' /\ i' <= Array!capacity
      /\ (i' < Array!capacity => pData[i'] > Array!pivot)
      /\ \A k \in (i + 1)..(i' - 1) : k \in (i + 1)..(Array!capacity - 1) /\ k \notin larger
  <2>1. CASE larger = {}
    <3>1. i' = Array!capacity
      BY <1>1, <2>1
    <3>. QED
      BY <1>2, <1>3, <2>1, <3>1
  <2>2. CASE larger # {}
    <3>1. larger \subseteq Nat
      BY <1>2
    <3>2. i' = Array!Min(larger)
      BY <1>1, <2>2
    <3>3. i' \in larger /\ \A y \in larger : i' <= y
      BY <2>2, <3>1, <3>2, MinIs
    <3>4. i \in Nat /\ Array!capacity \in Nat
      BY <1>2
    <3>5. i' \in (i + 1)..(Array!capacity - 1) /\ pData[i'] > Array!pivot
      BY <3>3
    <3>6. i' \in Nat /\ i < i' /\ i' <= Array!capacity
      BY <3>4, <3>5
    <3>7. ASSUME NEW k \in (i + 1)..(i' - 1)
          PROVE  k \in (i + 1)..(Array!capacity - 1) /\ k \notin larger
      <4>1. k \in (i + 1)..(Array!capacity - 1) /\ ~(i' <= k)
        BY <3>4, <3>6, Between, Zenon
      <4>. QED
        BY <3>3, <4>1, Zenon
    <3>. QED
      BY <3>5, <3>6, <3>7
  <2>. QED
    BY <2>1, <2>2
<1>5. \A k \in (i + 1)..(i' - 1) : pData[k] <= Array!pivot
  <2>. SUFFICES ASSUME NEW k \in (i + 1)..(i' - 1) PROVE pData[k] <= Array!pivot
    OBVIOUS
  <2>1. k \in (i + 1)..(Array!capacity - 1) /\ k \notin larger
    BY <1>4
  <2>2. i \in Nat /\ Array!capacity \in Nat /\ Array!pivot \in Int
    BY <1>2
  <2>3. k \in 0..(Array!capacity - 1)
    BY <2>1, <2>2
  <2>4. pData[k] \in Int /\ ~(pData[k] > Array!pivot)
    BY <1>2, <2>1, <2>3
  <2>. QED
    BY <2>2, <2>4
<1>. HIDE DEF larger
<1>6. /\ ArrayTyped' /\ Array!ElementsKept' /\ Disjoint' /\ Separated'
      /\ Array!Low' = Array!Low /\ Array!High' = Array!High /\ Array!pivot' = Array!pivot
      /\ Array!capacity' = Array!capacity
  BY <1>1, <1>2, <1>4, ScanKeeps
<1>7. Passed(i, j)'
  <2>1. /\ \A k \in (Array!Low + 1)..i : pData[k] <= Array!pivot
        /\ \A k \in j..(Array!High - 1) : pData[k] > Array!pivot
    <3>1. (i + 1) - 1 = i
      BY <1>2
    <3>. QED
      BY <1>3, <3>1 DEF Passed
  <2>2. \A k \in (Array!Low + 1)..(i' - 1) : k \in (Array!Low + 1)..i \/ k \in (i + 1)..(i' - 1)
    <3>1. Array!Low \in Nat /\ i \in Nat /\ i' \in Nat
      BY <1>2, <1>4
    <3>. QED
      BY <3>1, BeforeOrAfter, Zenon
  <2>3. \A k \in (Array!Low + 1)..(i' - 1) : pData[k] <= Array!pivot
    BY <1>5, <2>1, <2>2
  <2>. QED
    BY <1>1, <1>6, <2>1, <2>3 DEF Passed
<1>8. Partitioning'
  <2>1. Array!Low < i' /\ Array!Low < j
    BY <1>2, <1>3, <1>4
  <2>. QED
    BY <1>1, <1>2, <1>3, <1>4, <1>6, <1>7, <2>1 DEF Partitioning
<1>. QED
  BY <1>6, <1>8 DEF ArrayInv

LEMMA ScanDownArray ==
  ASSUME ArrayInv, Array!ScanDown
  PROVE  ArrayInv'
<1>. DEFINE others == {k \in 0..(j - 1) : pData[k] <= Array!pivot}
<1>1. /\ pc = "down" /\ pc' = "compare" /\ UNCHANGED <<pData, size, ranges, i, added>>
      /\ j' = Array!Max(others)
  BY DEF Array!ScanDown
<1>2. /\ ranges # << >> /\ Array!Low \in Nat /\ Array!High \in Nat
      /\ Array!Low < Array!High /\ Array!High <= size /\ size <= Array!capacity
      /\ Array!pivot = pData[Array!Low] /\ Array!pivot \in Int
      /\ Array!capacity \in Nat /\ size \in Nat /\ i \in Nat /\ j \in Nat
      /\ \A k \in 0..(Array!capacity - 1) : pData[k] \in Int
  BY <1>1, PivotIs
<1>3. /\ Array!Low < j /\ j <= Array!High /\ Passed(i, j)
      /\ Array!Low < i /\ i <= Array!capacity
      /\ (i < Array!capacity => pData[i] > Array!pivot)
  BY <1>1 DEF ArrayInv, Partitioning
<1>4. /\ j' \in others /\ j' \in Nat /\ j' < j /\ pData[j'] <= Array!pivot /\ Array!Low <= j'
      /\ \A y \in others : j' >= y
  <2>1. Array!Low \in others
    BY <1>2, <1>3
  <2>2. j - 1 \in Nat /\ others \subseteq 0..(j - 1) /\ others # {}
    BY <1>2, <1>3, <2>1
  <2>3. j' \in others /\ \A y \in others : j' >= y
    <3>. HIDE DEF others
    <3>. QED
      BY <1>1, <2>2, MaxIs
  <2>. QED
    BY <1>2, <2>1, <2>2, <2>3
<1>5. \A k \in (j' + 1)..(j - 1) : pData[k] > Array!pivot
  <2>1. \A k \in (j' + 1)..(j - 1) :
          k \in 0..(Array!capacity - 1) /\ k \in 0..(j - 1) /\ k \notin others
    <3>1. /\ j \in Nat /\ j' \in Nat /\ Array!capacity \in Nat
          /\ j' < j /\ j <= Array!capacity
      BY <1>2, <1>3, <1>4
    <3>. SUFFICES ASSUME NEW k \in (j' + 1)..(j - 1)
                  PROVE  k \in 0..(Array!capacity - 1) /\ k \in 0..(j - 1) /\ k \notin others
      OBVIOUS
    <3>2. k \in 0..(Array!capacity - 1) /\ k \in 0..(j - 1) /\ ~(j' >= k)
      BY <3>1, Between, Zenon
    <3>. QED
      BY <1>4, <3>2, Zenon
  <2>2. \A k \in (j' + 1)..(j - 1) : pData[k] \in Int /\ ~(pData[k] <= Array!pivot)
    BY <1>2, <2>1
  <2>3. Array!pivot \in Int
    BY <1>2
  <2>. QED
    BY <2>2, <2>3
<1>. HIDE DEF others
<1>6. /\ ArrayTyped' /\ Array!ElementsKept' /\ Disjoint' /\ Separated'
      /\ Array!Low' = Array!Low /\ Array!High' = Array!High /\ Array!pivot' = Array!pivot
      /\ Array!capacity' = Array!capacity
  BY <1>1, <1>2, <1>4, ScanKeeps
<1>7. Passed(i, j + 1)'
  <2>1. /\ \A k \in (Array!Low + 1)..(i - 1) : pData[k] <= Array!pivot
        /\ \A k \in j..(Array!High - 1) : pData[k] > Array!pivot
    BY <1>3 DEF Passed
  <2>2. \A k \in (j' + 1)..(Array!High - 1) : k \in (j' + 1)..(j - 1) \/ k \in j..(Array!High - 1)
    <3>1. Array!High \in Nat /\ j \in Nat /\ j' \in Nat
      BY <1>2, <1>4
    <3>. QED
      BY <3>1, BeforeOrAfter, Zenon
  <2>3. \A k \in (j' + 1)..(Array!High - 1) : pData[k] > Array!pivot
    BY <1>5, <2>1, <2>2
  <2>. QED
    BY <1>1, <1>6, <2>1, <2>3 DEF Passed
<1>8. Partitioning'
  <2>1. j' < Array!High
    BY <1>2, <1>3, <1>4
  <2>. QED
    BY <1>1, <1>2, <1>3, <1>4, <1>6, <1>7, <2>1 DEF Partitioning
<1>. QED
  BY <1>6, <1>8 DEF ArrayInv

(* An exchange of two elements of the innermost range keeps the elements. *)
LEMMA SwapKeeps ==
  ASSUME ArrayInv, NEW a \in 0..(size - 1), NEW b \in 0..(size - 1),
         pData' = Array!Swapped(a, b), UNCHANGED <<size, added>>
  PROVE  /\ Array!capacity' = Array!capacity /\ Array!ElementsKept'
         /\ pData' \in [0..(Array!capacity - 1) -> Items]
         /\ pData'[a] = pData[b] /\ pData'[b] = pData[a]
         /\ \A k \in 0..(Array!capacity - 1) : k # a /\ k # b => pData'[k] = pData[k]
<1>. DEFINE n == Array!capacity
<1>1. /\ n \in Nat /\ pData \in [0..(n - 1) -> Items] /\ size \in Nat /\ size <= n
      /\ added \in Seq(Items)
  BY DEF ArrayInv, ArrayTyped
<1>2. \A k \in 0..(size - 1) : k \in 0..(n - 1)
  BY <1>1
<1>. HIDE DEF n
<1>3. PICK e : e = pData' /\ e = [pData EXCEPT ![a] = pData[b], ![b] = pData[a]]
  BY DEF Array!Swapped
<1>4. /\ e \in [0..(n - 1) -> Items]
      /\ e[a] = pData[b] /\ e[b] = pData[a]
      /\ \A k \in 0..(n - 1) : k # a /\ k # b => e[k] = pData[k]
  <2>1. a \in 0..(n - 1) /\ b \in 0..(n - 1) /\ n \in Nat /\ pData \in [0..(n - 1) -> Items]
    BY <1>1, <1>2
  <2>2. e = [pData EXCEPT ![a] = pData[b], ![b] = pData[a]]
    BY <1>3
  <2>. QED
    BY <2>1, <2>2, SwappedIs
<1>5. Array!capacity' = n
  <2>1. DOMAIN pData' = 0..(n - 1)
    BY <1>3, <1>4
  <2>. QED
    BY <1>1, <2>1, CapacityNext
<1>6. SameCounts(e, size, added)
  <2>1. SameCounts(pData, size, added)
    BY <1>1, KeptIs DEF ArrayInv
  <2>2. Exchanged(pData, e, size, a, b)
    BY <1>2, <1>4 DEF Exchanged
  <2>3. size \in Nat
    BY <1>1
  <2>. QED
    BY <2>1, <2>2, <2>3, SwapCounts, Zenon
<1>7. Array!ElementsKept'
  BY <1>1, <1>3, <1>6, KeptWillBe
<1>. QED
  BY <1>3, <1>4, <1>5, <1>7 DEF n

(* It also keeps apart what the ranges separate. *)
LEMMA SwapSeparates ==
  ASSUME ArrayInv, pc = "compare", NEW e, NEW a \in Nat, NEW b \in Nat,
         Array!Low <= a, a < Array!High, Array!Low <= b, b < Array!High,
         e[a] = pData[b], e[b] = pData[a],
         \A k \in 0..(Array!capacity - 1) : k # a /\ k # b => e[k] = pData[k],
         NEW k \in 0..(size - 1), NEW l \in 0..(size - 1), k < l,
         ~(Array!Low <= k /\ k < Array!High /\ Array!Low <= l /\ l < Array!High)
  PROVE  e[k] <= e[l] \/ \E r \in 1..Len(ranges) : Within(r, k) /\ Within(r, l)
<1>1. /\ Array!Low \in Nat /\ Array!High \in Nat /\ Array!High <= size
      /\ size <= Array!capacity /\ Array!capacity \in Nat /\ size \in Nat /\ ranges # << >>
  BY PivotIs
<1>2. PICK n \in Nat : /\ n + 1 = Len(ranges)
                       /\ Array!Low = ranges[n + 1][1] /\ Array!High = ranges[n + 1][2]
  BY <1>1, Innermost DEF ArrayInv
<1>3. \A x : Within(n + 1, x) <=> Array!Low <= x /\ x < Array!High
  BY <1>2 DEF Within
<1>4. \A x, y \in 0..(size - 1) :
        x < y => pData[x] <= pData[y] \/ \E r \in 1..Len(ranges) : Within(r, x) /\ Within(r, y)
  BY DEF ArrayInv, Separated
<1>5. n + 1 \in 1..Len(ranges)
  BY <1>2
<1>6. ASSUME NEW x \in Nat, NEW y, Within(n + 1, x), ~Within(n + 1, y), NEW r \in 1..Len(ranges)
      PROVE  ~(Within(r, x) /\ Within(r, y))
  BY <1>5, <1>6, Zenon DEF ArrayInv, Disjoint
<1>7. a \in 0..(size - 1) /\ b \in 0..(size - 1)
  BY <1>1
<1>8. \A x \in 0..(size - 1) : x # a /\ x # b => e[x] = pData[x]
  <2>1. \A x \in 0..(size - 1) : x \in 0..(Array!capacity - 1)
    BY <1>1
  <2>. QED
    BY <2>1
<1>9. Within(n + 1, a) /\ Within(n + 1, b)
  BY <1>3
<1>10. CASE k # a /\ k # b /\ l # a /\ l # b
  BY <1>4, <1>8, <1>10
<1>11. CASE k = a \/ k = b
  <2>1. ~Within(n + 1, l) /\ l # a /\ l # b /\ a < l /\ b < l
    BY <1>1, <1>3, <1>11
  <2>2. PICK x \in {a, b} : e[k] = pData[x]
    BY <1>11
  <2>3. x < l /\ x \in Nat /\ x \in 0..(size - 1) /\ Within(n + 1, x)
    BY <1>7, <1>9, <2>1
  <2>4. pData[x] <= pData[l]
    BY <1>4, <1>6, <2>1, <2>3
  <2>. QED
    BY <1>8, <2>1, <2>2, <2>4
<1>12. CASE l = a \/ l = b
  <2>1. ~Within(n + 1, k) /\ k # a /\ k # b /\ k < a /\ k < b
    BY <1>1, <1>3, <1>12
  <2>2. PICK x \in {a, b} : e[l] = pData[x]
    BY <1>12
  <2>3. k < x /\ x \in Nat /\ x \in 0..(size - 1) /\ Within(n + 1, x)
    BY <1>7, <1>9, <2>1
  <2>4. pData[k] <= pData[x]
    BY <1>4, <1>6, <2>1, <2>3
  <2>. QED
    BY <1>8, <2>1, <2>2, <2>4
<1>. QED
  BY <1>10, <1>11, <1>12

(* One element from either side changes sides. *)
LEMMA ExchangeArray ==
  ASSUME ArrayInv, Array!Exchange
  PROVE  ArrayInv'
<1>1. /\ pc = "compare" /\ i < j /\ pc' = "up" /\ UNCHANGED <<size, ranges, i, j, added>>
      /\ pData' = Array!Swapped(i, j)
  BY DEF Array!Exchange
<1>2. /\ ranges # << >> /\ Array!Low \in Nat /\ Array!High \in Nat
      /\ Array!Low < Array!High /\ Array!High <= size /\ size <= Array!capacity
      /\ Array!pivot = pData[Array!Low] /\ Array!pivot \in Int
      /\ Array!capacity \in Nat /\ size \in Nat /\ i \in Nat /\ j \in Nat
      /\ \A k \in 0..(Array!capacity - 1) : pData[k] \in Int
  BY <1>1, PivotIs
<1>3. /\ Array!Low < i /\ j < Array!High /\ Passed(i, j + 1)
      /\ pData[j] <= Array!pivot /\ (i < Array!capacity => pData[i] > Array!pivot)
  BY <1>1 DEF ArrayInv, Partitioning
<1>4. /\ i < Array!High /\ i < Array!capacity /\ Array!Low <= j /\ Array!Low <= i
      /\ i \in 0..(size - 1) /\ j \in 0..(size - 1)
  BY <1>1, <1>2, <1>3
<1>5. PICK e : e = pData'
  OBVIOUS
<1>6. /\ Array!capacity' = Array!capacity /\ Array!ElementsKept'
      /\ e \in [0..(Array!capacity - 1) -> Items]
      /\ e[i] = pData[j] /\ e[j] = pData[i]
      /\ \A k \in 0..(Array!capacity - 1) : k # i /\ k # j => e[k] = pData[k]
  BY <1>1, <1>4, <1>5, SwapKeeps, Zenon
<1>7. ArrayTyped'
  BY <1>1, <1>5, <1>6 DEF ArrayInv, ArrayTyped
<1>8. Disjoint'
  BY <1>1 DEF ArrayInv, Disjoint, Within
<1>9. \A k, l \in 0..(size - 1) :
        k < l => e[k] <= e[l] \/ \E r \in 1..Len(ranges) : Within(r, k) /\ Within(r, l)
  <2>. SUFFICES ASSUME NEW k \in 0..(size - 1), NEW l \in 0..(size - 1), k < l
                PROVE  e[k] <= e[l] \/ \E r \in 1..Len(ranges) : Within(r, k) /\ Within(r, l)
    OBVIOUS
  <2>1. CASE Array!Low <= k /\ k < Array!High /\ Array!Low <= l /\ l < Array!High
    <3>1. PICK n \in Nat : /\ n + 1 = Len(ranges)
                           /\ Array!Low = ranges[n + 1][1] /\ Array!High = ranges[n + 1][2]
      BY <1>2, Innermost DEF ArrayInv
    <3>2. n + 1 \in 1..Len(ranges)
      BY <3>1
    <3>. QED
      BY <2>1, <3>1, <3>2 DEF Within
  <2>2. CASE ~(Array!Low <= k /\ k < Array!High /\ Array!Low <= l /\ l < Array!High)
    BY <1>1, <1>2, <1>3, <1>4, <1>6, <2>2, SwapSeparates
  <2>. QED
    BY <2>1, <2>2
<1>10. Separated'
  BY <1>1, <1>5, <1>9 DEF Separated, Within
<1>11. Array!Low' = Array!Low /\ Array!High' = Array!High
  BY <1>1 DEF Array!Low, Array!High
<1>12. Array!pivot' = Array!pivot
  <2>1. Array!Low \in 0..(Array!capacity - 1) /\ Array!Low # i /\ Array!Low # j
    BY <1>1, <1>2, <1>3
  <2>2. e[Array!Low] = pData[Array!Low]
    BY <1>6, <2>1
  <2>. QED
    BY <1>2, <1>5, <1>11, <2>2 DEF Array!pivot
<1>13. \A k \in (Array!Low + 1)..i : e[k] <= Array!pivot
  <2>. SUFFICES ASSUME NEW k \in (Array!Low + 1)..i PROVE e[k] <= Array!pivot
    OBVIOUS
  <2>1. CASE k = i
    BY <1>3, <1>6, <2>1
  <2>2. CASE k # i
    <3>1. k \in (Array!Low + 1)..(i - 1) /\ k \in 0..(Array!capacity - 1) /\ k # j
      BY <1>1, <1>2, <1>4, <2>2
    <3>. QED
      BY <1>3, <1>6, <2>2, <3>1 DEF Passed
  <2>. QED
    BY <2>1, <2>2
<1>14. \A k \in j..(Array!High - 1) : e[k] > Array!pivot
  <2>. SUFFICES ASSUME NEW k \in j..(Array!High - 1) PROVE e[k] > Array!pivot
    OBVIOUS
  <2>1. CASE k = j
    BY <1>3, <1>4, <1>6, <2>1
  <2>2. CASE k # j
    <3>1. k \in (j + 1)..(Array!High - 1) /\ k \in 0..(Array!capacity - 1) /\ k # i
      BY <1>1, <1>2, <1>4, <2>2
    <3>. QED
      BY <1>3, <1>6, <2>2, <3>1 DEF Passed
  <2>. QED
    BY <2>1, <2>2
<1>15. Passed(i + 1, j)'
  <2>1. (i + 1) - 1 = i
    BY <1>2
  <2>. QED
    BY <1>1, <1>5, <1>11, <1>12, <1>13, <1>14, <2>1 DEF Passed
<1>16. Partitioning'
  <2>1. Array!Low <= i /\ i < j /\ j <= Array!High
    BY <1>1, <1>2, <1>3
  <2>. QED
    BY <1>1, <1>2, <1>11, <1>15, <2>1 DEF Partitioning
<1>. QED
  BY <1>6, <1>7, <1>8, <1>10, <1>16 DEF ArrayInv

(* The ranges after a split: two more. *)
TwoMore(t, s, a, b) == t = s \o <<a, b>>

SplitInto(t, s, n, a, b) ==
  /\ t \in Seq(Nat \X Nat) /\ Len(t) = n + 2
  /\ \A r \in 1..n : t[r] = s[r]
  /\ t[n + 1] = a /\ t[n + 2] = b
  /\ \A r \in 1..Len(t) : r \in 1..n \/ r = n + 1 \/ r = n + 2

LEMMA SplitRanges ==
  ASSUME NEW s \in Seq(Nat \X Nat), NEW n \in Nat, Len(s) = n,
         NEW a \in Nat \X Nat, NEW b \in Nat \X Nat, NEW t, TwoMore(t, s, a, b)
  PROVE  SplitInto(t, s, n, a, b)
<1>. DEFINE p == <<a, b>>
<1>1. p \in Seq(Nat \X Nat) /\ Len(p) = 2 /\ p[1] = a /\ p[2] = b
  OBVIOUS
<1>. HIDE DEF p
<1>2. /\ t \in Seq(Nat \X Nat) /\ Len(t) = n + 2
      /\ \A k \in 1..(n + 2) : t[k] = IF k <= n THEN s[k] ELSE p[k - n]
  <2>1. t = s \o p
    BY DEF p, TwoMore
  <2>2. /\ t \in Seq(Nat \X Nat) /\ Len(t) = Len(s) + Len(p)
        /\ \A k \in 1..(Len(s) + Len(p)) : t[k] = IF k <= Len(s) THEN s[k] ELSE p[k - Len(s)]
    BY <1>1, <2>1, ConcatProperties, Zenon
  <2>. QED
    BY <1>1, <2>2, Zenon
<1>3. /\ n + 1 \in 1..(n + 2) /\ ~(n + 1 <= n) /\ (n + 1) - n = 1
      /\ n + 2 \in 1..(n + 2) /\ ~(n + 2 <= n) /\ (n + 2) - n = 2
      /\ \A r \in 1..n : r \in 1..(n + 2) /\ r <= n
  OBVIOUS
<1>4. \A r \in 1..(n + 2) : r \in 1..n \/ r = n + 1 \/ r = n + 2
  OBVIOUS
<1>5. t[n + 1] = a /\ t[n + 2] = b
  BY <1>1, <1>2, <1>3
<1>6. \A r \in 1..n : t[r] = s[r]
  BY <1>2, <1>3
<1>. QED
  BY <1>2, <1>4, <1>5, <1>6 DEF SplitInto

(* The pivot goes between the two parts. *)
LEMMA SplitArray ==
  ASSUME ArrayInv, Array!Split
  PROVE  ArrayInv'
<1>1. /\ pc = "compare" /\ i >= j /\ pc' = "call" /\ UNCHANGED <<size, i, j, added>>
      /\ pData' = Array!Swapped(Array!Low, j)
      /\ ranges' = Array!Outer \o << <<j + 1, Array!High>>, <<Array!Low, j>> >>
  BY DEF Array!Split
<1>2. /\ ranges # << >> /\ Array!Low \in Nat /\ Array!High \in Nat
      /\ Array!Low < Array!High /\ Array!High <= size /\ size <= Array!capacity
      /\ Array!pivot = pData[Array!Low] /\ Array!pivot \in Int
      /\ Array!capacity \in Nat /\ size \in Nat /\ i \in Nat /\ j \in Nat
      /\ \A k \in 0..(Array!capacity - 1) : pData[k] \in Int
  BY <1>1, PivotIs
<1>3. /\ Array!Low < i /\ Array!Low <= j /\ j < Array!High /\ Passed(i, j + 1)
      /\ pData[j] <= Array!pivot
  BY <1>1 DEF ArrayInv, Partitioning
<1>4. Array!Low \in 0..(size - 1) /\ j \in 0..(size - 1)
  BY <1>1, <1>2, <1>3
<1>5. PICK e : e = pData'
  OBVIOUS
<1>6. /\ Array!capacity' = Array!capacity /\ Array!ElementsKept'
      /\ e \in [0..(Array!capacity - 1) -> Items]
      /\ e[Array!Low] = pData[j] /\ e[j] = pData[Array!Low]
      /\ \A k \in 0..(Array!capacity - 1) : k # Array!Low /\ k # j => e[k] = pData[k]
  BY <1>1, <1>4, <1>5, SwapKeeps, Zenon
<1>7. PICK n \in Nat :
        /\ n + 1 = Len(ranges)
        /\ Array!Low = ranges[n + 1][1] /\ Array!High = ranges[n + 1][2]
        /\ Array!Outer \in Seq(Nat \X Nat) /\ Len(Array!Outer) = n
        /\ \A r \in 1..n : Array!Outer[r] = ranges[r]
  BY <1>2, Innermost DEF ArrayInv
<1>8. PICK t : t = ranges'
  OBVIOUS
<1>9. /\ t \in Seq(Nat \X Nat) /\ Len(t) = n + 2
      /\ \A r \in 1..n : t[r] = ranges[r]
      /\ t[n + 1] = <<j + 1, Array!High>> /\ t[n + 2] = <<Array!Low, j>>
      /\ \A r \in 1..Len(t) : r \in 1..n \/ r = n + 1 \/ r = n + 2
  <2>. DEFINE upper == <<j + 1, Array!High>>
              lower == <<Array!Low, j>>
  <2>1. upper \in Nat \X Nat /\ lower \in Nat \X Nat
    BY <1>2
  <2>2. TwoMore(t, Array!Outer, upper, lower)
    BY <1>1, <1>8 DEF TwoMore
  <2>. HIDE DEF upper, lower
  <2>3. /\ t \in Seq(Nat \X Nat) /\ Len(t) = n + 2
        /\ \A r \in 1..n : t[r] = Array!Outer[r]
        /\ t[n + 1] = upper /\ t[n + 2] = lower
        /\ \A r \in 1..Len(t) : r \in 1..n \/ r = n + 1 \/ r = n + 2
    <3>1. Array!Outer \in Seq(Nat \X Nat) /\ Len(Array!Outer) = n
      BY <1>7
    <3>2. SplitInto(t, Array!Outer, n, upper, lower)
      BY <2>1, <2>2, <3>1, SplitRanges, Zenon
    <3>. QED
      BY <3>2, Zenon DEF SplitInto
  <2>. QED
    BY <1>7, <2>3 DEF upper, lower
<1>10. \A r \in 1..n : r \in 1..Len(ranges) /\ r # n + 1
  BY <1>7
<1>11. n + 1 \in 1..Len(ranges) /\ n + 1 \in 1..Len(t) /\ n + 2 \in 1..Len(t)
       /\ \A r \in 1..n : r \in 1..Len(t)
  BY <1>7, <1>9
<1>12. ArrayTyped'
  <2>1. \A r \in 1..Len(t) : t[r][2] <= size
    <3>1. \A r \in 1..n : t[r][2] <= size
      BY <1>9, <1>10 DEF ArrayInv, ArrayTyped
    <3>2. t[n + 1][2] <= size /\ t[n + 2][2] <= size
      BY <1>2, <1>3, <1>9
    <3>. QED
      BY <1>9, <3>1, <3>2
  <2>. QED
    BY <1>1, <1>5, <1>6, <1>8, <1>9, <2>1 DEF ArrayInv, ArrayTyped
<1>13. \A k \in Nat : Within(n + 1, k) <=> Array!Low <= k /\ k < Array!High
  BY <1>7 DEF Within
<1>14. /\ \A r \in 1..n, k \in Nat : Within(r, k)' <=> Within(r, k)
       /\ \A k \in Nat : Within(n + 1, k)' <=> j + 1 <= k /\ k < Array!High
       /\ \A k \in Nat : Within(n + 2, k)' <=> Array!Low <= k /\ k < j
  <2>1. \A r, k : Within(r, k)' <=> t[r][1] <= k /\ k < t[r][2]
    BY <1>8, Zenon DEF Within
  <2>2. \A r \in 1..n, k \in Nat : Within(r, k)' <=> Within(r, k)
    BY <1>9, <2>1, Zenon DEF Within
  <2>3. /\ t[n + 1][1] = j + 1 /\ t[n + 1][2] = Array!High
        /\ t[n + 2][1] = Array!Low /\ t[n + 2][2] = j
    BY <1>9
  <2>. QED
    BY <2>1, <2>2, <2>3, Zenon
<1>15. \A k \in Nat : Within(n + 1, k)' \/ Within(n + 2, k)' => Within(n + 1, k)
  BY <1>2, <1>3, <1>13, <1>14
<1>16. \A k \in Nat : ~(Within(n + 1, k)' /\ Within(n + 2, k)')
  BY <1>2, <1>14
<1>17. Disjoint'
  <2>1. \A r, q \in 1..Len(ranges) : r # q => \A k \in Nat : ~(Within(r, k) /\ Within(q, k))
    BY DEF ArrayInv, Disjoint
  <2>2. \A r \in 1..n, q \in {n + 1, n + 2} : \A k \in Nat : ~(Within(r, k)' /\ Within(q, k)')
    BY <1>10, <1>11, <1>14, <1>15, <2>1, Zenon
  <2>3. \A r, q \in 1..n : r # q => \A k \in Nat : ~(Within(r, k)' /\ Within(q, k)')
    BY <1>10, <1>14, <2>1, Zenon
  <2>4. \A r, q \in 1..Len(t) : r # q => \A k \in Nat : ~(Within(r, k)' /\ Within(q, k)')
    BY <1>9, <1>16, <2>2, <2>3, Zenon
  <2>. QED
    BY <1>8, <2>4, Zenon DEF Disjoint
<1>18. \A k \in Array!Low..(j - 1) : e[k] <= Array!pivot
  <2>. SUFFICES ASSUME NEW k \in Array!Low..(j - 1) PROVE e[k] <= Array!pivot
    OBVIOUS
  <2>1. CASE k = Array!Low
    BY <1>3, <1>6, <2>1
  <2>2. CASE k # Array!Low
    <3>1. k \in (Array!Low + 1)..(i - 1) /\ k \in 0..(Array!capacity - 1) /\ k # j
      BY <1>1, <1>2, <1>3, <2>2
    <3>. QED
      BY <1>3, <1>6, <2>2, <3>1 DEF Passed
  <2>. QED
    BY <2>1, <2>2
<1>19. \A k \in (j + 1)..(Array!High - 1) : e[k] > Array!pivot
  <2>. SUFFICES ASSUME NEW k \in (j + 1)..(Array!High - 1) PROVE e[k] > Array!pivot
    OBVIOUS
  <2>1. k \in 0..(Array!capacity - 1) /\ k # j /\ k # Array!Low
    BY <1>1, <1>2, <1>3
  <2>. QED
    BY <1>3, <1>6, <2>1 DEF Passed
<1>20. \A k \in 0..(Array!capacity - 1) : e[k] \in Int
  BY <1>6, ContainersAssumption
<1>21. \A k, l \in 0..(size - 1) :
         k < l => e[k] <= e[l] \/ \E r \in 1..Len(t) : Within(r, k)' /\ Within(r, l)'
  <2>. SUFFICES ASSUME NEW k \in 0..(size - 1), NEW l \in 0..(size - 1), k < l
                PROVE  e[k] <= e[l] \/ \E r \in 1..Len(t) : Within(r, k)' /\ Within(r, l)'
    OBVIOUS
  <2>0. k \in Nat /\ l \in Nat /\ k \in 0..(Array!capacity - 1) /\ l \in 0..(Array!capacity - 1)
    BY <1>2
  <2>1. CASE Array!Low <= k /\ k < Array!High /\ Array!Low <= l /\ l < Array!High
    <3>1. CASE l < j
      <4>1. Within(n + 2, k)' /\ Within(n + 2, l)'
        BY <1>2, <1>14, <2>0, <2>1, <3>1
      <4>. QED
        BY <1>11, <4>1
    <3>2. CASE j < k
      <4>1. Within(n + 1, k)' /\ Within(n + 1, l)'
        BY <1>2, <1>14, <2>0, <2>1, <3>2
      <4>. QED
        BY <1>11, <4>1
    <3>3. CASE k <= j /\ j <= l
      <4>1. e[j] = Array!pivot /\ e[k] \in Int /\ e[l] \in Int /\ Array!pivot \in Int
        BY <1>2, <1>6, <1>20, <2>0
      <4>2. k \in Array!Low..(j - 1) \/ k = j
        BY <1>2, <2>0, <2>1, <3>3
      <4>3. l \in (j + 1)..(Array!High - 1) \/ l = j
        BY <1>2, <2>0, <2>1, <3>3
      <4>4. e[k] <= Array!pivot
        BY <1>18, <4>1, <4>2
      <4>5. Array!pivot <= e[l]
        BY <1>19, <4>1, <4>3
      <4>. QED
        BY <4>1, <4>4, <4>5
    <3>. QED
      BY <1>2, <2>0, <3>1, <3>2, <3>3
  <2>2. CASE ~(Array!Low <= k /\ k < Array!High /\ Array!Low <= l /\ l < Array!High)
    <3>0. e[k] <= e[l] \/ \E r \in 1..Len(ranges) : Within(r, k) /\ Within(r, l)
      <4>1. Array!Low <= Array!Low
        BY <1>2
      <4>. QED
        BY <1>1, <1>2, <1>3, <1>6, <2>2, <4>1, SwapSeparates
    <3>1. CASE e[k] <= e[l]
      BY <3>1
    <3>2. CASE \E r \in 1..Len(ranges) : Within(r, k) /\ Within(r, l)
      <4>1. PICK r \in 1..Len(ranges) : Within(r, k) /\ Within(r, l)
        BY <3>2
      <4>2. r # n + 1
        BY <1>13, <2>0, <2>2, <4>1
      <4>3. r \in 1..n
        BY <1>7, <4>2
      <4>. QED
        BY <1>11, <1>14, <2>0, <4>1, <4>3
    <3>. QED
      BY <3>0, <3>1, <3>2
  <2>. QED
    BY <2>1, <2>2
<1>22. Separated'
  BY <1>1, <1>5, <1>8, <1>21, Zenon DEF Separated
<1>23. Partitioning'
  BY <1>1 DEF Partitioning
<1>. QED
  BY <1>6, <1>12, <1>17, <1>22, <1>23 DEF ArrayInv

LEMMA NextArray == ArrayInv /\ [Array!Next]_arrayVars => ArrayInv'
<1>. SUFFICES ASSUME ArrayInv, [Array!Next]_arrayVars PROVE ArrayInv'
  OBVIOUS
<1>1. ASSUME NEW value \in Items, Array!Add(value) PROVE ArrayInv'
  BY <1>1, AddArray
<1>2. CASE Array!QuickSort
  BY <1>2, QuickSortArray
<1>3. CASE Array!BeginRange
  BY <1>3, BeginArray
<1>4. CASE Array!ScanUp
  BY <1>4, ScanUpArray
<1>5. CASE Array!ScanDown
  BY <1>5, ScanDownArray
<1>6. CASE Array!Exchange
  BY <1>6, ExchangeArray
<1>7. CASE Array!Split
  BY <1>7, SplitArray
<1>8. CASE Array!ReturnSorted
  BY <1>8, ReturnArray
<1>9. CASE UNCHANGED arrayVars
  <2>1. UNCHANGED <<pData, size, ranges, pc, i, j, added>>
    BY <1>9 DEF arrayVars
  <2>2. Array!capacity' = Array!capacity /\ Array!ElementsKept'
    BY <2>1, SameArray
  <2>3. ArrayTyped'
    BY <2>1, <2>2 DEF ArrayInv, ArrayTyped
  <2>4. Disjoint' /\ Separated'
    BY <2>1 DEF ArrayInv, Disjoint, Separated, Within
  <2>5. /\ Array!Low' = Array!Low /\ Array!High' = Array!High /\ Array!pivot' = Array!pivot
    BY <2>1 DEF Array!Low, Array!High, Array!pivot
  <2>6. Partitioning'
    BY <2>1, <2>2, <2>5 DEF ArrayInv, Partitioning, Passed
  <2>. QED
    BY <2>2, <2>3, <2>4, <2>6 DEF ArrayInv
<1>. QED
  BY <1>1, <1>2, <1>3, <1>4, <1>5, <1>6, <1>7, <1>8, <1>9 DEF Array!Next, Array!SortStep

(* A step of any of the containers is one of the array, or leaves it alone. *)
LEMMA AnyStepOfArray ==
  [UseTree \/ UseArray \/ UseList]_allVars => [Array!Next]_arrayVars
  BY DEF UseTree, UseArray, UseList, allVars, arrayVars

(* An element that is in no range still to be sorted is in its place. *)
LEMMA SeparatedIsFinal == ArrayInv => SplitsAreFinal
<1>. SUFFICES ASSUME ArrayInv, pc = "call", NEW k \in 0..(size - 1),
                     ~\E r \in DOMAIN ranges : k \in ranges[r][1]..(ranges[r][2] - 1)
              PROVE  /\ \A l \in 0..(k - 1) : pData[l] <= pData[k]
                     /\ \A l \in (k + 1)..(size - 1) : pData[k] <= pData[l]
  BY DEF SplitsAreFinal, Array!SplitsAreFinal
<1>1. size \in Nat /\ ranges \in Seq(Nat \X Nat)
  BY DEF ArrayInv, ArrayTyped
<1>2. \A r \in 1..Len(ranges) : ~Within(r, k)
  <2>. SUFFICES ASSUME NEW r \in 1..Len(ranges), Within(r, k) PROVE FALSE
    OBVIOUS
  <2>1. r \in DOMAIN ranges /\ ranges[r] \in Nat \X Nat
    BY <1>1
  <2>2. k \in ranges[r][1]..(ranges[r][2] - 1)
    BY <1>1, <2>1 DEF Within
  <2>. QED
    BY <2>1, <2>2
<1>3. \A x, y \in 0..(size - 1) :
        x < y => pData[x] <= pData[y] \/ \E r \in 1..Len(ranges) : Within(r, x) /\ Within(r, y)
  BY DEF ArrayInv, Separated
<1>4. /\ \A l \in 0..(k - 1) : l \in 0..(size - 1) /\ l < k
      /\ \A l \in (k + 1)..(size - 1) : l \in 0..(size - 1) /\ k < l
  BY <1>1
<1>. QED
  BY <1>2, <1>3, <1>4

(* Neither growing the array nor any step of a sort loses an element or takes
   one in that Add did not put there (Add, Reallocate, Partition). *)
THEOREM ElementsAlwaysKept == Array!Spec \/ MCSpec => []ElementsKept
<1>1. [Array!Next]_(Array!vars) => [Array!Next]_arrayVars
  BY DEF Array!vars, arrayVars
<1>2. ArrayInv => ElementsKept
  BY DEF ArrayInv, ElementsKept
<1>. QED
  BY <1>1, <1>2, InitArray, NextArray, AnyStepOfArray, PTL DEF Array!Spec, MCSpec, MCInit

(* Whatever Partition has put in its place stays there, so that the array is
   sorted when QuickSort returns. *)
THEOREM SplitsAlwaysFinal == Array!Spec \/ MCSpec => []SplitsAreFinal
<1>1. [Array!Next]_(Array!vars) => [Array!Next]_arrayVars
  BY DEF Array!vars, arrayVars
<1>. QED
  BY <1>1, SeparatedIsFinal, InitArray, NextArray, AnyStepOfArray, PTL
     DEF Array!Spec, MCSpec, MCInit

-----------------------------------------------------------------------------
(* REList: chains *)

(* Every link leads to a node that was made later, or is null. *)
Forward(heap) ==
  \A n \in 1..Len(heap) :
    heap[n].pNext \in 0..Len(heap) /\ (heap[n].pNext = 0 \/ n < heap[n].pNext)

(* The nodes that are visited from node n on. *)
ChainFrom(heap, n, s) ==
  /\ s \in Seq(1..Len(heap))
  /\ IF n = 0 THEN s = << >> ELSE s # << >> /\ s[1] = n
  /\ \A k \in 1..Len(s) : heap[s[k]].pNext = IF k = Len(s) THEN 0 ELSE s[k + 1]

(* What holds at the end of a chain, and for a node when it holds for the next
   one, holds for all. *)
LEMMA AgainstTheLinks ==
  ASSUME NEW heap, Len(heap) \in Nat, Forward(heap), NEW G, 0 \in G,
         \A n \in 1..Len(heap) : heap[n].pNext \in G => n \in G
  PROVE  \A n \in 0..Len(heap) : n \in G
<1>. DEFINE N == Len(heap)
            T == {m \in 0..N : N - m \notin G}
<1>1. ASSUME T # {} PROVE FALSE
  <2>1. T \subseteq Nat
    OBVIOUS
  <2>2. PICK m \in T : \A y \in T : m <= y
    <3>. HIDE DEF T
    <3>. QED
      BY <1>1, <2>1, LeastNatural
  <2>3. N - m \in 1..N /\ N - m \notin G /\ m \in 0..N
    <3>1. N - m \in 0..N /\ N - m \notin G /\ m \in 0..N
      BY <2>2
    <3>. QED
      BY <3>1
  <2>4. PICK q : q = heap[N - m].pNext
    OBVIOUS
  <2>5. q \in 0..N /\ q \notin G /\ (q = 0 \/ N - m < q)
    BY <2>3, <2>4 DEF Forward
  <2>6. q # 0 /\ N - q \in 0..N /\ N - (N - q) = q /\ N - q < m
    BY <2>3, <2>5
  <2>7. N - q \in T
    BY <2>5, <2>6
  <2>. QED
    BY <2>2, <2>3, <2>5, <2>6, <2>7
<1>2. ASSUME NEW n \in 0..N PROVE n \in G
  <2>1. N - n \in 0..N /\ N - (N - n) = n
    OBVIOUS
  <2>2. N - n \notin T
    BY <1>1
  <2>. QED
    BY <2>1, <2>2
<1>. QED
  BY <1>2

LEMMA EmptyChain ==
  ASSUME NEW heap
  PROVE  ChainFrom(heap, 0, << >>) /\ \A s : ChainFrom(heap, 0, s) => s = << >>
  BY DEF ChainFrom

(* Sequences as their heads and tails. *)
LEMMA Prefixed ==
  ASSUME NEW S, NEW n \in S, NEW s \in Seq(S), NEW t, t = <<n>> \o s
  PROVE  /\ t \in Seq(S) /\ Len(t) = Len(s) + 1 /\ t # << >>
         /\ t[1] = n /\ \A k \in 1..Len(s) : t[k + 1] = s[k]
<1>1. <<n>> \in Seq(S) /\ Len(<<n>>) = 1 /\ <<n>>[1] = n
  OBVIOUS
<1>2. /\ t \in Seq(S) /\ Len(t) = 1 + Len(s)
      /\ \A k \in 1..(1 + Len(s)) : t[k] = IF k <= 1 THEN <<n>>[k] ELSE s[k - 1]
  BY <1>1, ConcatProperties
<1>3. t[1] = n
  BY <1>1, <1>2
<1>4. \A k \in 1..Len(s) : t[k + 1] = s[k]
  <2>1. \A k \in 1..Len(s) : k + 1 \in 1..(1 + Len(s)) /\ ~(k + 1 <= 1) /\ (k + 1) - 1 = k
    OBVIOUS
  <2>. QED
    BY <1>2, <2>1
<1>. QED
  BY <1>2, <1>3, <1>4

(* A chain is a node and the chain from the next one on. *)
LEMMA LongerChain ==
  ASSUME NEW heap, Len(heap) \in Nat, Forward(heap), NEW n \in 1..Len(heap),
         NEW s, ChainFrom(heap, heap[n].pNext, s)
  PROVE  ChainFrom(heap, n, <<n>> \o s)
<1>1. PICK t : t = <<n>> \o s
  OBVIOUS
<1>2. s \in Seq(1..Len(heap)) /\ Len(s) \in Nat
  BY DEF ChainFrom
<1>3. /\ t \in Seq(1..Len(heap)) /\ Len(t) = Len(s) + 1 /\ t # << >>
      /\ t[1] = n /\ \A k \in 1..Len(s) : t[k + 1] = s[k]
  BY <1>1, <1>2, Prefixed
<1>4. ASSUME NEW k \in 1..Len(t)
      PROVE  heap[t[k]].pNext = IF k = Len(t) THEN 0 ELSE t[k + 1]
  <2>1. CASE k = 1
    <3>1. CASE heap[n].pNext = 0
      <4>1. s = << >> /\ Len(s) = 0
        BY <3>1 DEF ChainFrom
      <4>. QED
        BY <1>3, <2>1, <3>1, <4>1
    <3>2. CASE heap[n].pNext # 0
      <4>1. s # << >> /\ s[1] = heap[n].pNext
        BY <3>2 DEF ChainFrom
      <4>2. 1 \in 1..Len(s)
        BY <1>2, <4>1
      <4>3. t[1 + 1] = s[1]
        BY <1>3, <4>2
      <4>4. 1 # Len(t)
        BY <1>2, <1>3, <4>2
      <4>. QED
        BY <1>3, <2>1, <4>1, <4>3, <4>4
    <3>. QED
      BY <3>1, <3>2
  <2>2. CASE k # 1
    <3>1. PICK l \in 1..Len(s) : k = l + 1 /\ (k = Len(t) <=> l = Len(s))
      <4>1. k - 1 \in 1..Len(s) /\ k = (k - 1) + 1 /\ (k = Len(t) <=> k - 1 = Len(s))
        BY <1>2, <1>3, <2>2
      <4>. QED
        BY <4>1
    <3>2. t[k] = s[l]
      BY <1>3, <3>1
    <3>3. heap[s[l]].pNext = IF l = Len(s) THEN 0 ELSE s[l + 1]
      BY DEF ChainFrom
    <3>4. l # Len(s) => t[k + 1] = s[l + 1]
      <4>1. l # Len(s) => l + 1 \in 1..Len(s)
        BY <1>2
      <4>. QED
        BY <1>3, <3>1, <4>1
    <3>. QED
      BY <3>1, <3>2, <3>3, <3>4
  <2>. QED
    BY <2>1, <2>2
<1>5. n # 0
  OBVIOUS
<1>6. ChainFrom(heap, n, t)
  BY <1>3, <1>4, <1>5 DEF ChainFrom
<1>. QED
  BY <1>1, <1>6

(* The chain s from node n goes on with t. *)
GoesOn(heap, n, s, t) ==
  /\ ChainFrom(heap, heap[n].pNext, t)
  /\ s = <<n>> \o t /\ t \in Seq(1..Len(heap)) /\ Len(s) = Len(t) + 1
  /\ s[1] = n /\ \A k \in 1..Len(t) : s[k + 1] = t[k]

LEMMA ShorterChain ==
  ASSUME NEW heap, Len(heap) \in Nat, NEW n \in 1..Len(heap), NEW s, ChainFrom(heap, n, s)
  PROVE  \E t : GoesOn(heap, n, s, t)
<1>1. s \in Seq(1..Len(heap)) /\ s # << >> /\ s[1] = n
  BY DEF ChainFrom
<1>2. PICK t : t = Tail(s)
  OBVIOUS
<1>3. /\ t \in Seq(1..Len(heap)) /\ Len(t) = Len(s) - 1 /\ Len(s) \in Nat \ {0}
      /\ \A k \in 1..Len(t) : t[k] = s[k + 1]
  <2>1. t \in Seq(1..Len(heap)) /\ Len(t) = Len(s) - 1 /\ Len(s) \in Nat \ {0}
    BY <1>1, <1>2
  <2>2. \A k \in 1..Len(t) : t[k] = s[k + 1]
    BY <1>1, <1>2
  <2>. QED
    BY <2>1, <2>2
<1>4. Len(t) \in Nat /\ Len(s) = Len(t) + 1
  BY <1>3
<1>5. s = <<n>> \o t
  <2>1. PICK u : u = <<n>> \o t
    OBVIOUS
  <2>2. /\ u \in Seq(1..Len(heap)) /\ Len(u) = Len(t) + 1
        /\ u[1] = n /\ \A k \in 1..Len(t) : u[k + 1] = t[k]
    BY <1>3, <2>1, Prefixed
  <2>3. ASSUME NEW k \in 1..Len(s) PROVE s[k] = u[k]
    <3>1. CASE k = 1
      BY <1>1, <2>2, <3>1
    <3>2. CASE k # 1
      <4>1. k - 1 \in 1..Len(t) /\ (k - 1) + 1 = k
        BY <1>4, <3>2
      <4>. QED
        BY <1>3, <2>2, <4>1
    <3>. QED
      BY <3>1, <3>2
  <2>. QED
    BY <1>1, <1>4, <2>1, <2>2, <2>3, SeqEqual
<1>6. ASSUME NEW k \in 1..Len(t)
      PROVE  heap[t[k]].pNext = IF k = Len(t) THEN 0 ELSE t[k + 1]
  <2>1. /\ k + 1 \in 1..Len(s) /\ (k = Len(t) <=> k + 1 = Len(s))
        /\ (k # Len(t) => k + 1 \in 1..Len(t))
    BY <1>4
  <2>2. heap[s[k + 1]].pNext = IF k + 1 = Len(s) THEN 0 ELSE s[(k + 1) + 1]
    BY <2>1 DEF ChainFrom
  <2>3. t[k] = s[k + 1] /\ (k # Len(t) => t[k + 1] = s[(k + 1) + 1])
    BY <1>3, <2>1
  <2>. QED
    BY <2>1, <2>2, <2>3
<1>7. IF heap[n].pNext = 0 THEN t = << >> ELSE t # << >> /\ t[1] = heap[n].pNext
  <2>1. 1 \in 1..Len(s) /\ heap[n].pNext = IF 1 = Len(s) THEN 0 ELSE s[1 + 1]
    BY <1>1, <1>3 DEF ChainFrom
  <2>2. CASE 1 = Len(s)
    <3>1. Len(t) = 0
      BY <1>4, <2>2
    <3>. QED
      BY <1>3, <2>1, <2>2, <3>1, EmptySeq
  <2>3. CASE 1 # Len(s)
    <3>1. 1 \in 1..Len(t) /\ t # << >>
      BY <1>3, <1>4, <2>3
    <3>2. t[1] = s[1 + 1] /\ t[1] \in 1..Len(heap)
      BY <1>3, <3>1
    <3>3. t[1] # 0
      BY <3>2
    <3>. QED
      BY <2>1, <2>3, <3>1, <3>2, <3>3
  <2>. QED
    BY <2>2, <2>3
<1>8. ChainFrom(heap, heap[n].pNext, t)
  BY <1>3, <1>6, <1>7 DEF ChainFrom
<1>9. \A k \in 1..Len(t) : s[k + 1] = t[k]
  BY <1>3
<1>. QED
  BY <1>1, <1>3, <1>4, <1>5, <1>8, <1>9 DEF GoesOn

(* There is one chain from each node. *)
LEMMA OneChain ==
  ASSUME NEW heap, Len(heap) \in Nat, Forward(heap)
  PROVE  \A n \in 0..Len(heap) :
           /\ \E s : ChainFrom(heap, n, s)
           /\ \A s, t : ChainFrom(heap, n, s) /\ ChainFrom(heap, n, t) => s = t
<1>. DEFINE G == {n \in 0..Len(heap) :
                    /\ \E s : ChainFrom(heap, n, s)
                    /\ \A s, t : ChainFrom(heap, n, s) /\ ChainFrom(heap, n, t) => s = t}
<1>1. 0 \in G
  <2>1. 0 \in 0..Len(heap)
    OBVIOUS
  <2>. QED
    BY <2>1, EmptyChain, Zenon
<1>2. ASSUME NEW n \in 1..Len(heap), heap[n].pNext \in G PROVE n \in G
  <2>1. n \in 0..Len(heap)
    OBVIOUS
  <2>2. \E s : ChainFrom(heap, n, s)
    BY <1>2, LongerChain, Zenon
  <2>3. ASSUME NEW s, NEW t, ChainFrom(heap, n, s), ChainFrom(heap, n, t) PROVE s = t
    <3>1. PICK u : GoesOn(heap, n, s, u)
      BY <2>3, ShorterChain, Zenon
    <3>2. PICK v : GoesOn(heap, n, t, v)
      BY <2>3, ShorterChain, Zenon
    <3>3. u = v
      BY <1>2, <3>1, <3>2, Zenon DEF GoesOn
    <3>. QED
      BY <3>1, <3>2, <3>3, Zenon DEF GoesOn
  <2>. QED
    BY <2>1, <2>2, <2>3
<1>3. \A n \in 0..Len(heap) : n \in G
  <2>. HIDE DEF G
  <2>. QED
    BY <1>1, <1>2, AgainstTheLinks
<1>. QED
  BY <1>3

(* It visits each node once. *)
LEMMA ChainAscends ==
  ASSUME NEW heap, Len(heap) \in Nat, Forward(heap)
  PROVE  \A n \in 0..Len(heap) : \A s : ChainFrom(heap, n, s) =>
           \A k, l \in 1..Len(s) : k < l => s[k] < s[l]
<1>. DEFINE P(n, s) == /\ \A k \in 1..Len(s) : n <= s[k]
                       /\ \A k, l \in 1..Len(s) : k < l => s[k] < s[l]
            G == {n \in 0..Len(heap) : \A s : ChainFrom(heap, n, s) => P(n, s)}
<1>1. 0 \in G
  <2>1. 0 \in 0..Len(heap)
    OBVIOUS
  <2>2. P(0, << >>)
    OBVIOUS
  <2>. HIDE DEF P
  <2>. QED
    BY <2>1, <2>2, EmptyChain, Zenon
<1>2. ASSUME NEW n \in 1..Len(heap), heap[n].pNext \in G PROVE n \in G
  <2>1. n \in 0..Len(heap)
    OBVIOUS
  <2>2. ASSUME NEW s, ChainFrom(heap, n, s) PROVE P(n, s)
    <3>0. PICK t : GoesOn(heap, n, s, t)
      BY <2>2, ShorterChain, Zenon
    <3>1. /\ ChainFrom(heap, heap[n].pNext, t)
          /\ t \in Seq(1..Len(heap)) /\ Len(s) = Len(t) + 1
          /\ s[1] = n /\ \A k \in 1..Len(t) : s[k + 1] = t[k]
      BY <3>0 DEF GoesOn
    <3>2. P(heap[n].pNext, t)
      BY <1>2, <3>1
    <3>3. \A k \in 1..Len(t) : n < t[k] /\ t[k] \in Nat
      <4>. SUFFICES ASSUME NEW k \in 1..Len(t) PROVE n < t[k] /\ t[k] \in Nat
        OBVIOUS
      <4>1. t # << >> /\ t[k] \in 1..Len(heap)
        BY <3>1
      <4>2. heap[n].pNext # 0
        BY <3>1, <4>1 DEF ChainFrom
      <4>3. n < heap[n].pNext /\ heap[n].pNext \in 0..Len(heap)
        BY <4>2 DEF Forward
      <4>4. heap[n].pNext <= t[k]
        BY <3>2
      <4>. QED
        BY <4>1, <4>3, <4>4
    <3>4. \A k \in 1..Len(s) : k = 1 \/ \E m \in 1..Len(t) : k = m + 1
      <4>1. Len(t) \in Nat
        BY <3>1
      <4>2. \A k \in 1..Len(s) : k # 1 => k - 1 \in 1..Len(t) /\ k = (k - 1) + 1
        BY <3>1, <4>1
      <4>. QED
        BY <4>2
    <3>5. ASSUME NEW k \in 1..Len(s) PROVE n <= s[k]
      <4>1. CASE k = 1
        BY <3>1, <4>1
      <4>2. CASE k # 1
        <5>1. PICK m \in 1..Len(t) : k = m + 1
          BY <3>4, <4>2
        <5>2. s[k] = t[m]
          BY <3>1, <5>1
        <5>3. n < t[m] /\ t[m] \in Nat /\ n \in Nat
          BY <3>3
        <5>. QED
          BY <5>2, <5>3
      <4>. QED
        BY <4>1, <4>2
    <3>6. ASSUME NEW k \in 1..Len(s), NEW l \in 1..Len(s), k < l PROVE s[k] < s[l]
      <4>1. PICK m \in 1..Len(t) : l = m + 1
        BY <3>4, <3>6
      <4>2. CASE k = 1
        BY <3>1, <3>3, <4>1, <4>2
      <4>3. CASE k # 1
        <5>1. PICK q \in 1..Len(t) : k = q + 1
          BY <3>4, <4>3
        <5>2. q < m
          BY <3>6, <4>1, <5>1
        <5>. QED
          BY <3>1, <3>2, <4>1, <5>1, <5>2
      <4>. QED
        BY <4>2, <4>3
    <3>. QED
      BY <3>5, <3>6
  <2>. HIDE DEF P
  <2>. QED
    BY <2>1, <2>2
<1>3. \A n \in 0..Len(heap) : n \in G
  <2>. HIDE DEF G
  <2>. QED
    BY <1>1, <1>2, AgainstTheLinks
<1>. QED
  BY <1>3

(* The loops over pNext visit the chain from the head on. *)
LEMMA ChainIs ==
  ASSUME Len(cells) \in Nat, Forward(cells), pHead \in 0..Len(cells),
         NEW c, ChainFrom(cells, pHead, c)
  PROVE  List!Chain = c
<1>. DEFINE Step(f) == [n \in 0..Len(cells) |->
                          IF n = 0 THEN << >> ELSE <<n>> \o f[cells[n].pNext]]
            from == CHOOSE f : f = Step(f)
<1>1. List!Chain = from[pHead]
  BY DEF List!Chain
<1>2. from = Step(from)
  <2>. DEFINE h == [n \in 0..Len(cells) |-> CHOOSE s : ChainFrom(cells, n, s)]
  <2>1. \A n \in 0..Len(cells) : ChainFrom(cells, n, h[n])
    BY OneChain
  <2>. HIDE DEF h
  <2>2. h[0] = << >>
    <3>1. 0 \in 0..Len(cells)
      OBVIOUS
    <3>. QED
      BY <2>1, <3>1, EmptyChain
  <2>3. ASSUME NEW n \in 1..Len(cells) PROVE h[n] = <<n>> \o h[cells[n].pNext]
    <3>1. cells[n].pNext \in 0..Len(cells) /\ n \in 0..Len(cells)
      BY DEF Forward
    <3>2. PICK s : s = <<n>> \o h[cells[n].pNext]
      OBVIOUS
    <3>3. ChainFrom(cells, n, s)
      BY <2>1, <3>1, <3>2, LongerChain
    <3>4. ChainFrom(cells, n, h[n])
      BY <2>1, <3>1, Zenon
    <3>5. h[n] = s
      BY <3>1, <3>3, <3>4, OneChain, Zenon
    <3>. QED
      BY <3>2, <3>5
  <2>4. \A n \in 0..Len(cells) : n = 0 \/ n \in 1..Len(cells)
    OBVIOUS
  <2>5. h = Step(h)
    <3>1. h = [n \in 0..Len(cells) |-> h[n]]
      BY DEF h
    <3>2. \A n \in 0..Len(cells) :
            h[n] = IF n = 0 THEN << >> ELSE <<n>> \o h[cells[n].pNext]
      BY <2>2, <2>3, <2>4
    <3>. QED
      BY <3>1, <3>2
  <2>. HIDE DEF Step
  <2>. QED
    BY <2>5, Zenon
<1>. HIDE DEF from
<1>3. \A n \in 0..Len(cells) :
        from[n] = IF n = 0 THEN << >> ELSE <<n>> \o from[cells[n].pNext]
  BY <1>2
<1>. DEFINE G == {n \in 0..Len(cells) : ChainFrom(cells, n, from[n])}
<1>4. 0 \in G
  <2>1. 0 \in 0..Len(cells)
    OBVIOUS
  <2>2. from[0] = << >>
    BY <1>3, <2>1
  <2>. QED
    BY <2>1, <2>2, EmptyChain
<1>5. ASSUME NEW n \in 1..Len(cells), cells[n].pNext \in G PROVE n \in G
  <2>1. n \in 0..Len(cells) /\ n # 0
    OBVIOUS
  <2>2. from[n] = <<n>> \o from[cells[n].pNext]
    BY <1>3, <2>1
  <2>. QED
    BY <1>5, <2>1, <2>2, LongerChain
<1>6. \A n \in 0..Len(cells) : n \in G
  <2>. HIDE DEF G
  <2>. QED
    BY <1>4, <1>5, AgainstTheLinks
<1>7. ChainFrom(cells, pHead, from[pHead])
  BY <1>6
<1>. QED
  BY <1>1, <1>7, OneChain

-----------------------------------------------------------------------------
(* REList: the invariant *)

Cells == [value : Items, pNext : Nat]

(* The chain c from the head on has the values, and the other nodes are gone. *)
Holds(heap, head, values, gone, c) ==
  /\ ChainFrom(heap, head, c)
  /\ Len(values) = Len(c)
  /\ \A k \in 1..Len(c) : values[k] = heap[c[k]].value
  /\ \A n \in 1..Len(heap) : n \in gone <=> \A k \in 1..Len(c) : c[k] # n

ListOK(heap, head, values, gone) ==
  /\ heap \in Seq(Cells) /\ Forward(heap)
  /\ values \in Seq(Items)
  /\ head \in 0..Len(heap) /\ gone \subseteq 1..Len(heap)
  /\ \E c : Holds(heap, head, values, gone, c)

ListFine == ~undefined /\ ListOK(cells, pHead, expected, deleted)

(* The inductive invariant: once the list is not intact, nothing is said. *)
ListInv == List!Intact => ListFine

(* The heap with a new node of value v. *)
WithNew(heap, v) == Append(heap, [value |-> v, pNext |-> 0])

Longer(heap, v, more) ==
  /\ more \in Seq(Cells) /\ Len(more) = Len(heap) + 1 /\ Len(heap) \in Nat
  /\ more[Len(heap) + 1].value = v /\ more[Len(heap) + 1].pNext = 0
  /\ \A n \in 1..Len(heap) : more[n] = heap[n]

(* Nothing else changes. *)
LEMMA OneMore ==
  ASSUME NEW heap \in Seq(Cells), NEW v \in Items
  PROVE  Longer(heap, v, WithNew(heap, v))
<1>. DEFINE more == WithNew(heap, v)
<1>1. PICK cell : cell = [value |-> v, pNext |-> 0]
  OBVIOUS
<1>2. cell \in Cells /\ cell.value = v /\ cell.pNext = 0
  BY <1>1 DEF Cells
<1>3. more = Append(heap, cell)
  BY <1>1 DEF WithNew
<1>. QED
  BY <1>2, <1>3, AppendProperties DEF Longer

(* The heap with the link from a to b. *)
WithLink(heap, a, b) == [heap EXCEPT ![a].pNext = b]

SameBut(heap, a, b, linked) ==
  /\ linked \in Seq(Cells) /\ Len(linked) = Len(heap) /\ Len(heap) \in Nat
  /\ linked[a].pNext = b
  /\ \A n \in 1..Len(heap) : /\ linked[n].value = heap[n].value
                             /\ n # a => linked[n].pNext = heap[n].pNext

(* Nothing else changes. *)
LEMMA Relinked ==
  ASSUME NEW heap \in Seq(Cells), NEW a \in 1..Len(heap), NEW b \in Nat
  PROVE  SameBut(heap, a, b, WithLink(heap, a, b))
<1>. DEFINE linked == WithLink(heap, a, b)
<1>1. heap[a] \in Cells
  BY ElementOfSeq
<1>2. PICK cell : cell = [heap[a] EXCEPT !.pNext = b]
  OBVIOUS
<1>3. cell \in Cells /\ cell.value = heap[a].value /\ cell.pNext = b
  BY <1>1, <1>2 DEF Cells
<1>4. linked = [heap EXCEPT ![a] = cell]
  BY <1>2 DEF WithLink
<1>. HIDE DEF linked
<1>5. linked \in Seq(Cells) /\ Len(linked) = Len(heap)
  BY <1>3, <1>4, ExceptSeq
<1>6. linked[a] = cell /\ \A n \in 1..Len(heap) : n # a => linked[n] = heap[n]
  BY <1>3, <1>4
<1>7. SameBut(heap, a, b, linked)
  BY <1>3, <1>5, <1>6 DEF SameBut
<1>. QED
  BY <1>7 DEF linked

(* Insert into the empty list. *)
LEMMA FirstNode ==
  ASSUME NEW heap, NEW values, NEW gone, ListOK(heap, 0, values, gone), NEW v \in Items
  PROVE  ListOK(WithNew(heap, v), Len(heap) + 1, Append(values, v), gone)
<1>. DEFINE more == WithNew(heap, v)
            N == Len(heap)
            c == <<N + 1>>
<1>1. /\ heap \in Seq(Cells) /\ Forward(heap) /\ values \in Seq(Items)
      /\ gone \subseteq 1..N
  BY DEF ListOK
<1>2. /\ more \in Seq(Cells) /\ Len(more) = N + 1 /\ N \in Nat
      /\ more[N + 1].value = v /\ more[N + 1].pNext = 0
      /\ \A n \in 1..N : more[n] = heap[n]
  BY <1>1, OneMore DEF Longer
<1>. HIDE DEF more
<1>3. values = << >> /\ gone = 1..N
  <2>1. PICK d : Holds(heap, 0, values, gone, d)
    BY DEF ListOK
  <2>2. d = << >>
    BY <2>1, EmptyChain DEF Holds
  <2>3. Len(values) = 0
    BY <2>1, <2>2 DEF Holds
  <2>4. \A n \in 1..N : n \in gone
    BY <2>1, <2>2 DEF Holds
  <2>. QED
    BY <1>1, <2>3, <2>4, EmptySeq
<1>4. \A n \in 1..(N + 1) : n = N + 1 \/ n \in 1..N
  BY <1>2
<1>5. Forward(more)
  <2>1. \A n \in 1..N : /\ heap[n].pNext \in 0..N
                        /\ heap[n].pNext = 0 \/ n < heap[n].pNext
    BY DEF ListOK, Forward
  <2>2. 0..N \subseteq 0..(N + 1) /\ 0 \in 0..(N + 1)
    BY <1>2
  <2>. QED
    BY <1>2, <1>4, <2>1, <2>2 DEF Forward
<1>6. /\ c \in Seq(1..(N + 1)) /\ Len(c) = 1 /\ c[1] = N + 1 /\ c # << >> /\ N + 1 # 0
      /\ \A k \in 1..1 : k = 1
  BY <1>2
<1>7. /\ Append(values, v) \in Seq(Items) /\ Len(Append(values, v)) = 1
      /\ Append(values, v)[1] = v
  BY <1>1, <1>3, AppendProperties
<1>. HIDE DEF c
<1>8. ChainFrom(more, N + 1, c)
  BY <1>2, <1>6 DEF ChainFrom
<1>9. \A n \in 1..(N + 1) : n \in gone <=> n # N + 1
  BY <1>2, <1>3
<1>10. Holds(more, N + 1, Append(values, v), gone, c)
  BY <1>2, <1>6, <1>7, <1>8, <1>9 DEF Holds
<1>11. N + 1 \in 0..(N + 1) /\ gone \subseteq 1..(N + 1)
  BY <1>1, <1>2
<1>. QED
  BY <1>2, <1>5, <1>7, <1>10, <1>11 DEF ListOK, more

(* Insert behind the last node. *)
LEMMA NextNode ==
  ASSUME NEW heap, NEW head, NEW values, NEW gone, ListOK(heap, head, values, gone),
         NEW c, Holds(heap, head, values, gone, c), head # 0, NEW v \in Items
  PROVE  ListOK(WithLink(WithNew(heap, v), c[Len(c)], Len(heap) + 1), head,
                Append(values, v), gone)
<1>. DEFINE N == Len(heap)
            L == Len(c)
            last == c[L]
            more == WithNew(heap, v)
            H == WithLink(more, last, N + 1)
            d == Append(c, N + 1)
            e == Append(values, v)
<1>1. /\ heap \in Seq(Cells) /\ Forward(heap) /\ values \in Seq(Items)
      /\ head \in 0..N /\ gone \subseteq 1..N
  BY DEF ListOK
<1>2. c \in Seq(1..N) /\ c # << >> /\ c[1] = head
  BY DEF Holds, ChainFrom
<1>3. N \in Nat /\ L \in Nat \ {0} /\ L \in 1..L
  BY <1>1, <1>2
<1>4. \A k \in 1..L : c[k] \in 1..N
  BY <1>2
<1>5. \A k \in 1..L : heap[c[k]].pNext = IF k = L THEN 0 ELSE c[k + 1]
  BY DEF Holds, ChainFrom
<1>6. \A k, l \in 1..L : k < l => c[k] < c[l]
  BY <1>1, <1>3, ChainAscends DEF Holds
<1>7. Longer(heap, v, more)
  BY <1>1, OneMore
<1>8. last \in 1..N /\ last \in 1..(N + 1) /\ N + 1 \in Nat /\ last # N + 1
  BY <1>3, <1>4
<1>9. SameBut(more, last, N + 1, H)
  <2>1. more \in Seq(Cells) /\ Len(more) = N + 1
    BY <1>7 DEF Longer
  <2>. HIDE DEF more, last
  <2>. QED
    BY <1>8, <2>1, Relinked
<1>. HIDE DEF more, H
<1>10. /\ H \in Seq(Cells) /\ Len(H) = N + 1
       /\ H[last].pNext = N + 1 /\ H[N + 1].value = v /\ H[N + 1].pNext = 0
       /\ \A n \in 1..N : /\ H[n].value = heap[n].value
                          /\ n # last => H[n].pNext = heap[n].pNext
  <2>1. N + 1 \in 1..(N + 1) /\ \A n \in 1..N : n \in 1..(N + 1)
    BY <1>3
  <2>. HIDE DEF last
  <2>. QED
    BY <1>7, <1>8, <1>9, <2>1 DEF Longer, SameBut
<1>11. Forward(H)
  <2>1. \A n \in 1..N : /\ heap[n].pNext \in 0..N
                        /\ heap[n].pNext = 0 \/ n < heap[n].pNext
    BY <1>1 DEF Forward
  <2>. SUFFICES ASSUME NEW n \in 1..(N + 1)
                PROVE  H[n].pNext \in 0..(N + 1) /\ (H[n].pNext = 0 \/ n < H[n].pNext)
    BY <1>10 DEF Forward
  <2>2. CASE n = N + 1
    BY <1>3, <1>10, <2>2
  <2>3. CASE n = last
    BY <1>3, <1>8, <1>10, <2>3
  <2>4. CASE n # N + 1 /\ n # last
    <3>1. n \in 1..N
      BY <1>3, <2>4
    <3>2. H[n].pNext = heap[n].pNext
      BY <1>10, <2>4, <3>1
    <3>3. 0..N \subseteq 0..(N + 1)
      BY <1>3
    <3>. QED
      BY <2>1, <3>1, <3>2, <3>3
  <2>. QED
    BY <2>2, <2>3, <2>4
<1>12. /\ d \in Seq(1..(N + 1)) /\ Len(d) = L + 1 /\ d[L + 1] = N + 1
       /\ \A k \in 1..L : d[k] = c[k]
  <2>1. c \in Seq(1..(N + 1)) /\ N + 1 \in 1..(N + 1)
    BY <1>2, <1>3
  <2>. QED
    BY <2>1, AppendProperties
<1>13. /\ e \in Seq(Items) /\ Len(e) = L + 1 /\ e[L + 1] = v
       /\ \A k \in 1..L : e[k] = values[k]
  <2>1. Len(values) = L
    BY DEF Holds
  <2>. QED
    BY <1>1, <2>1, AppendProperties
<1>. HIDE DEF d, e, last
<1>14. \A k \in 1..(L + 1) : k = L + 1 \/ k \in 1..L
  BY <1>3
<1>15. ASSUME NEW k \in 1..(L + 1)
       PROVE  H[d[k]].pNext = IF k = L + 1 THEN 0 ELSE d[k + 1]
  <2>1. CASE k = L + 1
    BY <1>10, <1>12, <2>1
  <2>2. CASE k = L
    <3>1. d[k] = last /\ k # L + 1
      BY <1>3, <1>12, <2>2 DEF last
    <3>. QED
      BY <1>10, <1>12, <2>2, <3>1
  <2>3. CASE k # L + 1 /\ k # L
    <3>1. k \in 1..L /\ k < L /\ k + 1 \in 1..L
      BY <1>3, <2>3
    <3>2. c[k] < last /\ last \in 1..N /\ c[k] \in 1..N
      BY <1>3, <1>4, <1>6, <3>1 DEF last
    <3>3. c[k] # last
      BY <3>2
    <3>4. H[c[k]].pNext = heap[c[k]].pNext
      BY <1>10, <3>2, <3>3
    <3>. QED
      BY <1>5, <1>12, <2>3, <3>1, <3>4
  <2>. QED
    BY <2>1, <2>2, <2>3
<1>16. d # << >> /\ d[1] = head
  <2>1. 1 \in 1..L /\ L + 1 # 0
    BY <1>3
  <2>. QED
    BY <1>2, <1>12, <2>1
<1>17. ChainFrom(H, head, d)
  BY <1>10, <1>12, <1>15, <1>16 DEF ChainFrom
<1>18. \A k \in 1..(L + 1) : e[k] = H[d[k]].value
  <2>1. \A k \in 1..L : values[k] = heap[c[k]].value
    BY DEF Holds
  <2>2. \A k \in 1..L : e[k] = heap[c[k]].value /\ H[d[k]].value = heap[c[k]].value
    BY <1>4, <1>10, <1>12, <1>13, <2>1, Zenon
  <2>3. e[L + 1] = H[d[L + 1]].value
    BY <1>10, <1>12, <1>13, Zenon
  <2>. QED
    BY <1>14, <2>2, <2>3, Zenon
<1>19. \A n \in 1..(N + 1) : n \in gone <=> \A k \in 1..(L + 1) : d[k] # n
  <2>1. \A n \in 1..N : n \in gone <=> \A k \in 1..L : c[k] # n
    BY DEF Holds
  <2>2. \A n \in 1..(N + 1) : n = N + 1 \/ (n \in 1..N /\ n # N + 1)
    BY <1>3
  <2>3. N + 1 \notin gone /\ L + 1 \in 1..(L + 1) /\ \A k \in 1..L : k \in 1..(L + 1)
    BY <1>1, <1>3
  <2>. QED
    BY <1>12, <1>14, <2>1, <2>2, <2>3, Zenon
<1>20. Holds(H, head, e, gone, d)
  BY <1>10, <1>12, <1>13, <1>17, <1>18, <1>19 DEF Holds
<1>21. head \in 0..(N + 1) /\ gone \subseteq 1..(N + 1)
  BY <1>1, <1>3
<1>22. ListOK(H, head, e, gone)
  BY <1>10, <1>11, <1>13, <1>20, <1>21 DEF ListOK
<1>. QED
  BY <1>22 DEF H, more, last, e

(* A sequence without its element at. *)
Without(s, at) == [k \in 1..(Len(s) - 1) |-> IF k < at THEN s[k] ELSE s[k + 1]]

LEMMA WithoutIs ==
  ASSUME NEW S, NEW s \in Seq(S), NEW at \in 1..Len(s)
  PROVE  /\ Without(s, at) \in Seq(S) /\ Len(Without(s, at)) = Len(s) - 1
         /\ \A k \in 1..(Len(s) - 1) : Without(s, at)[k] = IF k < at THEN s[k] ELSE s[k + 1]
<1>. DEFINE m == Len(s) - 1
            t == Without(s, at)
<1>1. m \in Nat /\ \A k \in 1..m : k \in 1..Len(s) /\ k + 1 \in 1..Len(s)
  OBVIOUS
<1>2. \A k \in 1..m : (IF k < at THEN s[k] ELSE s[k + 1]) \in S
  BY <1>1
<1>3. DOMAIN t = 1..m /\ \A k \in 1..m : t[k] = IF k < at THEN s[k] ELSE s[k + 1]
  BY DEF Without
<1>4. t = [k \in 1..m |-> t[k]]
  BY DEF Without
<1>. HIDE DEF t, m
<1>5. \A k \in 1..m : t[k] \in S
  BY <1>2, <1>3
<1>6. t \in Seq(S) /\ Len(t) = m
  <2>1. t \in [1..m -> S]
    BY <1>3, <1>4, <1>5
  <2>. QED
    BY <1>1, <1>3, <2>1, IsASeq, LenProperties
<1>. QED
  BY <1>3, <1>6 DEF t, m

(* RemoveFirst removes the first element that is equal. *)
LEMMA RemoveFirstIs ==
  ASSUME NEW S, NEW s \in Seq(S), NEW v, NEW at \in 1..Len(s), s[at] = v,
         \A k \in 1..Len(s) : s[k] = v => at <= k
  PROVE  List!Seqs!RemoveFirst(s, v) = Without(s, at)
<1>. DEFINE I == {k \in 1..Len(s) : s[k] = v}
            first == CHOOSE x \in I : \A y \in I : x <= y
            a == SubSeq(s, 1, at - 1)
            b == SubSeq(s, at + 1, Len(s))
<1>1. first = at
  <2>1. at \in I /\ \A y \in I : at <= y
    OBVIOUS
  <2>2. first \in I /\ \A y \in I : first <= y
    BY <2>1
  <2>. HIDE DEF first
  <2>3. first <= at /\ at <= first /\ first \in Nat /\ at \in Nat
    BY <2>1, <2>2
  <2>. QED
    BY <2>3
<1>2. List!Seqs!RemoveFirst(s, v) = SubSeq(s, 1, first - 1) \o SubSeq(s, first + 1, Len(s))
  <2>1. I # {} /\ \E k \in 1..Len(s) : s[k] = v
    OBVIOUS
  <2>. QED
    BY <2>1 DEF List!Seqs!RemoveFirst, List!Seqs!RemoveAt, List!Seqs!SelectInSeq, List!Seqs!Min
<1>3. List!Seqs!RemoveFirst(s, v) = a \o b
  BY <1>1, <1>2, Zenon
<1>4. /\ a \in Seq(S) /\ Len(a) = at - 1 /\ \A k \in 1..(at - 1) : a[k] = s[k]
  OBVIOUS
<1>5. /\ b \in Seq(S) /\ Len(b) = Len(s) - at
      /\ \A k \in 1..(Len(s) - at) : b[k] = s[at + k]
  OBVIOUS
<1>. HIDE DEF a, b, first, I
<1>6. PICK t : t = a \o b
  OBVIOUS
<1>7. /\ t \in Seq(S) /\ Len(t) = Len(a) + Len(b)
      /\ \A k \in 1..(Len(a) + Len(b)) : t[k] = IF k <= Len(a) THEN a[k] ELSE b[k - Len(a)]
  <2>1. a \in Seq(S) /\ b \in Seq(S)
    BY <1>4, <1>5
  <2>2. /\ a \o b \in Seq(S) /\ Len(a \o b) = Len(a) + Len(b)
        /\ \A k \in 1..(Len(a) + Len(b)) :
             (a \o b)[k] = IF k <= Len(a) THEN a[k] ELSE b[k - Len(a)]
    BY <2>1, ConcatProperties, Zenon
  <2>. QED
    BY <1>6, <2>2, Zenon
<1>8. Len(t) = Len(s) - 1
  BY <1>4, <1>5, <1>7
<1>9. ASSUME NEW k \in 1..(Len(s) - 1) PROVE t[k] = IF k < at THEN s[k] ELSE s[k + 1]
  <2>1. t[k] = IF k <= at - 1 THEN a[k] ELSE b[k - (at - 1)]
    BY <1>4, <1>5, <1>7
  <2>2. CASE k < at
    <3>1. k <= at - 1 /\ k \in 1..(at - 1)
      BY <2>2
    <3>. QED
      BY <1>4, <2>1, <2>2, <3>1
  <2>3. CASE ~(k < at)
    <3>1. /\ ~(k <= at - 1) /\ k - (at - 1) \in 1..(Len(s) - at)
          /\ at + (k - (at - 1)) = k + 1
      BY <2>3
    <3>. QED
      BY <1>5, <2>1, <2>3, <3>1
  <2>. QED
    BY <2>2, <2>3
<1>10. PICK w : w = Without(s, at)
  OBVIOUS
<1>11. /\ w \in Seq(S) /\ Len(w) = Len(s) - 1
       /\ \A k \in 1..(Len(s) - 1) : w[k] = IF k < at THEN s[k] ELSE s[k + 1]
  BY <1>10, WithoutIs
<1>12. t = w
  <2>1. Len(t) = Len(w) /\ 1..Len(t) = 1..(Len(s) - 1)
    BY <1>8, <1>11
  <2>2. \A k \in 1..Len(t) : t[k] = w[k]
    BY <1>9, <1>11, <2>1
  <2>. QED
    BY <1>7, <1>11, <2>1, <2>2, SeqEqual
<1>. QED
  BY <1>3, <1>6, <1>10, <1>12

(* Remove a node that has one before it. *)
LEMMA Unlinked ==
  ASSUME NEW heap, NEW head, NEW values, NEW gone, ListOK(heap, head, values, gone),
         NEW c, Holds(heap, head, values, gone, c), NEW at \in 2..Len(c)
  PROVE  ListOK(WithLink(heap, c[at - 1], heap[c[at]].pNext), head,
                Without(values, at), gone \cup {c[at]})
<1>. DEFINE N == Len(heap)
            L == Len(c)
            p == c[at - 1]
            x == c[at]
            b == heap[x].pNext
            H == WithLink(heap, p, b)
            d == Without(c, at)
            e == Without(values, at)
<1>1. /\ heap \in Seq(Cells) /\ Forward(heap) /\ values \in Seq(Items)
      /\ head \in 0..N /\ gone \subseteq 1..N
  BY DEF ListOK
<1>2. c \in Seq(1..N) /\ Len(values) = L
  BY DEF Holds, ChainFrom
<1>3. /\ N \in Nat /\ L \in Nat /\ at \in Nat /\ 2 <= at /\ at <= L
      /\ at \in 1..L /\ at - 1 \in 1..L /\ at - 1 < at
  BY <1>1, <1>2
<1>4. \A k \in 1..L : c[k] \in 1..N
  BY <1>2
<1>5. \A k \in 1..L : heap[c[k]].pNext = IF k = L THEN 0 ELSE c[k + 1]
  BY DEF Holds, ChainFrom
<1>6. \A k, l \in 1..L : k < l => c[k] < c[l]
  BY <1>1, <1>3, ChainAscends DEF Holds
<1>7. \A k, l \in 1..L : k # l => c[k] # c[l]
  <2>. SUFFICES ASSUME NEW k \in 1..L, NEW l \in 1..L, k # l PROVE c[k] # c[l]
    OBVIOUS
  <2>1. k < l \/ l < k
    OBVIOUS
  <2>2. c[k] \in Nat /\ c[l] \in Nat
    BY <1>4
  <2>3. c[k] < c[l] \/ c[l] < c[k]
    BY <1>6, <2>1
  <2>. QED
    BY <2>2, <2>3
<1>8. p \in 1..N /\ x \in 1..N /\ p < x /\ b \in 0..N /\ (b = 0 \/ x < b)
  <2>1. p \in 1..N /\ x \in 1..N /\ p < x
    BY <1>3, <1>4, <1>6
  <2>. QED
    BY <1>1, <2>1 DEF Forward
<1>9. SameBut(heap, p, b, H)
  <2>1. b \in Nat
    BY <1>8
  <2>. HIDE DEF p, b
  <2>. QED
    BY <1>1, <1>8, <2>1, Relinked
<1>. HIDE DEF H, p, b, x
<1>10. /\ H \in Seq(Cells) /\ Len(H) = N /\ H[p].pNext = b
       /\ \A n \in 1..N : /\ H[n].value = heap[n].value
                          /\ n # p => H[n].pNext = heap[n].pNext
  BY <1>9 DEF SameBut
<1>11. Forward(H)
  <2>1. \A n \in 1..N : /\ heap[n].pNext \in 0..N
                        /\ heap[n].pNext = 0 \/ n < heap[n].pNext
    BY <1>1 DEF Forward
  <2>. SUFFICES ASSUME NEW n \in 1..N
                PROVE  H[n].pNext \in 0..N /\ (H[n].pNext = 0 \/ n < H[n].pNext)
    BY <1>10 DEF Forward
  <2>2. CASE n = p
    BY <1>3, <1>8, <1>10, <2>2
  <2>3. CASE n # p
    BY <1>10, <2>1, <2>3
  <2>. QED
    BY <2>2, <2>3
<1>12. /\ d \in Seq(1..N) /\ Len(d) = L - 1
       /\ \A k \in 1..(L - 1) : d[k] = IF k < at THEN c[k] ELSE c[k + 1]
  BY <1>2, <1>3, WithoutIs
<1>13. /\ e \in Seq(Items) /\ Len(e) = L - 1
       /\ \A k \in 1..(L - 1) : e[k] = IF k < at THEN values[k] ELSE values[k + 1]
  <2>1. at \in 1..Len(values)
    BY <1>2, <1>3
  <2>. QED
    BY <1>1, <1>2, <2>1, WithoutIs
<1>. HIDE DEF d, e
<1>14. \A k \in 1..(L - 1) : k \in 1..L /\ k + 1 \in 1..L
  BY <1>3
<1>15. ASSUME NEW k \in 1..(L - 1)
       PROVE  H[d[k]].pNext = IF k = L - 1 THEN 0 ELSE d[k + 1]
  <2>1. CASE k < at - 1
    <3>1. k < at /\ k # L - 1 /\ k + 1 \in 1..(L - 1) /\ k + 1 < at /\ k # at - 1 /\ k # L
      BY <1>3, <2>1
    <3>2. d[k] = c[k] /\ d[k + 1] = c[k + 1] /\ c[k] \in 1..N /\ c[k] # p
      BY <1>3, <1>4, <1>7, <1>12, <1>14, <3>1 DEF p
    <3>. QED
      BY <1>5, <1>10, <1>14, <3>1, <3>2
  <2>2. CASE k = at - 1
    <3>1. d[k] = p
      BY <1>3, <1>12, <2>2 DEF p
    <3>2. b = IF at = L THEN 0 ELSE c[at + 1]
      BY <1>3, <1>5 DEF b, x
    <3>3. k + 1 = at /\ (k = L - 1 <=> at = L)
      BY <1>3, <2>2
    <3>4. at # L => d[at] = c[at + 1]
      <4>1. at # L => at \in 1..(L - 1) /\ ~(at < at)
        BY <1>3
      <4>. QED
        BY <1>12, <4>1
    <3>. QED
      BY <1>10, <3>1, <3>2, <3>3, <3>4
  <2>3. CASE at <= k
    <3>1. /\ ~(k < at) /\ k + 1 \in 1..L /\ k + 1 # at - 1 /\ (k = L - 1 <=> k + 1 = L)
          /\ k # L - 1 => k + 1 \in 1..(L - 1) /\ ~(k + 1 < at)
      BY <1>3, <2>3
    <3>2. d[k] = c[k + 1] /\ c[k + 1] \in 1..N /\ c[k + 1] # p
      BY <1>3, <1>4, <1>7, <1>12, <3>1 DEF p
    <3>3. H[c[k + 1]].pNext = IF k + 1 = L THEN 0 ELSE c[(k + 1) + 1]
      BY <1>5, <1>10, <3>1, <3>2
    <3>4. k # L - 1 => d[k + 1] = c[(k + 1) + 1]
      BY <1>12, <3>1
    <3>. QED
      BY <3>1, <3>2, <3>3, <3>4
  <2>4. k < at - 1 \/ k = at - 1 \/ at <= k
    BY <1>3
  <2>. QED
    BY <2>1, <2>2, <2>3, <2>4
<1>16. head # 0 /\ d # << >> /\ d[1] = head
  <2>0. 1 \in 1..(L - 1) /\ 1 < at /\ L - 1 # 0 /\ 1 \in 1..L /\ L # 0
    <3>. HIDE DEF L
    <3>1. L \in Nat /\ at \in Nat /\ 2 <= at /\ at <= L
      BY <1>3
    <3>. QED
      BY <3>1
  <2>1. c # << >>
    BY <2>0
  <2>2. head # 0 /\ c[1] = head
    BY <2>1 DEF Holds, ChainFrom
  <2>. QED
    BY <1>12, <2>0, <2>2
<1>17. ChainFrom(H, head, d)
  BY <1>10, <1>12, <1>15, <1>16 DEF ChainFrom
<1>18. \A k \in 1..(L - 1) : e[k] = H[d[k]].value
  <2>1. \A k \in 1..L : values[k] = heap[c[k]].value /\ H[c[k]].value = heap[c[k]].value
    BY <1>4, <1>10 DEF Holds
  <2>. SUFFICES ASSUME NEW k \in 1..(L - 1) PROVE e[k] = H[d[k]].value
    OBVIOUS
  <2>2. CASE k < at
    <3>1. e[k] = values[k] /\ d[k] = c[k] /\ k \in 1..L
      BY <1>12, <1>13, <1>14, <2>2, Zenon
    <3>. QED
      BY <2>1, <3>1, Zenon
  <2>3. CASE ~(k < at)
    <3>1. e[k] = values[k + 1] /\ d[k] = c[k + 1] /\ k + 1 \in 1..L
      BY <1>12, <1>13, <1>14, <2>3, Zenon
    <3>. QED
      BY <2>1, <3>1, Zenon
  <2>. QED
    BY <2>2, <2>3, Zenon
<1>19. \A n \in 1..N : n \in gone \cup {x} <=> \A k \in 1..(L - 1) : d[k] # n
  <2>1. \A n \in 1..N : n \in gone <=> \A k \in 1..L : c[k] # n
    BY DEF Holds
  <2>2. \A k \in 1..(L - 1) : d[k] # x /\ \E l \in 1..L : d[k] = c[l]
    <3>. SUFFICES ASSUME NEW k \in 1..(L - 1) PROVE d[k] # x /\ \E l \in 1..L : d[k] = c[l]
      OBVIOUS
    <3>1. CASE k < at
      <4>1. k \in 1..L /\ k # at /\ d[k] = c[k]
        BY <1>3, <1>12, <3>1
      <4>. QED
        BY <1>3, <1>7, <4>1 DEF x
    <3>2. CASE ~(k < at)
      <4>1. k + 1 \in 1..L /\ k + 1 # at /\ d[k] = c[k + 1]
        BY <1>3, <1>12, <3>2
      <4>. QED
        BY <1>3, <1>7, <4>1 DEF x
    <3>. QED
      BY <3>1, <3>2
  <2>3. \A l \in 1..L : c[l] # x => \E k \in 1..(L - 1) : d[k] = c[l]
    <3>. SUFFICES ASSUME NEW l \in 1..L, c[l] # x PROVE \E k \in 1..(L - 1) : d[k] = c[l]
      OBVIOUS
    <3>1. l # at
      BY DEF x
    <3>2. CASE l < at
      <4>1. l \in 1..(L - 1)
        BY <1>3, <3>2
      <4>. QED
        BY <1>12, <3>2, <4>1
    <3>3. CASE at < l
      <4>1. l - 1 \in 1..(L - 1) /\ ~(l - 1 < at) /\ (l - 1) + 1 = l
        BY <1>3, <3>3
      <4>2. d[l - 1] = c[l]
        BY <1>12, <4>1
      <4>. QED
        BY <4>1, <4>2
    <3>. QED
      BY <1>3, <3>1, <3>2, <3>3
  <2>. SUFFICES ASSUME NEW n \in 1..N
                PROVE  n \in gone \cup {x} <=> \A k \in 1..(L - 1) : d[k] # n
    OBVIOUS
  <2>4. CASE n = x
    BY <2>2, <2>4
  <2>5. CASE n # x
    <3>1. (\A k \in 1..L : c[k] # n) <=> \A k \in 1..(L - 1) : d[k] # n
      BY <2>2, <2>3, <2>5
    <3>. QED
      BY <2>1, <2>5, <3>1
  <2>. QED
    BY <2>4, <2>5
<1>20. Holds(H, head, e, gone \cup {x}, d)
  BY <1>10, <1>12, <1>13, <1>17, <1>18, <1>19 DEF Holds
<1>21. gone \cup {x} \subseteq 1..N
  BY <1>1, <1>8
<1>22. ListOK(H, head, e, gone \cup {x})
  BY <1>1, <1>10, <1>11, <1>13, <1>20, <1>21 DEF ListOK
<1>. QED
  BY <1>22 DEF H, p, b, x, e

(* Clear deletes what is left. *)
LEMMA Cleared ==
  ASSUME NEW heap, NEW head, NEW values, NEW gone, ListOK(heap, head, values, gone),
         NEW c, Holds(heap, head, values, gone, c)
  PROVE  ListOK(heap, 0, << >>, gone \cup {c[k] : k \in DOMAIN c})
<1>. DEFINE all == gone \cup {c[k] : k \in DOMAIN c}
<1>1. /\ heap \in Seq(Cells) /\ Forward(heap) /\ gone \subseteq 1..Len(heap)
  BY DEF ListOK
<1>2. c \in Seq(1..Len(heap)) /\ DOMAIN c = 1..Len(c)
  BY DEF Holds, ChainFrom
<1>3. all \subseteq 1..Len(heap)
  BY <1>1, <1>2
<1>4. \A n \in 1..Len(heap) : n \in all
  BY <1>2 DEF Holds
<1>. HIDE DEF all
<1>5. << >> \in Seq(Items) /\ 0 \in 0..Len(heap) /\ Len(<< >>) = 0 /\ 1..Len(<< >>) = {}
  BY <1>1
<1>6. Holds(heap, 0, << >>, all, << >>)
  BY <1>4, <1>5, EmptyChain DEF Holds
<1>7. ListOK(heap, 0, << >>, all)
  BY <1>1, <1>3, <1>5, <1>6 DEF ListOK
<1>. QED
  BY <1>7 DEF all

-----------------------------------------------------------------------------
(* REList: the steps *)

(* What the calls find in a list that is intact. *)
LEMMA ChainNow ==
  ASSUME ListOK(cells, pHead, expected, deleted)
  PROVE  \E c : /\ Holds(cells, pHead, expected, deleted, c)
                /\ List!Chain = c /\ c \in Seq(1..Len(cells)) /\ DOMAIN c = 1..Len(c)
                /\ \A k \in 1..Len(c) : c[k] \in 1..Len(cells) /\ c[k] \notin deleted
                /\ pHead = 0 <=> c = << >>
<1>1. /\ cells \in Seq(Cells) /\ Forward(cells) /\ pHead \in 0..Len(cells)
  BY DEF ListOK
<1>2. PICK c : Holds(cells, pHead, expected, deleted, c)
  BY DEF ListOK
<1>3. ChainFrom(cells, pHead, c)
  BY <1>2 DEF Holds
<1>4. Len(cells) \in Nat
  BY <1>1
<1>5. List!Chain = c
  BY <1>1, <1>3, <1>4, ChainIs
<1>6. c \in Seq(1..Len(cells)) /\ (pHead = 0 <=> c = << >>)
  BY <1>3 DEF ChainFrom
<1>7. DOMAIN c = 1..Len(c) /\ \A k \in 1..Len(c) : c[k] \in 1..Len(cells)
  BY <1>6
<1>8. \A k \in 1..Len(c) : c[k] \notin deleted
  BY <1>2, <1>7, Zenon DEF Holds
<1>. QED
  BY <1>2, <1>5, <1>6, <1>7, <1>8

LEMMA InitList == List!Init => ListInv
<1>. SUFFICES ASSUME List!Init PROVE ListInv
  OBVIOUS
<1>1. /\ cells = << >> /\ pHead = 0 /\ expected = << >> /\ deleted = {}
      /\ undefined = FALSE
  BY DEF List!Init
<1>2. /\ << >> \in Seq(Cells) /\ << >> \in Seq(Items) /\ Len(<< >>) = 0
      /\ 1..Len(<< >>) = {} /\ 0 \in 0..Len(<< >>)
  OBVIOUS
<1>3. Holds(<< >>, 0, << >>, {}, << >>)
  BY <1>2, EmptyChain DEF Holds
<1>4. ListOK(<< >>, 0, << >>, {})
  BY <1>2, <1>3 DEF ListOK, Forward
<1>. QED
  BY <1>1, <1>4 DEF ListInv, ListFine

LEMMA InsertList ==
  ASSUME ListFine,
         NEW value \in Items, List!Insert(value)
  PROVE  ListFine'
<1>1. PICK c : /\ Holds(cells, pHead, expected, deleted, c)
               /\ List!Chain = c /\ DOMAIN c = 1..Len(c)
               /\ \A k \in 1..Len(c) : c[k] \notin deleted
  BY ChainNow DEF ListFine
<1>2. ~List!HasDeleted(List!Chain)
  BY <1>1 DEF List!HasDeleted
<1>3. /\ expected' = Append(expected, value) /\ UNCHANGED <<deleted, undefined>>
      /\ IF pHead = 0 THEN pHead' = Len(cells) + 1 /\ cells' = List!New(value)
         ELSE cells' = List!LinkLast(value) /\ UNCHANGED pHead
  BY <1>2 DEF List!Insert
<1>4. List!New(value) = WithNew(cells, value)
  BY DEF List!New, WithNew
<1>5. CASE pHead = 0
  <2>1. ListOK(WithNew(cells, value), Len(cells) + 1, Append(expected, value), deleted)
    BY <1>5, FirstNode DEF ListFine
  <2>. QED
    BY <1>3, <1>4, <1>5, <2>1 DEF ListFine
<1>6. CASE pHead # 0
  <2>1. List!LinkLast(value) = WithLink(WithNew(cells, value), c[Len(c)], Len(cells) + 1)
    BY <1>1, <1>4 DEF List!LinkLast, List!Seqs!Last, WithLink
  <2>2. ListOK(WithLink(WithNew(cells, value), c[Len(c)], Len(cells) + 1), pHead,
               Append(expected, value), deleted)
    BY <1>1, <1>6, NextNode DEF ListFine
  <2>. QED
    BY <1>3, <1>6, <2>1, <2>2 DEF ListFine
<1>. QED
  BY <1>5, <1>6

LEMMA ClearList ==
  ASSUME ListFine, List!Clear
  PROVE  ListFine'
<1>1. PICK c : /\ Holds(cells, pHead, expected, deleted, c)
               /\ List!Chain = c /\ DOMAIN c = 1..Len(c)
               /\ \A k \in 1..Len(c) : c[k] \notin deleted
  BY ChainNow DEF ListFine
<1>2. ~List!HasDeleted(List!Chain)
  BY <1>1 DEF List!HasDeleted
<1>3. /\ expected' = << >> /\ UNCHANGED <<cells, undefined>> /\ pHead' = 0
      /\ deleted' = deleted \cup {c[k] : k \in DOMAIN c}
  BY <1>1, <1>2 DEF List!Clear, List!HeadAfterClear, List!Seqs!Range
<1>4. ListOK(cells, 0, << >>, deleted \cup {c[k] : k \in DOMAIN c})
  BY <1>1, Cleared DEF ListFine
<1>. QED
  BY <1>3, <1>4 DEF ListFine

(* Remove, when it neither removes the head nor misses. *)
LEMMA RemoveList ==
  ASSUME ListFine,
         NEW value \in Items, List!Remove(value), cause' = {}
  PROVE  ListFine'
<1>. DEFINE c == List!Chain
            matches == {k \in DOMAIN c : cells[c[k]].value = value}
            at == CHOOSE k \in matches : \A l \in matches : k <= l
            visited == IF matches = {} THEN c ELSE SubSeq(c, 1, at)
<1>1. /\ expected' = List!Seqs!RemoveFirst(expected, value)
      /\ cause' = cause \cup (IF pHead # 0 /\ matches = {} THEN {"absent"}
                              ELSE IF pHead # 0 /\ at = 1 THEN {"head"} ELSE {})
      /\ IF pHead = 0 THEN UNCHANGED <<cells, deleted, pHead, undefined>>
         ELSE IF matches = {} \/ List!HasDeleted(visited) THEN TRUE
         ELSE /\ deleted' = deleted \cup {c[at]}
              /\ cells' = IF at = 1 THEN cells
                          ELSE [cells EXCEPT ![c[at - 1]].pNext = cells[c[at]].pNext]
              /\ UNCHANGED <<pHead, undefined>>
  BY Zenon DEF List!Remove, List!Delete
<1>. HIDE DEF c
<1>2. /\ Holds(cells, pHead, expected, deleted, c)
      /\ c \in Seq(1..Len(cells)) /\ DOMAIN c = 1..Len(c)
      /\ \A k \in 1..Len(c) : c[k] \in 1..Len(cells) /\ c[k] \notin deleted
      /\ pHead = 0 <=> c = << >>
  BY ChainNow, Zenon DEF ListFine, c
<1>3. expected \in Seq(Items) /\ Len(expected) = Len(c)
      /\ \A k \in 1..Len(c) : expected[k] = cells[c[k]].value
  BY <1>2 DEF ListFine, ListOK, Holds
<1>4. CASE pHead = 0
  <2>1. Len(c) = 0
    BY <1>2, <1>4
  <2>2. ~\E k \in 1..Len(expected) : expected[k] = value
    BY <1>3, <2>1
  <2>3. expected' = expected
    BY <1>1, <2>2 DEF List!Seqs!RemoveFirst
  <2>. QED
    BY <1>1, <1>4, <2>3 DEF ListFine
<1>5. CASE pHead # 0
  <2>1. matches # {}
    BY <1>1, <1>5
  <2>2. at \in matches /\ \A l \in matches : at <= l
    <3>1. matches \subseteq Nat
      BY <1>2
    <3>. HIDE DEF matches
    <3>2. \E x \in matches : \A l \in matches : x <= l
      BY <2>1, <3>1, LeastNatural
    <3>. QED
      BY <3>2
  <2>3. at # 1
    BY <1>1, <1>5, <2>1
  <2>. HIDE DEF at
  <2>4. /\ at \in 1..Len(c) /\ at \in 2..Len(c) /\ at \in 1..Len(expected)
        /\ expected[at] = value
    BY <1>2, <1>3, <2>2, <2>3
  <2>5. \A k \in 1..Len(expected) : expected[k] = value => at <= k
    BY <1>2, <1>3, <2>2
  <2>6. expected' = Without(expected, at)
    BY <1>1, <1>3, <2>4, <2>5, RemoveFirstIs
  <2>7. ~List!HasDeleted(visited)
    <3>1. \A k \in 1..at : k \in 1..Len(c)
      BY <2>4
    <3>2. DOMAIN visited = 1..at /\ \A k \in 1..at : visited[k] = c[k]
      BY <1>2, <2>1, <2>4
    <3>. QED
      BY <1>2, <3>1, <3>2 DEF List!HasDeleted
  <2>8. /\ deleted' = deleted \cup {c[at]} /\ UNCHANGED <<pHead, undefined>>
        /\ cells' = WithLink(cells, c[at - 1], cells[c[at]].pNext)
    BY <1>1, <1>5, <2>1, <2>3, <2>7 DEF WithLink
  <2>9. ListOK(WithLink(cells, c[at - 1], cells[c[at]].pNext), pHead,
               Without(expected, at), deleted \cup {c[at]})
    BY <1>2, <2>4, Unlinked DEF ListFine
  <2>. QED
    BY <2>6, <2>8, <2>9 DEF ListFine
<1>. QED
  BY <1>4, <1>5

(* The calls that only look leave the list as it is. *)
LEMMA LookList ==
  ASSUME ListFine,
         List!GetSize \/ List!GetLast, cause' = {}
  PROVE  ListFine'
<1>1. PICK c : List!Chain = c /\ DOMAIN c = 1..Len(c) /\ \A k \in 1..Len(c) : c[k] \notin deleted
  BY ChainNow DEF ListFine
<1>2. ~List!HasDeleted(List!Chain)
  BY <1>1 DEF List!HasDeleted
<1>3. List!GetLast => pHead # 0
  BY DEF List!GetLast
<1>4. UNCHANGED <<cells, pHead, expected, deleted, undefined>>
  BY <1>2, <1>3 DEF List!GetSize, List!GetLast
<1>. QED
  BY <1>4 DEF ListFine

LEMMA NextList == ListInv /\ [List!Next]_listVars => ListInv'
<1>. SUFFICES ASSUME ListInv, [List!Next]_listVars, cause' = {}
              PROVE  ListFine'
  BY DEF ListInv, List!Intact
<1>1. cause = {}
  <2>1. \A S, T : S \cup T = {} => S = {}
    OBVIOUS
  <2>2. List!Next => cause' = cause \/ \E T : cause' = cause \cup T
    BY Zenon DEF List!Next, List!Insert, List!Remove, List!Clear, List!GetLast, List!GetSize
  <2>. QED
    BY <2>1, <2>2 DEF listVars
<1>2. ListFine
  BY <1>1 DEF ListInv, List!Intact
<1>3. ASSUME NEW value \in Items, List!Insert(value)
      PROVE  ListFine'
  BY <1>2, <1>3, InsertList
<1>4. ASSUME NEW value \in Items, List!Remove(value)
      PROVE  ListFine'
  BY <1>2, <1>4, RemoveList
<1>5. CASE List!Clear
  BY <1>2, <1>5, ClearList
<1>6. CASE List!GetLast \/ List!GetSize
  BY <1>2, <1>6, LookList
<1>7. CASE UNCHANGED listVars
  BY <1>2, <1>7 DEF listVars, ListFine
<1>. QED
  BY <1>3, <1>4, <1>5, <1>6, <1>7 DEF List!Next

(* A step of any of the containers is one of the list, or leaves it alone. *)
LEMMA AnyStepOfList ==
  [UseTree \/ UseArray \/ UseList]_allVars => [List!Next]_listVars
  BY DEF UseTree, UseArray, UseList, allVars, listVars

LEMMA ListInvHolds == ListInv => HoldsExpected
<1>. SUFFICES ASSUME ListOK(cells, pHead, expected, deleted)
              PROVE  /\ [k \in DOMAIN List!Chain |-> cells[List!Chain[k]].value] = expected
                     /\ List!Seqs!Range(List!Chain) \cap deleted = {}
                     /\ List!Seqs!Range(List!Chain) \cup deleted = DOMAIN cells
  BY DEF ListInv, ListFine, HoldsExpected, List!HoldsExpected
<1>1. PICK c : /\ Holds(cells, pHead, expected, deleted, c)
               /\ List!Chain = c /\ DOMAIN c = 1..Len(c)
               /\ \A k \in 1..Len(c) : c[k] \in 1..Len(cells) /\ c[k] \notin deleted
  BY ChainNow
<1>2. [k \in DOMAIN c |-> cells[c[k]].value] = expected
  <2>1. /\ expected \in Seq(Items) /\ Len(expected) = Len(c)
        /\ \A k \in 1..Len(c) : expected[k] = cells[c[k]].value
    BY <1>1 DEF ListOK, Holds
  <2>2. expected = [k \in 1..Len(c) |-> expected[k]]
    BY <2>1
  <2>. QED
    BY <1>1, <2>1, <2>2
<1>3. List!Seqs!Range(c) = {c[k] : k \in 1..Len(c)}
  BY <1>1 DEF List!Seqs!Range
<1>4. {c[k] : k \in 1..Len(c)} \cap deleted = {}
  BY <1>1
<1>5. {c[k] : k \in 1..Len(c)} \cup deleted = DOMAIN cells
  <2>1. DOMAIN cells = 1..Len(cells) /\ deleted \subseteq 1..Len(cells)
    BY DEF ListOK
  <2>2. \A n \in 1..Len(cells) : n \in deleted <=> \A k \in 1..Len(c) : c[k] # n
    BY <1>1 DEF Holds
  <2>3. \A n : n \in {c[k] : k \in 1..Len(c)} \cup deleted <=> n \in 1..Len(cells)
    <3>. TAKE n
    <3>1. n \in {c[k] : k \in 1..Len(c)} <=> \E k \in 1..Len(c) : c[k] = n
      OBVIOUS
    <3>2. (\E k \in 1..Len(c) : c[k] = n) => n \in 1..Len(cells)
      BY <1>1, Zenon
    <3>3. n \in deleted => n \in 1..Len(cells)
      BY <2>1
    <3>4. n \in 1..Len(cells) => n \in deleted \/ \E k \in 1..Len(c) : c[k] = n
      BY <2>2, Zenon
    <3>. QED
      BY <3>1, <3>2, <3>3, <3>4, Zenon
  <2>. QED
    BY <2>1, <2>3, Zenon
<1>. QED
  BY <1>1, <1>2, <1>3, <1>4, <1>5

(* A list whose head was not removed, and that was not asked for what it does
   not hold, holds what was inserted and not removed, in order; nothing in it
   was deleted and nothing leaks (Insert, Remove, Clear). *)
THEOREM ListAlwaysHoldsExpected == List!Spec \/ MCSpec => []HoldsExpected
<1>1. [List!Next]_(List!vars) => [List!Next]_listVars
  BY DEF List!vars, listVars
<1>. QED
  BY <1>1, InitList, NextList, AnyStepOfList, ListInvHolds, PTL DEF List!Spec, MCSpec, MCInit

(* No call of such a list follows a null pointer or a pointer to a deleted
   node. *)
THEOREM UndefinedAlwaysHasCause == List!Spec \/ MCSpec => []UndefinedHasCause
<1>1. [List!Next]_(List!vars) => [List!Next]_listVars
  BY DEF List!vars, listVars
<1>2. ListInv => UndefinedHasCause
  BY DEF ListInv, ListFine, UndefinedHasCause, List!UndefinedHasCause
<1>. QED
  BY <1>1, <1>2, InitList, NextList, AnyStepOfList, PTL DEF List!Spec, MCSpec, MCInit
=============================================================================
