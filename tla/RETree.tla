------------------------------- MODULE RETree -------------------------------
(***************************************************************************)
(* RETree: an unbalanced binary search tree (RETree.h).  FindEntry and     *)
(* FindPlacement walk down from the head, one node a step.  Nodes are      *)
(* numbered in the order they are made and never move or go away.          *)
(***************************************************************************)
EXTENDS Integers

CONSTANTS
  Keys,    \* a set of natural numbers
  Values,
  Null     \* the null pointer to a value

ASSUME KeysAssumption == Keys \subseteq Nat
ASSUME NullAssumption == Null \notin Values

VARIABLES
  nodes,   \* the nodes: key, value, pLeft, pRight; 0 is the null pointer
  count,   \* number of nodes; the head is node 1
  call,    \* the call in progress: op, key, value, and at, the node it is at
  answer,  \* what operator[] last returned
  above    \* history: the nodes on the way from the head to a node

vars == <<nodes, count, call, answer, above>>

Idle == [op |-> "none", key |-> 0, value |-> Null, at |-> 0]

Init ==
  /\ nodes = [n \in {} |-> Null]
  /\ count = 0
  /\ call = Idle
  /\ answer = Null
  /\ above = [n \in {} |-> {}]

-----------------------------------------------------------------------------
Node(key, value) == [key |-> key, value |-> value, pLeft |-> 0, pRight |-> 0]

Here == nodes[call.at]

(* new Node(), reached over the nodes of path. *)
NewNode(tree, key, value, path) ==
  /\ count' = count + 1
  /\ nodes' = [n \in 1..(count + 1) |-> IF n = count + 1 THEN Node(key, value) ELSE tree[n]]
  /\ above' = [n \in 1..(count + 1) |->
                 IF n = count + 1 THEN path \cup {n} ELSE above[n]]

Insert(key, value) ==
  /\ call = Idle
  /\ IF count = 0
     THEN NewNode(nodes, key, value, {}) /\ UNCHANGED call
     ELSE /\ call' = [op |-> "Insert", key |-> key, value |-> value, at |-> 1]
          /\ UNCHANGED <<nodes, count, above>>
  /\ UNCHANGED answer

(* operator[] *)
Lookup(key) ==
  /\ call = Idle
  /\ IF count = 0
     THEN answer' = Null /\ UNCHANGED call
     ELSE /\ call' = [op |-> "Lookup", key |-> key, value |-> Null, at |-> 1]
          /\ UNCHANGED answer
  /\ UNCHANGED <<nodes, count, above>>

(* Mutant: the child is chosen as if the keys were in descending order. *)
NextAtSwapped ==
  IF call.key > Here.key THEN Here.pLeft
  ELSE IF call.key < Here.key THEN Here.pRight
  ELSE 0

(* The child in which the key belongs, 0 if there is none or the key is here. *)
NextAt ==
  IF call.key > Here.key THEN Here.pRight
  ELSE IF call.key < Here.key THEN Here.pLeft
  ELSE 0

(* Mutant: the walk begins anew. *)
DescendRestarts ==
  /\ call # Idle /\ NextAt # 0
  /\ call' = [call EXCEPT !.at = 1]
  /\ UNCHANGED <<nodes, count, answer, above>>

(* One level of FindEntry or FindPlacement. *)
Descend ==
  /\ call # Idle /\ NextAt # 0
  /\ call' = [call EXCEPT !.at = NextAt]
  /\ UNCHANGED <<nodes, count, answer, above>>

(* Mutant: the node is linked on the right, wherever its key belongs. *)
LinkedRight(new) == [nodes EXCEPT ![call.at].pRight = new]

(* Mutant: the link leads to the node after the new one. *)
LinkedPast(new) ==
  IF call.key > Here.key THEN [nodes EXCEPT ![call.at].pRight = new + 1]
  ELSE [nodes EXCEPT ![call.at].pLeft = new + 1]

(* Insert compares the key once more to choose the link. *)
Linked(new) ==
  IF call.key > Here.key THEN [nodes EXCEPT ![call.at].pRight = new]
  ELSE [nodes EXCEPT ![call.at].pLeft = new]

(* Insert returns: with a new node, or without if the key is there already. *)
EndInsert ==
  /\ call.op = "Insert" /\ NextAt = 0
  /\ IF call.key = Here.key
     THEN UNCHANGED <<nodes, count, above>>
     ELSE NewNode(Linked(count + 1), call.key, call.value, above[call.at])
  /\ call' = Idle
  /\ UNCHANGED answer

EndLookup ==
  /\ call.op = "Lookup" /\ NextAt = 0
  /\ answer' = IF call.key = Here.key THEN Here.value ELSE Null
  /\ call' = Idle
  /\ UNCHANGED <<nodes, count, above>>

CallStep == Descend \/ EndInsert \/ EndLookup

Next ==
  \/ \E key \in Keys, value \in Values : Insert(key, value)
  \/ \E key \in Keys : Lookup(key)
  \/ CallStep

(* A call that has begun runs on. *)
Spec == Init /\ [][Next]_vars /\ WF_vars(CallStep)

-----------------------------------------------------------------------------
(* The type invariant: links lead to nodes, and a call is at one. *)
TypeOK ==
  /\ count \in Nat
  /\ nodes \in [1..count -> [key: Keys, value: Values, pLeft: 0..count, pRight: 0..count]]
  /\ above \in [1..count -> SUBSET (1..count)]
  /\ answer \in Values \cup {Null}
  /\ call = Idle \/ call \in [op: {"Insert"}, key: Keys, value: Values, at: 1..count]
                          \cup [op: {"Lookup"}, key: Keys, value: {Null}, at: 1..count]

(* The tree is a search tree: a node below another one is on the side of it
   where its key belongs, down a link of that side. *)
SearchOrder ==
  \A n \in 1..count : \A m \in above[n] \ {n} :
    \/ nodes[n].key < nodes[m].key /\ nodes[m].pLeft \in above[n]
    \/ nodes[n].key > nodes[m].key /\ nodes[m].pRight \in above[n]

(* Wherever a walk is, the key it looks for is below if it is in the tree. *)
WalkIsRight ==
  call # Idle =>
    \A n \in 1..count : nodes[n].key = call.key => call.at \in above[n]

KeysOf == {nodes[n].key : n \in 1..count}

Contents ==
  [k \in KeysOf |-> nodes[CHOOSE n \in 1..count : nodes[n].key = k].value]

Map == INSTANCE KeyMap WITH map <- Contents

(* RETree implements KeyMap: whatever order keys are inserted in, and so
   whatever shape the tree has, every lookup finds what was inserted first. *)
ImplementsMap == Map!Spec

(* Every call returns. *)
CallsReturn == (call # Idle) ~> (call = Idle)
=============================================================================
