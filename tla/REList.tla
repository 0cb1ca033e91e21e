------------------------------- MODULE REList -------------------------------
(***************************************************************************)
(* REList: a singly linked list (REList.h) on a heap of nodes.  Following  *)
(* a null pointer or a pointer to a deleted node is undefined behaviour,   *)
(* after which nothing is said any more.                                   *)
(***************************************************************************)
EXTENDS Integers, Sequences

Seqs == INSTANCE SequencesExt

CONSTANTS
  Values,
  MaxNodes   \* bound: nodes ever made

VARIABLES
  nodes,      \* the nodes made so far, in order: value and pNext (0 is null)
  deleted,    \* the nodes that were deleted
  pHead,
  answer,     \* what GetSize or GetLast last returned
  undefined,  \* the behaviour is undefined
  expected,   \* history: the values the list should hold
  cause       \* history: a call that is no use of a list, or removed the head

vars == <<nodes, deleted, pHead, answer, undefined, expected, cause>>

Init ==
  /\ nodes = << >>
  /\ deleted = {}
  /\ pHead = 0
  /\ answer = 0
  /\ undefined = FALSE
  /\ expected = << >>
  /\ cause = {}

-----------------------------------------------------------------------------
(* The nodes from the head on, as the loops over pNext visit them.  A link
   always leads to a node that was made later. *)
Chain ==
  LET from[n \in 0..Len(nodes)] ==
        IF n = 0 THEN << >> ELSE <<n>> \o from[nodes[n].pNext]
  IN  from[pHead]

HasDeleted(chain) == \E k \in DOMAIN chain : chain[k] \in deleted

Undefined ==
  /\ undefined' = TRUE
  /\ UNCHANGED <<nodes, deleted, pHead, answer>>

New(value) == Append(nodes, [value |-> value, pNext |-> 0])

(* Mutant: the new node comes before the last one. *)
LinkLastFirst(value) ==
  [New(value) EXCEPT ![Chain[1]].pNext = Len(nodes) + 1]

LinkLast(value) ==
  [New(value) EXCEPT ![Seqs!Last(Chain)].pNext = Len(nodes) + 1]

Insert(value) ==
  /\ ~undefined /\ Len(nodes) < MaxNodes
  /\ expected' = Append(expected, value)
  /\ UNCHANGED cause
  /\ IF HasDeleted(Chain) THEN Undefined
     ELSE /\ IF pHead = 0
             THEN pHead' = Len(nodes) + 1 /\ nodes' = New(value)
             ELSE nodes' = LinkLast(value) /\ UNCHANGED pHead
          /\ UNCHANGED <<deleted, answer, undefined>>

Delete(n) == deleted \cup {n}

(* Remove: the first node with the value is unlinked from the one before it
   and deleted.  There is none before the head, and then pHead stays.  A
   value that is not there leads to the null pointer at the end. *)
Remove(value) ==
  /\ ~undefined
  /\ expected' = Seqs!RemoveFirst(expected, value)
  /\ LET chain == Chain
         matches == {k \in DOMAIN chain : nodes[chain[k]].value = value}
         at == CHOOSE k \in matches : \A l \in matches : k <= l
         visited == IF matches = {} THEN chain ELSE SubSeq(chain, 1, at)
     IN  /\ cause' = cause \cup
              (IF pHead # 0 /\ matches = {} THEN {"absent"}
               ELSE IF pHead # 0 /\ at = 1 THEN {"head"} ELSE {})
         /\ IF pHead = 0 THEN UNCHANGED <<nodes, deleted, pHead, answer, undefined>>
            ELSE IF matches = {} \/ HasDeleted(visited) THEN Undefined
            ELSE /\ deleted' = Delete(chain[at])
                 /\ nodes' = IF at = 1 THEN nodes
                             ELSE [nodes EXCEPT ![chain[at - 1]].pNext = nodes[chain[at]].pNext]
                 /\ UNCHANGED <<pHead, answer, undefined>>

(* Mutant: the head is not reset. *)
HeadAfterClearKept == pHead

HeadAfterClear == 0

Clear ==
  /\ ~undefined
  /\ expected' = << >>
  /\ UNCHANGED cause
  /\ IF HasDeleted(Chain) THEN Undefined
     ELSE /\ deleted' = deleted \cup Seqs!Range(Chain)
          /\ pHead' = HeadAfterClear
          /\ UNCHANGED <<nodes, answer, undefined>>

(* GetLast has no case for an empty list. *)
GetLast ==
  /\ ~undefined
  /\ cause' = cause \cup (IF pHead = 0 THEN {"empty"} ELSE {})
  /\ IF pHead = 0 \/ HasDeleted(Chain) THEN Undefined
     ELSE /\ answer' = nodes[Seqs!Last(Chain)].value
          /\ UNCHANGED <<nodes, deleted, pHead, undefined>>
  /\ UNCHANGED expected

(* GetSize and a loop over the iterators visit the same nodes. *)
GetSize ==
  /\ ~undefined
  /\ IF HasDeleted(Chain) THEN Undefined
     ELSE /\ answer' = Len(Chain)
          /\ UNCHANGED <<nodes, deleted, pHead, undefined>>
  /\ UNCHANGED <<expected, cause>>

Next ==
  \/ \E value \in Values : Insert(value) \/ Remove(value)
  \/ Clear
  \/ GetLast
  \/ GetSize

Spec == Init /\ [][Next]_vars

-----------------------------------------------------------------------------
(* The list is in order: the head was not removed. *)
Intact == cause = {}

(* Unless its head or something that is not in it was removed, a list holds
   what was inserted and not removed again, in order, and its nodes and the
   deleted ones are all there are: unlinking a node from the middle or the
   end and appending afterwards keep the chain together, nothing in it was
   deleted and nothing leaks (Insert, Remove and Clear). *)
HoldsExpected ==
  Intact => /\ [k \in DOMAIN Chain |-> nodes[Chain[k]].value] = expected
            /\ Seqs!Range(Chain) \cap deleted = {}
            /\ Seqs!Range(Chain) \cup deleted = DOMAIN nodes

(* The behaviour is undefined only after the head was removed, which leaves
   pHead at the deleted node, or after a call on something that is not there:
   no other sequence of calls follows a bad pointer. *)
UndefinedHasCause == undefined => ~Intact
=============================================================================
