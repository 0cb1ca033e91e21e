---------------------------- MODULE MCContainers ----------------------------
(***************************************************************************)
(* The containers of RECore for TLC.  They do not know of each other, and  *)
(* a behaviour is the use of one of them.                                  *)
(***************************************************************************)
EXTENDS RETree

CONSTANTS Items, Capacity, MaxSize, MaxSorts, MaxNodes

ASSUME ContainersAssumption ==
  Items \subseteq Int /\ 0 \in Items /\ Capacity \in Nat \ {0}

VARIABLES
  container,  \* the one in use
  pData, size, ranges, pc, i, j, added, sorts,                          \* REArray
  cells, deleted, pHead, listAnswer, undefined, expected, cause         \* REList

Array == INSTANCE REArray WITH Values <- Items, InitialCapacity <- Capacity

List == INSTANCE REList WITH
  Values <- Items, nodes <- cells, answer <- listAnswer

arrayVars == <<pData, size, ranges, pc, i, j, added, sorts>>
listVars == <<cells, deleted, pHead, listAnswer, undefined, expected, cause>>
allVars == <<container, vars, arrayVars, listVars>>

MCInit ==
  /\ container \in {"tree", "array", "list"}
  /\ Init /\ Array!Init /\ List!Init

UseTree == container = "tree" /\ Next /\ UNCHANGED <<container, arrayVars, listVars>>
UseArray == container = "array" /\ Array!Next /\ UNCHANGED <<container, vars, listVars>>
UseList == container = "list" /\ List!Next /\ UNCHANGED <<container, vars, arrayVars>>

Running ==
  \/ UseTree /\ call # Idle
  \/ UseArray /\ pc # "idle"

(* A call that has begun runs on. *)
MCSpec == MCInit /\ [][UseTree \/ UseArray \/ UseList]_allVars /\ WF_allVars(Running)

-----------------------------------------------------------------------------
(* The array holds the elements that Add put in, each as often as it was,
   also while it is sorted. *)
ElementsKept == Array!ElementsKept

(* What Partition has split stays in its place, so QuickSort sorts. *)
SplitsAreFinal == Array!SplitsAreFinal

(* QuickSort returns. *)
SortReturns == Array!SortReturns

(* A list whose head was not removed holds what was inserted and not removed
   (Insert, Remove, Clear), and no node leaks. *)
HoldsExpected == List!HoldsExpected

(* No call of the list follows a bad pointer unless the head, or something
   absent, was removed, or GetLast was asked of an empty list. *)
UndefinedHasCause == List!UndefinedHasCause
=============================================================================
