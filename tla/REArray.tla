------------------------------- MODULE REArray -------------------------------
(***************************************************************************)
(* REArray of a trivial type: Add with Reallocate, and QuickSort           *)
(* (REArray.h).  For other types QuickSort returns at once.                *)
(*                                                                         *)
(* Reallocate copies as many elements as the new array has, so its upper   *)
(* half is what happens to lie behind the old array; and the upward scan   *)
(* of Partition has no bound, so it may read behind the elements and       *)
(* behind the array.  Such elements can have any value here.  A read that  *)
(* crashes the program is left out.                                        *)
(***************************************************************************)
EXTENDS Integers, Sequences, FiniteSetsExt

CONSTANTS
  Values,           \* what an element can be; a finite set of integers with 0
  InitialCapacity,  \* of the constructor, at least 1; 4 in the code
  MaxSize,          \* bound: elements added
  MaxSorts          \* bound: calls of QuickSort

VARIABLES
  pData,   \* the array, a function on 0..(capacity - 1)
  size,
  ranges,  \* the calls of QuickSort in progress: the innermost is the last
  pc,      \* "idle", "call" (of QuickSort), or where Partition is
  i, j,    \* locals of Partition
  added,   \* history: the elements added, in order
  sorts    \* calls of QuickSort by the client

vars == <<pData, size, ranges, pc, i, j, added, sorts>>

capacity == Cardinality(DOMAIN pData)

Init ==
  /\ pData = [k \in 0..(InitialCapacity - 1) |-> 0]
  /\ size = 0
  /\ ranges = << >>
  /\ pc = "idle"
  /\ i = 0 /\ j = 0
  /\ added = << >>
  /\ sorts = 0

-----------------------------------------------------------------------------
(* Mutant: nothing is copied. *)
ReallocatedFresh == [0..(2 * capacity - 1) -> Values]

(* Reallocate(2): the new array begins with the old one. *)
Reallocated ==
  {[k \in 0..(2 * capacity - 1) |-> IF k < capacity THEN pData[k] ELSE garbage[k]] :
     garbage \in [capacity..(2 * capacity - 1) -> Values]}

Add(value) ==
  /\ pc = "idle" /\ size < MaxSize
  /\ \E array \in IF size = capacity THEN Reallocated ELSE {pData} :
       pData' = [array EXCEPT ![size] = value]
  /\ size' = size + 1
  /\ added' = Append(added, value)
  /\ UNCHANGED <<ranges, pc, i, j, sorts>>

-----------------------------------------------------------------------------
(* QuickSort() calls QuickSort(0, size). *)
QuickSort ==
  /\ pc = "idle" /\ sorts < MaxSorts
  /\ sorts' = sorts + 1
  /\ ranges' = << <<0, size>> >>
  /\ pc' = "call"
  /\ UNCHANGED <<pData, size, i, j, added>>

Low == ranges[Len(ranges)][1]
High == ranges[Len(ranges)][2]
Outer == SubSeq(ranges, 1, Len(ranges) - 1)
pivot == pData[Low]

(* QuickSort(aLowest, aHighest) begins; an empty range returns at once. *)
BeginRange ==
  /\ pc = "call" /\ ranges # << >>
  /\ IF Low < High
     THEN /\ i' = Low /\ j' = High
          /\ pc' = "up"
          /\ UNCHANGED ranges
     ELSE /\ ranges' = Outer
          /\ UNCHANGED <<pc, i, j>>
  /\ UNCHANGED <<pData, size, added, sorts>>

(* do i++ while (pData[i] <= pivot): if nothing in the array is larger, it
   stops somewhere behind the array. *)
ScanUp ==
  /\ pc = "up"
  /\ LET larger == {k \in (i + 1)..(capacity - 1) : pData[k] > pivot}
     IN  i' = IF larger = {} THEN capacity ELSE Min(larger)
  /\ pc' = "down"
  /\ UNCHANGED <<pData, size, ranges, j, added, sorts>>

(* Mutant: the scan also stops at elements that are larger. *)
ScanDownOne ==
  /\ pc = "down"
  /\ j' = j - 1
  /\ pc' = "compare"
  /\ UNCHANGED <<pData, size, ranges, i, added, sorts>>

(* do j-- while (pData[j] > pivot): at the latest, the pivot itself stops it. *)
ScanDown ==
  /\ pc = "down"
  /\ j' = Max({k \in 0..(j - 1) : pData[k] <= pivot})
  /\ pc' = "compare"
  /\ UNCHANGED <<pData, size, ranges, i, added, sorts>>

Swapped(k, l) == [pData EXCEPT ![k] = pData[l], ![l] = pData[k]]

Exchange ==
  /\ pc = "compare" /\ i < j
  /\ pData' = Swapped(i, j)
  /\ pc' = "up"
  /\ UNCHANGED <<size, ranges, i, j, added, sorts>>

(* Mutant: the pivot is sorted again with the upper part. *)
SplitWithPivot ==
  /\ pc = "compare" /\ i >= j
  /\ pData' = Swapped(Low, j)
  /\ ranges' = Outer \o << <<j, High>>, <<Low, j>> >>
  /\ pc' = "call"
  /\ UNCHANGED <<size, i, j, added, sorts>>

(* The pivot goes to its place; below it and above it are sorted next. *)
Split ==
  /\ pc = "compare" /\ i >= j
  /\ pData' = Swapped(Low, j)
  /\ ranges' = Outer \o << <<j + 1, High>>, <<Low, j>> >>
  /\ pc' = "call"
  /\ UNCHANGED <<size, i, j, added, sorts>>

ReturnSorted ==
  /\ pc = "call" /\ ranges = << >>
  /\ pc' = "idle"
  /\ UNCHANGED <<pData, size, ranges, i, j, added, sorts>>

SortStep == BeginRange \/ ScanUp \/ ScanDown \/ Exchange \/ Split \/ ReturnSorted

Next ==
  \/ \E value \in Values : Add(value)
  \/ QuickSort
  \/ SortStep

(* A sort that has begun runs on. *)
Spec == Init /\ [][Next]_vars /\ WF_vars(SortStep)

-----------------------------------------------------------------------------
Elements == [k \in 1..size |-> pData[k - 1]]

Occurrences(s, value) == Cardinality({k \in DOMAIN s : s[k] = value})

(* At every moment the elements are those that were added, each as often as
   it was: neither growing nor an exchange loses one or lets garbage from
   behind the elements in, although the scans look at it. *)
ElementsKept ==
  \A value \in Values : Occurrences(Elements, value) = Occurrences(added, value)

(* Between the ranges still to be sorted everything is in its place: an
   element outside of them is not smaller than any before it and not larger
   than any behind it.  When QuickSort returns no range is left, so that all
   is sorted. *)
SplitsAreFinal ==
  pc = "call" =>
    \A k \in 0..(size - 1) :
      \/ \E r \in DOMAIN ranges : k \in ranges[r][1]..(ranges[r][2] - 1)
      \/ /\ \A l \in 0..(k - 1) : pData[l] <= pData[k]
         /\ \A l \in (k + 1)..(size - 1) : pData[k] <= pData[l]

(* QuickSort returns, with duplicates, sorted input and garbage behind the
   elements as well. *)
SortReturns == (pc # "idle") ~> (pc = "idle")
=============================================================================
