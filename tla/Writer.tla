------------------------------- MODULE Writer -------------------------------
(***************************************************************************)
(* A Writer: a buffer that grows while it is written to (Writer.cpp and    *)
(* the parts of Buffer.cpp it uses).  size is the length of data.          *)
(*                                                                         *)
(* Sizes are far from 2^64: both the buffer and what is written to it are  *)
(* in memory, so position + acLength does not wrap around.                 *)
(***************************************************************************)
EXTENDS Naturals, Sequences

CONSTANTS
  Bytes,         \* what a byte can be
  Chunks,        \* what a client can write in one call
  InitialSizes,  \* the sizes a client can ask for
  MaxPosition    \* bound: bytes written in all

ASSUME BytesAssumption == 0 \in Bytes
ASSUME ChunksAssumption == Chunks \subseteq Seq(Bytes)
ASSUME InitialSizesAssumption == InitialSizes \subseteq Nat

VARIABLES
  data,         \* the allocated bytes, pData
  position,     \* Buffer::position
  file,         \* contents of the file last saved to
  initialSize   \* history: the size the constructor chose

vars == <<data, position, file, initialSize>>

-----------------------------------------------------------------------------
(* Mutant: a buffer of no bytes is taken as it is; doubling it gives nothing. *)
InitAsAsked ==
  /\ initialSize \in InitialSizes
  /\ data = [i \in 1..initialSize |-> 0]
  /\ position = 0
  /\ file = << >>

(* Writer(acInitialSize): at least one byte; make_unique zeroes it. *)
Init ==
  /\ \E n \in InitialSizes : initialSize = IF n < 1 THEN 1 ELSE n
  /\ data = [i \in 1..initialSize |-> 0]
  /\ position = 0
  /\ file = << >>

IsOverflow(length) == position + length > Len(data)

(* Mutant: the new size is not raised to what the write needs. *)
NewSizeTenPercent(size, length) ==
  IF size + size \div 10 = size THEN size * 2 ELSE size + size \div 10

(* Mutant: the new size always doubles what the write needs. *)
NewSizeGenerous(size, length) == 2 * (size + length)

(* 10% more, or double if 10% is nothing, and enough for the write.  The
   code computes size * 0.1 in floating point and truncates the sum. *)
NewSize(size, length) ==
  LET tenth == size + size \div 10
      grown == IF tenth = size THEN size * 2 ELSE tenth
  IN  IF grown < size + length THEN size + length ELSE grown

(* Mutant: the old contents are not copied. *)
ResizeFresh(newSize) == [i \in 1..newSize |-> 0]

(* Buffer::Resize: a zeroed array that begins with the old contents. *)
Resize(newSize) ==
  [i \in 1..newSize |-> IF i <= Len(data) THEN data[i] ELSE 0]

(* memcpy to the position; a byte outside of the array is not stored. *)
Copy(array, chunk) ==
  [i \in 1..Len(array) |->
     IF i \in (position + 1)..(position + Len(chunk)) THEN chunk[i - position]
     ELSE array[i]]

(* WriteImpl.  If the array cannot be allocated the exception leaves all as
   it was. *)
WriteImpl(chunk) ==
  /\ position + Len(chunk) <= MaxPosition
  /\ data' = IF IsOverflow(Len(chunk))
             THEN Copy(Resize(NewSize(Len(data), Len(chunk))), chunk)
             ELSE Copy(data, chunk)
  /\ position' = position + Len(chunk)
  /\ UNCHANGED <<file, initialSize>>

(* WriteToFile once the file is open: position + 1 bytes, the last of which
   was not written by anyone.  If position has reached the size it lies
   outside of the array and can be anything.  Nobody looks at whether all of
   it reached the file. *)
WriteToFile ==
  /\ \E extra \in Bytes, length \in 0..(position + 1) :
       /\ position < Len(data) => extra = data[position + 1]
       /\ file' = SubSeq(Append(SubSeq(data, 1, position), extra), 1, length)
  /\ UNCHANGED <<data, position, initialSize>>

Next ==
  \/ \E chunk \in Chunks : WriteImpl(chunk)
  \/ WriteToFile

Spec == Init /\ [][Next]_vars

-----------------------------------------------------------------------------
(* The type invariant: an array of bytes with a position and a file. *)
TypeOK ==
  /\ data \in Seq(Bytes)
  /\ position \in Nat
  /\ file \in Seq(Bytes)
  /\ initialSize \in Nat \ {0}

(* No write lands outside of the array, however long it is and however small
   the array: growing by 10%, doubling and the minimum in WriteImpl together
   always make enough room. *)
WritesInBounds == position <= Len(data)

(* The array is never more than twice as long as what was written, unless it
   was created that long: growing by what a write needs on top of the old
   size, not of the position, does not add up over many writes. *)
WasteIsBounded == Len(data) <= initialSize \/ Len(data) <= 2 * position

Written == SubSeq(data, 1, position)

Stream == INSTANCE ByteStream WITH written <- Written

(* A Writer implements ByteStream: growing loses nothing and a saved file
   holds what was written, in order, and one byte more. *)
ImplementsByteStream == Stream!Spec
=============================================================================
