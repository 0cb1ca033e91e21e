---------------------------- MODULE WriterProofs ----------------------------
(***************************************************************************)
(* Proofs about Writer, for every set of chunks and of initial sizes: the  *)
(* position stays within the array, the array is at most twice as long as  *)
(* needed, and the Writer implements ByteStream.                           *)
(***************************************************************************)
EXTENDS Writer, TLAPS, SequenceTheorems

(* Buffer::Resize yields an array of the new size. *)
LEMMA ResizeTyped ==
  ASSUME data \in Seq(Bytes), NEW n \in Nat
  PROVE  /\ Resize(n) \in Seq(Bytes)
         /\ Len(Resize(n)) = n
         /\ \A i \in 1..n : i <= Len(data) => Resize(n)[i] = data[i]
<1>1. \A i \in 1..n : (IF i <= Len(data) THEN data[i] ELSE 0) \in Bytes
  BY BytesAssumption
<1>. QED
  BY <1>1 DEF Resize

(* Copying changes no size, and exactly the bytes the chunk covers. *)
LEMMA CopyTyped ==
  ASSUME position \in Nat, NEW array \in Seq(Bytes), NEW chunk \in Seq(Bytes)
  PROVE  /\ Copy(array, chunk) \in Seq(Bytes)
         /\ Len(Copy(array, chunk)) = Len(array)
         /\ \A i \in 1..Len(array) :
              Copy(array, chunk)[i] =
                IF i \in (position + 1)..(position + Len(chunk))
                THEN chunk[i - position] ELSE array[i]
<1>1. \A i \in 1..Len(array) :
        (IF i \in (position + 1)..(position + Len(chunk))
         THEN chunk[i - position] ELSE array[i]) \in Bytes
  OBVIOUS
<1>. QED
  BY <1>1 DEF Copy

(* The new size has room for the write after the old array, and is at most
   double the old size or just what the write needs on top of it. *)
LEMMA NewSizeBounds ==
  ASSUME NEW size \in Nat, NEW length \in Nat
  PROVE  /\ NewSize(size, length) \in Nat
         /\ NewSize(size, length) >= size + length
         /\ \/ NewSize(size, length) = size + length
            \/ NewSize(size, length) <= 2 * size
<1>1. size \div 10 \in Nat /\ size \div 10 <= size
  OBVIOUS
<1>. QED
  BY <1>1 DEF NewSize

(* What one write does to the array: it is typed, has room for the write,
   keeps what was written before and holds the chunk after it. *)
LEMMA WriteImplEffect ==
  ASSUME TypeOK, WritesInBounds, NEW chunk \in Chunks, WriteImpl(chunk)
  PROVE  /\ data' \in Seq(Bytes)
         /\ position' = position + Len(chunk)
         /\ position' <= Len(data')
         /\ Len(data') = Len(data) \/ Len(data') <= 2 * position'
         /\ \A i \in 1..position : data'[i] = data[i]
         /\ \A i \in 1..Len(chunk) : data'[position + i] = chunk[i]
<1>. DEFINE size == NewSize(Len(data), Len(chunk))
<1>1. chunk \in Seq(Bytes) /\ Len(chunk) \in Nat /\ Len(data) \in Nat
  BY ChunksAssumption DEF TypeOK
<1>2. position \in Nat /\ data \in Seq(Bytes) /\ position <= Len(data)
  BY DEF TypeOK, WritesInBounds
<1>3. position' = position + Len(chunk)
  BY DEF WriteImpl
<1>4. CASE IsOverflow(Len(chunk))
  <2>1. position + Len(chunk) > Len(data)
    BY <1>4 DEF IsOverflow
  <2>2. data' = Copy(Resize(size), chunk)
    BY <1>4 DEF WriteImpl
  <2>3. /\ size \in Nat
        /\ size >= Len(data) + Len(chunk)
        /\ size = Len(data) + Len(chunk) \/ size <= 2 * Len(data)
    BY <1>1, NewSizeBounds
  <2>. HIDE DEF size
  <2>4. /\ Resize(size) \in Seq(Bytes)
        /\ Len(Resize(size)) = size
        /\ \A i \in 1..size : i <= Len(data) => Resize(size)[i] = data[i]
    BY <1>2, <2>3, ResizeTyped
  <2>5. /\ data' \in Seq(Bytes)
        /\ Len(data') = size
        /\ \A i \in 1..size :
             data'[i] = IF i \in (position + 1)..(position + Len(chunk))
                        THEN chunk[i - position] ELSE Resize(size)[i]
    BY <1>1, <1>2, <2>2, <2>4, CopyTyped
  <2>6. position' <= Len(data') /\ Len(data') <= 2 * position'
    BY <1>1, <1>2, <1>3, <2>1, <2>3, <2>5
  <2>7. \A i \in 1..position : data'[i] = data[i]
    BY <1>1, <1>2, <2>3, <2>4, <2>5
  <2>8. \A i \in 1..Len(chunk) : data'[position + i] = chunk[i]
    <3>. SUFFICES ASSUME NEW i \in 1..Len(chunk)
                  PROVE  data'[position + i] = chunk[i]
      OBVIOUS
    <3>1. /\ position + i \in 1..size
          /\ position + i \in (position + 1)..(position + Len(chunk))
          /\ (position + i) - position = i
      BY <1>1, <1>2, <2>3
    <3>. QED
      BY <2>5, <3>1
  <2>. QED
    BY <1>3, <2>5, <2>6, <2>7, <2>8
<1>5. CASE ~IsOverflow(Len(chunk))
  <2>1. position + Len(chunk) <= Len(data)
    BY <1>1, <1>2, <1>5 DEF IsOverflow
  <2>2. data' = Copy(data, chunk)
    BY <1>5 DEF WriteImpl
  <2>3. /\ data' \in Seq(Bytes)
        /\ Len(data') = Len(data)
        /\ \A i \in 1..Len(data) :
             data'[i] = IF i \in (position + 1)..(position + Len(chunk))
                        THEN chunk[i - position] ELSE data[i]
    BY <1>1, <1>2, <2>2, CopyTyped
  <2>4. \A i \in 1..position : data'[i] = data[i]
    BY <1>2, <2>3
  <2>5. \A i \in 1..Len(chunk) : data'[position + i] = chunk[i]
    BY <1>1, <1>2, <2>1, <2>3
  <2>. QED
    BY <1>1, <1>2, <1>3, <2>1, <2>3, <2>4, <2>5
<1>. QED
  BY <1>4, <1>5

-----------------------------------------------------------------------------
(* The inductive invariant. *)
WriterInv == TypeOK /\ WritesInBounds /\ WasteIsBounded

(* A new Writer satisfies it. *)
LEMMA InitInv == Init => WriterInv
<1>. SUFFICES ASSUME Init PROVE WriterInv
  OBVIOUS
<1>1. initialSize \in Nat \ {0}
  BY InitialSizesAssumption DEF Init
<1>2. data \in Seq(Bytes) /\ Len(data) = initialSize
  BY <1>1, BytesAssumption DEF Init
<1>3. position = 0 /\ file = << >>
  BY DEF Init
<1>. QED
  BY <1>1, <1>2, <1>3 DEF WriterInv, TypeOK, WritesInBounds, WasteIsBounded

(* Saving changes the file only, to a sequence of bytes. *)
LEMMA WriteToFileTyped ==
  ASSUME TypeOK, WritesInBounds, WriteToFile
  PROVE  file' \in Seq(Bytes)
<1>1. PICK extra \in Bytes, length \in 0..(position + 1) :
        file' = SubSeq(Append(SubSeq(data, 1, position), extra), 1, length)
  BY DEF WriteToFile
<1>2. position \in Nat /\ data \in Seq(Bytes) /\ position <= Len(data)
  BY DEF TypeOK, WritesInBounds
<1>3. SubSeq(data, 1, position) \in Seq(Bytes) /\ Len(SubSeq(data, 1, position)) = position
  BY <1>2
<1>4. /\ Append(SubSeq(data, 1, position), extra) \in Seq(Bytes)
      /\ Len(Append(SubSeq(data, 1, position), extra)) = position + 1
  BY <1>3
<1>. QED
  BY <1>1, <1>2, <1>4

(* Writing and saving preserve it. *)
LEMMA NextInv == WriterInv /\ [Next]_vars => WriterInv'
<1>. SUFFICES ASSUME WriterInv, [Next]_vars PROVE WriterInv'
  OBVIOUS
<1>. USE DEF WriterInv
<1>1. ASSUME NEW chunk \in Chunks, WriteImpl(chunk) PROVE WriterInv'
  <2>1. /\ data' \in Seq(Bytes)
        /\ position' = position + Len(chunk)
        /\ position' <= Len(data')
        /\ Len(data') = Len(data) \/ Len(data') <= 2 * position'
    BY <1>1, WriteImplEffect
  <2>2. Len(chunk) \in Nat /\ Len(data) \in Nat /\ position \in Nat
    BY ChunksAssumption DEF TypeOK
  <2>3. file' = file /\ initialSize' = initialSize
    BY <1>1 DEF WriteImpl
  <2>. QED
    BY <2>1, <2>2, <2>3 DEF TypeOK, WritesInBounds, WasteIsBounded
<1>2. CASE WriteToFile
  BY <1>2, WriteToFileTyped DEF WriteToFile, TypeOK, WritesInBounds, WasteIsBounded
<1>3. CASE UNCHANGED vars
  BY <1>3 DEF vars, TypeOK, WritesInBounds, WasteIsBounded
<1>. QED
  BY <1>1, <1>2, <1>3 DEF Next

(* A Writer always has a typed array, whatever is written to it. *)
THEOREM WriterTypeCorrect == Spec => []TypeOK
<1>1. WriterInv => TypeOK
  BY DEF WriterInv
<1>. QED
  BY <1>1, InitInv, NextInv, PTL DEF Spec

(* WriteImpl never writes outside of the array, for any length of a write
   and any initial size. *)
THEOREM PositionStaysInBounds == Spec => []WritesInBounds
<1>1. WriterInv => WritesInBounds
  BY DEF WriterInv
<1>. QED
  BY <1>1, InitInv, NextInv, PTL DEF Spec

(* The array never gets longer than twice what was written. *)
THEOREM WasteStaysBounded == Spec => []WasteIsBounded
<1>1. WriterInv => WasteIsBounded
  BY DEF WriterInv
<1>. QED
  BY <1>1, InitInv, NextInv, PTL DEF Spec

-----------------------------------------------------------------------------
(* Refinement *)

(* A sequence that starts with s and goes on with t is their concatenation. *)
LEMMA ConcatenationIs ==
  ASSUME NEW s \in Seq(Bytes), NEW t \in Seq(Bytes), NEW r \in Seq(Bytes),
         Len(r) = Len(s) + Len(t),
         \A i \in 1..Len(s) : r[i] = s[i],
         \A i \in 1..Len(t) : r[Len(s) + i] = t[i]
  PROVE  r = s \o t
<1>1. /\ s \o t \in Seq(Bytes)
      /\ Len(s \o t) = Len(s) + Len(t)
      /\ \A i \in 1..(Len(s) + Len(t)) :
           (s \o t)[i] = IF i <= Len(s) THEN s[i] ELSE t[i - Len(s)]
  BY ConcatProperties
<1>2. ASSUME NEW i \in 1..Len(r) PROVE r[i] = (s \o t)[i]
  <2>1. CASE i <= Len(s)
    BY <1>1, <2>1
  <2>2. CASE i > Len(s)
    <3>1. i - Len(s) \in 1..Len(t) /\ Len(s) + (i - Len(s)) = i
      BY <2>2
    <3>. QED
      BY <1>1, <2>2, <3>1
  <2>. QED
    BY <2>1, <2>2
<1>. QED
  BY <1>1, <1>2, SeqEqual

(* A write appends the chunk to what was written, grown array or not. *)
LEMMA WriteAppends ==
  ASSUME WriterInv, NEW chunk \in Chunks, WriteImpl(chunk)
  PROVE  Written' = Written \o chunk /\ file' = file
<1>. USE DEF WriterInv
<1>1. /\ data' \in Seq(Bytes)
      /\ position' = position + Len(chunk)
      /\ position' <= Len(data')
      /\ \A i \in 1..position : data'[i] = data[i]
      /\ \A i \in 1..Len(chunk) : data'[position + i] = chunk[i]
  BY WriteImplEffect
<1>2. chunk \in Seq(Bytes) /\ Len(chunk) \in Nat
  BY ChunksAssumption
<1>3. position \in Nat /\ data \in Seq(Bytes) /\ position <= Len(data)
  BY DEF TypeOK, WritesInBounds
<1>. DEFINE old == SubSeq(data, 1, position)
            new == SubSeq(data', 1, position')
<1>4. /\ old \in Seq(Bytes) /\ Len(old) = position
      /\ \A i \in 1..position : old[i] = data[i]
  BY <1>3
<1>5. /\ new \in Seq(Bytes) /\ Len(new) = position + Len(chunk)
      /\ \A i \in 1..(position + Len(chunk)) : new[i] = data'[i]
  BY <1>1, <1>2, <1>3
<1>. HIDE DEF old, new
<1>6. /\ \A i \in 1..Len(old) : new[i] = old[i]
      /\ \A i \in 1..Len(chunk) : new[Len(old) + i] = chunk[i]
      /\ Len(new) = Len(old) + Len(chunk)
  <2>1. \A i \in 1..position : i \in 1..(position + Len(chunk))
    BY <1>2, <1>3
  <2>2. \A i \in 1..position : new[i] = old[i]
    BY <1>1, <1>4, <1>5, <2>1
  <2>3. \A i \in 1..Len(chunk) : position + i \in 1..(position + Len(chunk))
    BY <1>2, <1>3
  <2>4. \A i \in 1..Len(chunk) : new[position + i] = chunk[i]
    BY <1>1, <1>5, <2>3
  <2>. QED
    BY <1>4, <1>5, <2>2, <2>4
<1>7. new = old \o chunk
  BY <1>2, <1>4, <1>5, <1>6, ConcatenationIs
<1>. QED
  BY <1>7 DEF Written, WriteImpl, old, new

LEMMA WriteRefines ==
  ASSUME WriterInv, NEW chunk \in Chunks, WriteImpl(chunk)
  PROVE  Stream!Write
  BY WriteAppends DEF Stream!Write

(* Saving saves what was written. *)
LEMMA WriteToFileRefines ==
  ASSUME WriterInv, WriteToFile
  PROVE  Stream!WriteToFile
<1>1. position \in Nat /\ data \in Seq(Bytes) /\ position <= Len(data)
  BY DEF WriterInv, TypeOK, WritesInBounds
<1>2. Len(Written) = position
  BY <1>1 DEF Written
<1>3. Written' = Written
  BY DEF Written, WriteToFile
<1>. QED
  BY <1>2, <1>3 DEF WriteToFile, Stream!WriteToFile, Written

(* A Writer implements ByteStream: growing the array loses and changes
   nothing, for any sequence of writes and saves. *)
THEOREM WriterImplementsByteStream == Spec => ImplementsByteStream
<1>1. Init => Stream!Init
  BY DEF Init, Stream!Init, Written
<1>2. WriterInv /\ [Next]_vars =>
        [Stream!Write \/ Stream!WriteToFile]_<<Written, file>>
  <2>. SUFFICES ASSUME WriterInv, [Next]_vars
                PROVE  [Stream!Write \/ Stream!WriteToFile]_<<Written, file>>
    OBVIOUS
  <2>1. CASE \E chunk \in Chunks : WriteImpl(chunk)
    BY <2>1, WriteRefines
  <2>2. CASE WriteToFile
    BY <2>2, WriteToFileRefines
  <2>3. CASE UNCHANGED vars
    BY <2>3 DEF vars, Written
  <2>. QED
    BY <2>1, <2>2, <2>3 DEF Next
<1>. QED
  BY <1>1, <1>2, InitInv, NextInv, PTL DEF Spec, ImplementsByteStream, Stream!Spec
=============================================================================
