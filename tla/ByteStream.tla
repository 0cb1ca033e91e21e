----------------------------- MODULE ByteStream -----------------------------
(***************************************************************************)
(* What a Writer promises its users: bytes are kept in the order they were *)
(* written, whatever was written before stays as it is, and saving puts    *)
(* them into a file.  Saving adds one byte of unspecified value after the  *)
(* last one (Writer::WriteToFile writes position + 1 bytes) and may end    *)
(* early, since a failing write is not noticed.                            *)
(***************************************************************************)
EXTENDS Naturals, Sequences

CONSTANTS Bytes, Chunks

VARIABLES written, file

Init == written = << >> /\ file = << >>

Write ==
  /\ \E chunk \in Chunks : written' = written \o chunk
  /\ UNCHANGED file

WriteToFile ==
  /\ \E extra \in Bytes, length \in 0..(Len(written) + 1) :
       file' = SubSeq(Append(written, extra), 1, length)
  /\ UNCHANGED written

Spec == Init /\ [][Write \/ WriteToFile]_<<written, file>>
=============================================================================
