------------------------------ MODULE MCWriter ------------------------------
(***************************************************************************)
(* Chunks for TLC: empty, one byte, two, and one longer than 10% or double *)
(* of a small array.                                                       *)
(***************************************************************************)
EXTENDS Writer

MCChunks == {<< >>, <<1>>, <<2, 0>>, <<1, 2, 2, 1, 0>>}
=============================================================================
