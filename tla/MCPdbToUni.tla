----------------------------- MODULE MCPdbToUni -----------------------------
(***************************************************************************)
(* PDBs for TLC in which the parts of the program meet: structures that    *)
(* are described twice or differ in their names only, typedefs of either,  *)
(* pointers, a structure that bears the name made up for a pointer that is *)
(* created twice, and symbols that cannot be created.                      *)
(***************************************************************************)
EXTENDS PdbToUni, SmallPdbs, TLC

MCTypeIds == 1..6
MCFunctionIds == 7..8

MadeUp == <<"pUnk", 2>>  \* PointerName(2) of DiaInterface
MCProgramNames == MCNames \cup {MadeUp}

Thirds == {Typedef(1), Udt("UdtStruct", B, <<At(0, 5)>>), Pointer,
           Udt("UdtStruct", MadeUp, << >>)}

Fourths == {Typedef(3), Pointer, Symbol("SymTagOther", A),
            [Pointer EXCEPT !.tag = "fail"], [Pointer EXCEPT !.hasLength = FALSE]}

MCPdbs ==
  {DiaPdb(<<Udt("UdtStruct", A, <<At(0, 5)>>),
            Udt("UdtStruct", A, <<At(offset, first)>>), third, fourth, Pointer>>,
          1..5,
          7 :> Function(7, returns, 4, <<2, 3>>)) :
     offset \in {0, 4}, first \in {4, 5}, third \in Thirds, fourth \in Fourths,
     returns \in {2, 4}}
=============================================================================
