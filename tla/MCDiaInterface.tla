--------------------------- MODULE MCDiaInterface ---------------------------
(***************************************************************************)
(* Small PDBs for TLC.                                                     *)
(*   TypePdbs: five symbols that refer to each other through fields and    *)
(*     typedefs in every way, cycles included, the last one of every kind  *)
(*     that can fail.                                                      *)
(*   LayoutPdbs: one structure with every layout of up to four fields at   *)
(*     two offsets, each with a type that can or cannot be created.        *)
(*   FunctionPdbs: functions with and without a this pointer and with      *)
(*     every argument list of up to three.                                 *)
(***************************************************************************)
EXTENDS DiaInterface, SmallPdbs, TLC

-----------------------------------------------------------------------------
Ends ==
  { Pointer, Symbol("SymTagArrayType", NoName), Symbol("SymTagFunctionType", NoName),
    [Symbol("SymTagEnum", B) EXCEPT !.members = <<At(0, 1), At(0, 1)>>],
    [Base("btFloat", 4) EXCEPT !.tag = "fail"],
    [Symbol("SymTagOther", A) EXCEPT !.hasLength = FALSE],
    [Pointer EXCEPT !.hasId = FALSE] }

Unlengthened ==
  { [Symbol("SymTagArrayType", NoName) EXCEPT !.hasLength = FALSE],
    [Symbol("SymTagEnum", B) EXCEPT !.hasLength = FALSE],
    [Pointer EXCEPT !.hasLength = FALSE],
    [Base("btUInt", 2) EXCEPT !.hasLength = FALSE], Symbol("SymTagUDT", A) }

MemberLists ==
  {<< >>} \cup {<<At(0, o)>> : o \in 2..5}
  \cup {<<At(0, o), At(4, q)>> : o \in 3..5, q \in {1, 4}}

TypePdbs ==
  {DiaPdb(<<Base("btInt", 4), Udt("UdtStruct", A, m), third, Typedef(source), end>>,
          1..5, NoFunctions) :
     m \in MemberLists,
     third \in {Udt("UdtUnion", B, <<At(0, 2), At(0, 5)>>), Udt("UdtClass", B, <<At(0, 4)>>),
                Typedef(5), Typedef(2)},
     source \in {2, 3, 5},
     end \in Ends}
  \cup
  {DiaPdb(<<Base("btInt", 4), Udt("UdtOther", A, <<At(0, 5), At(8, 5)>>),
            Udt("UdtInterface", B, <<At(0, 2), [At(4, 1) EXCEPT !.id = 0], At(4, 0)>>),
            Typedef(source), end>>, 1..5, NoFunctions) :
     source \in {0, 5}, end \in Unlengthened}

TypeLayouts ==
  UNION {[1..n -> {At(offset, o) : offset \in {0, 4}, o \in {1, 3}}] : n \in 1..4}

LayoutPdbs ==
  {DiaPdb(<<Base("btInt", 4), Udt("UdtStruct", A, m), Symbol("SymTagOther", B)>>,
          {1, 2}, NoFunctions) : m \in TypeLayouts}

-----------------------------------------------------------------------------
ArgumentLists == UNION {[1..n -> 1..3] : n \in 0..3}

(* Symbol 1 has no base type, 2 is a structure with a field of type 3, which
   is a pointer or cannot be created, 4 is an array. *)
FunctionSymbolsOf(third) ==
  <<Base("btNoType", 0), Udt("UdtStruct", A, <<At(0, 3)>>), third,
    Symbol("SymTagArrayType", A)>>

FunctionPdbs ==
  {DiaPdb(FunctionSymbolsOf(third), {},
          (7 :> Function(7, returns, this, args))
          @@ (8 :> [Function(8, 4, 0, <<2>>) EXCEPT !.hasType = (this = 0),
                                                   !.hasCount = (this # 0)])) :
     third \in {Pointer, [Pointer EXCEPT !.hasLength = FALSE],
                [Pointer EXCEPT !.hasId = FALSE], [Pointer EXCEPT !.tag = "fail"]},
     returns \in {0, 2, 3}, this \in {0, 3}, args \in ArgumentLists}

(* f(int, ...) and f(...): the ellipsis is a btNoType, which the first function
   has last and the second one first. *)
VariadicPdbs ==
  {DiaPdb(<<Base("btNoType", 0), Base("btInt", 4)>>, {1, 2}, 7 :> Function(7, 2, 0, args)) :
     args \in {<<2, 1>>, <<1>>}}

BuildPdbs == TypePdbs \cup LayoutPdbs \cup FunctionPdbs

-----------------------------------------------------------------------------
(* A structure with static members of its own type and of two typedefs of
   it, a field that fails, and two pointers; and a PDB that lists nothing. *)
RecursivePdb ==
  DiaPdb(<<Udt("UdtStruct", A, <<At(0, 2), At(8, 3), At(16, 1), At(24, 4),
                                  At(32, 6)>>),
           Typedef(1), Typedef(2), Pointer, Pointer, Symbol("SymTagOther", B)>>, 1..5,
         7 :> Function(7, 5, 4, <<1>>))

CallPdbs == {RecursivePdb, [DiaPdb(<<Pointer>>, {}, NoFunctions) EXCEPT !.machine = "I386"]}

(* Two structures with a field of one type that cannot be created. *)
PlaceholderPdbs ==
  {DiaPdb(<<Udt("UdtStruct", A, <<At(0, 3)>>), Udt("UdtStruct", B, <<At(0, 3)>>),
            Symbol("SymTagOther", B)>>, {1, 2}, NoFunctions)}
=============================================================================
