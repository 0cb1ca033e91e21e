----------------------------- MODULE SmallPdbs -----------------------------
(***************************************************************************)
(* Building blocks for the small PDBs TLC is given.                        *)
(***************************************************************************)
EXTENDS DiaSymbols

A == <<"A">>
B == <<"B">>
MCNames == {NoName, A, B}

Symbol(tag, name) ==
  [tag |-> tag, hasId |-> TRUE, name |-> name, hasLength |-> TRUE, length |-> 8,
   kind |-> "fail", type |-> 0, members |-> << >>]

Base(bt, size) == [Symbol("SymTagBaseType", NoName) EXCEPT !.kind = bt, !.length = size]
Udt(kind, name, members) ==
  [Symbol("SymTagUDT", name) EXCEPT !.kind = kind, !.members = members]
Typedef(o) == [Symbol("SymTagTypedef", B) EXCEPT !.type = o]
Pointer == Symbol("SymTagPointerType", NoName)

At(offset, o) == [id |-> 90 + offset, name |-> A, offset |-> offset, type |-> o]

DiaPdb(symbols, global, functions) ==
  [symbols |-> symbols, global |-> global, functions |-> functions,
   machine |-> "AMD64"]

NoFunctions == [h \in {} |-> 0]

Function(id, returns, this, args) ==
  [id |-> id, name |-> A, hasType |-> TRUE, returnType |-> returns, hasCount |-> TRUE,
   count |-> (IF this = 0 THEN 0 ELSE 1) + Len(args), this |-> this,
   arguments |-> args, address |-> 64 + id,
   convention |-> IF this = 0 THEN "CV_CALL_NEAR_C" ELSE "CV_CALL_THISCALL"]
=============================================================================
