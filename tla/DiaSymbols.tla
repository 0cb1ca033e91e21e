----------------------------- MODULE DiaSymbols -----------------------------
(***************************************************************************)
(* The DIA SDK as DiaInterface.cpp sees it: the symbols of one PDB and     *)
(* what their getters answer.  The SDK is not part of the repository; this *)
(* module states what the calls the program makes can return.              *)
(*                                                                         *)
(* A symbol is a number, which is also its symIndexId; 0 is the null       *)
(* pointer.  "fail" stands for a getter that does not return S_OK.  A name *)
(* is a tuple, << >> when get_name fails.                                  *)
(***************************************************************************)
EXTENDS UsymFormat

NoName == << >>

(* The tags CreateTypeSymbol tells apart; SymTagOther is any tag it has no
   case for. *)
SymTags == {"SymTagBaseType", "SymTagUDT", "SymTagEnum", "SymTagPointerType",
            "SymTagTypedef", "SymTagArrayType", "SymTagFunctionType",
            "SymTagOther"}

BasicTypes == {"btNoType", "btVoid", "btChar", "btWChar", "btInt", "btUInt",
               "btFloat", "btBool", "btLong", "btULong", "btChar8", "btChar16",
               "btChar32"}

UdtKinds == {"UdtStruct", "UdtClass", "UdtUnion", "UdtInterface", "UdtOther"}

MachineTypes == {"I386", "AMD64", "ARM", "ARM64", "other", "fail"}

CallConventions == {"CV_CALL_NEAR_C", "CV_CALL_NEAR_FAST", "CV_CALL_NEAR_STD",
                    "CV_CALL_NEAR_SYS", "CV_CALL_THISCALL", "CV_CALL_CLRCALL",
                    "other", "fail"}

(* kind: the base type of a base type, the udt kind of a udt.
   type: what a typedef stands for.  members: the SymTagData children. *)
DiaMembers(N, Syms) ==
  [id: Nat, name: N, offset: Nat, type: Syms \cup {0}]

DiaTypes(N, Syms) ==
  [tag: SymTags \cup {"fail"}, hasId: BOOLEAN, name: N, hasLength: BOOLEAN,
   length: Nat, kind: BasicTypes \cup UdtKinds \cup {"fail"},
   type: Syms \cup {0}, members: Seq(DiaMembers(N, Syms))]

DiaFunctions(N, Syms) ==
  [id: Nat, name: N, hasType: BOOLEAN, returnType: Syms \cup {0},
   hasCount: BOOLEAN, count: Nat, this: Syms \cup {0}, arguments: Seq(Syms),
   convention: CallConventions, address: Nat]

(* The kind answers what the tag asks for, and members are asked of udts and
   enums only. *)
AnswersItsTag(s) ==
  /\ s.tag = "SymTagBaseType" => s.kind \in BasicTypes \cup {"fail"}
  /\ s.tag = "SymTagUDT" => s.kind \in UdtKinds \cup {"fail"}
  /\ s.tag \notin {"SymTagUDT", "SymTagEnum"} => s.members = << >>

(* A chain of typedefs ends in something else, as the language demands. *)
TypedefsEnd(symbols) ==
  \A T \in SUBSET {o \in DOMAIN symbols : symbols[o].tag = "SymTagTypedef"} :
    T # {} => \E o \in T : symbols[o].type \notin T

(* symbols: all type symbols, those only reached through others included.
   global: the ones the global scope lists.  functions: by handle. *)
IsPdb(N, p) ==
  /\ DOMAIN p.symbols \subseteq Nat \ {0}
  /\ p.symbols \in [DOMAIN p.symbols -> DiaTypes(N, DOMAIN p.symbols)]
  /\ \A o \in DOMAIN p.symbols : AnswersItsTag(p.symbols[o])
  /\ TypedefsEnd(p.symbols)
  /\ p.global \subseteq DOMAIN p.symbols
  /\ DOMAIN p.functions \subseteq Nat
  /\ p.functions \in [DOMAIN p.functions -> DiaFunctions(N, DOMAIN p.symbols)]
  /\ \A g, h \in DOMAIN p.functions :
       p.functions[g].id = p.functions[h].id => g = h
  /\ p.machine \in MachineTypes
=============================================================================
