---------------------------- MODULE DiaInterface ----------------------------
(***************************************************************************)
(* The PDB processor: DiaInterface::CreateUsymFromFile, called any number  *)
(* of times in one process (DiaInterface.cpp).                             *)
(*                                                                         *)
(* CreateTypeSymbol is recursive through fields and typedefs while it      *)
(* fills one shared map.  The recursion is a stack of frames here, and     *)
(* every step between two calls is an action.  The order in which the SDK  *)
(* lists the symbols of the global scope is not specified, so any symbol   *)
(* of a list may come next.                                                *)
(***************************************************************************)
EXTENDS DiaSymbols

CONSTANTS
  Names,     \* names of PDB symbols
  Pdbs,      \* the PDBs that can be opened
  MaxCalls   \* bound: calls of CreateUsymFromFile

ASSUME NamesAssumption == NoName \in Names
ASSUME PdbsAssumption == \A p \in Pdbs : IsPdb(Names, p)
ASSUME DiaMaxCallsAssumption == MaxCalls \in Nat

VARIABLES
  pdb,              \* the PDB the current or last call reads
  com,              \* CoInitialize calls not yet matched by CoUninitialize
  held,             \* which of the three static COM pointers are set
  s_counter,        \* static of GeneratePointerName
  calls,            \* calls of CreateUsymFromFile so far
  pc,               \* where CreateUsymFromFile is
  outcome,          \* what the last call returned: "usym" or "nullopt"
  header,           \* header of the USYM being built
  typeSymbols,      \* its type symbols
  functionSymbols,  \* its function symbols
  list,             \* which BuildTypeList call is running
  todo,             \* what the running enumerator has not delivered yet
  fn,               \* the function BuildFunctionList is working on
  stack,            \* the CreateTypeSymbol calls in progress
  ret               \* what the last CreateTypeSymbol to return returned

sessionVars == <<pdb, com, held, calls, outcome, header>>
listVars == <<pc, list, todo>>
functionVars == <<functionSymbols, fn>>
typeVars == <<typeSymbols, stack, ret, s_counter>>
vars == <<sessionVars, listVars, functionVars, typeVars>>

ComPointers == {"dataSource", "session", "globalScope"}

(* The calls of BuildTypeList, in order. *)
TypeLists == <<"SymTagBaseType", "SymTagUDT", "SymTagEnum", "SymTagTypedef",
               "SymTagPointerType">>

NoFunction == [handle |-> 0, step |-> "none", next |-> 0, position |-> 0]

(* Before the first call no PDB is open. *)
NoPdb == [symbols |-> EmptyMap, global |-> {}, functions |-> EmptyMap,
          machine |-> "fail"]

NewHeader == [originalFormat |-> "kUnknown", architecture |-> "kUnknown"]

Init ==
  /\ pdb = NoPdb
  /\ com = 0
  /\ held = {}
  /\ s_counter = 0
  /\ calls = 0
  /\ pc = "idle"
  /\ outcome = "none"
  /\ header = NewHeader
  /\ typeSymbols = EmptyMap
  /\ functionSymbols = EmptyMap
  /\ list = 0
  /\ todo = {}
  /\ fn = NoFunction
  /\ stack = << >>
  /\ ret = FALSE

-----------------------------------------------------------------------------
(* Names *)

(* The name of a base type: "int" and 32 stand for int32_t. *)
GetBaseName(baseType, size) ==
  CASE baseType = "btInt" ->
         IF size \in {1, 2, 4, 8} THEN <<"int", 8 * size>> ELSE <<"int">>
    [] baseType = "btUInt" ->
         IF size \in {1, 2, 4, 8} THEN <<"uint", 8 * size>> ELSE <<"uint">>
    [] baseType = "btFloat" -> IF size = 4 THEN <<"float">> ELSE <<"double">>
    [] baseType = "btChar" -> <<"char">>
    [] baseType = "btWChar" -> <<"wchar">>
    [] baseType = "btBool" -> <<"bool">>
    [] baseType = "btLong" -> <<"long">>
    [] baseType = "btULong" -> <<"unsigned long">>
    [] baseType = "btChar8" -> <<"char8_t">>
    [] baseType = "btChar16" -> <<"char16_t">>
    [] baseType = "btChar32" -> <<"char32_t">>
    [] OTHER -> <<"void">>

PointerName(n) == <<"pUnk", n>>

-----------------------------------------------------------------------------
(* CreateTypeSymbol *)

Sym(o) == pdb.symbols[o]
Id(o) == IF Sym(o).hasId THEN o ELSE 0
Top == stack[Len(stack)]
Below == SubSeq(stack, 1, Len(stack) - 1)

Frame(o) ==
  [obj |-> o, step |-> "create", symbol |-> EmptyType(NoName), next |-> 1,
   unionId |-> 0, wasLastUnion |-> FALSE]

(* The call CreateTypeSymbol(o), made by the last of the given frames.  The
   entry of the map is created before the symbol is: operator[] leaves an
   entry that exists alone and makes an empty one otherwise. *)
CreateTypeSymbol(o, frames) ==
  IF o # 0 /\ Sym(o).tag # "fail" /\ Sym(o).hasId
  THEN /\ typeSymbols' = IF o \in DOMAIN typeSymbols THEN typeSymbols
                         ELSE Put(typeSymbols, o, EmptyType(NoName))
       /\ stack' = Append(frames, Frame(o))
       /\ ret' = ret
  ELSE /\ stack' = frames
       /\ ret' = FALSE
       /\ UNCHANGED typeSymbols

(* CreateTypeSymbol returns: with the symbol assigned to its entry, or
   without, and then the entry stays as it is. *)
Return(symbol) ==
  /\ typeSymbols' = [typeSymbols EXCEPT ![Top.obj] = symbol]
  /\ stack' = Below
  /\ ret' = TRUE

ReturnFalse ==
  /\ stack' = Below
  /\ ret' = FALSE
  /\ UNCHANGED typeSymbols

(* The call on top goes on to its next step with a changed frame. *)
Continue(frame) ==
  /\ stack' = Append(Below, frame)
  /\ UNCHANGED <<typeSymbols, ret>>

Creating(tag) ==
  stack # << >> /\ Top.step = "create" /\ Sym(Top.obj).tag = tag

TypeStep == UNCHANGED <<sessionVars, listVars, functionVars>>

(* What the creators fill in alike. *)
Described(kind, name) ==
  [id |-> Top.obj, name |-> name, type |-> kind, length |-> Sym(Top.obj).length,
   fieldCount |-> 0, fields |-> << >>, typedefSource |-> 0]

CreateBaseTypeSymbol ==
  /\ Creating("SymTagBaseType")
  /\ LET s == Sym(Top.obj) IN
       IF s.kind # "fail" /\ s.hasLength
       THEN Return(Described("kBase", GetBaseName(s.kind, s.length)))
       ELSE ReturnFalse
  /\ TypeStep /\ UNCHANGED s_counter

CreateArrayTypeSymbol ==
  /\ Creating("SymTagArrayType")
  /\ IF Sym(Top.obj).hasLength
     THEN Return(Described("kArray", Sym(Top.obj).name))
     ELSE ReturnFalse
  /\ TypeStep /\ UNCHANGED s_counter

(* Mutant: the counter is not advanced. *)
CreatePointerTypeSymbolSameName ==
  /\ Creating("SymTagPointerType")
  /\ IF Sym(Top.obj).hasLength
     THEN Return(Described("kPointer", PointerName(s_counter)))
     ELSE ReturnFalse
  /\ TypeStep /\ UNCHANGED s_counter

(* The counter advances even when the pointer then has no length. *)
CreatePointerTypeSymbol ==
  /\ Creating("SymTagPointerType")
  /\ s_counter' = s_counter + 1
  /\ IF Sym(Top.obj).hasLength
     THEN Return(Described("kPointer", PointerName(s_counter')))
     ELSE ReturnFalse
  /\ TypeStep

CreateUnsupportedSymbol ==
  /\ Creating("SymTagOther") \/ Creating("SymTagFunctionType")
  /\ ReturnFalse
  /\ TypeStep /\ UNCHANGED s_counter

(* A typedef creates the type it stands for, whether or not it is in the
   map already; a function type has no length and is not created. *)
CreateTypedefSymbol ==
  /\ Creating("SymTagTypedef")
  /\ LET s == Sym(Top.obj) IN
       \/ /\ s.type = 0
          /\ ReturnFalse
       \/ /\ s.type # 0
          /\ Sym(s.type).tag = "SymTagFunctionType"
          /\ Return([Described("kTypedef", s.name) EXCEPT !.length = 0])
       \/ /\ s.type # 0
          /\ Sym(s.type).tag # "SymTagFunctionType"
          /\ CreateTypeSymbol(s.type, Append(Below, [Top EXCEPT !.step = "source"]))
  /\ TypeStep /\ UNCHANGED s_counter

(* ... and does not look at how that went. *)
FinishTypedefSymbol ==
  /\ stack # << >> /\ Top.step = "source"
  /\ LET source == Sym(Top.obj).type IN
       IF Sym(source).hasLength /\ Sym(source).hasId
       THEN Return([Described("kTypedef", Sym(Top.obj).name) EXCEPT
                      !.length = Sym(source).length, !.typedefSource = source])
       ELSE ReturnFalse
  /\ TypeStep /\ UNCHANGED s_counter

-----------------------------------------------------------------------------
(* Types with members *)

UdtType ==
  [UdtStruct |-> "kStruct", UdtClass |-> "kClass", UdtUnion |-> "kUnion",
   UdtInterface |-> "kInterface", UdtOther |-> "kUnknown"]

(* The head of CreateMembersForSymbol: the field count is known before the
   first field is made. *)
BeginMembers(kind) ==
  Continue([Top EXCEPT !.step = "members",
              !.symbol = [Described(kind, Sym(Top.obj).name) EXCEPT
                            !.fieldCount = Len(Sym(Top.obj).members)]])

CreateUDTSymbol ==
  /\ Creating("SymTagUDT")
  /\ IF Sym(Top.obj).kind # "fail" /\ Sym(Top.obj).hasLength
     THEN BeginMembers(UdtType[Sym(Top.obj).kind])
     ELSE ReturnFalse
  /\ TypeStep /\ UNCHANGED s_counter

CreateEnumSymbol ==
  /\ Creating("SymTagEnum")
  /\ IF Sym(Top.obj).hasLength THEN BeginMembers("kEnum") ELSE ReturnFalse
  /\ TypeStep /\ UNCHANGED s_counter

Member == Sym(Top.obj).members[Top.next]

Field(m) ==
  [id |-> m.id, name |-> m.name, underlyingTypeId |-> m.type, offset |-> m.offset,
   isAnonymousUnion |-> FALSE, unionId |-> 0]

(* fields.push_back, and on to the next member *)
PushField(field) ==
  Continue([Top EXCEPT !.step = "members", !.next = @ + 1,
                       !.symbol.fields = Append(@, field)])

AtMember ==
  /\ stack # << >>
  /\ Top.step = "members"
  /\ Top.next <= Len(Sym(Top.obj).members)

MemberReadable(m) == m.id # 0 /\ m.type # 0 /\ Sym(m.type).hasId

(* Mutant: a type is created for every field, known or not. *)
CreateFieldSymbolAlways ==
  /\ AtMember
  /\ \/ /\ ~MemberReadable(Member)
        /\ PushField(EmptyField(NoName))
     \/ /\ MemberReadable(Member)
        /\ CreateTypeSymbol(Member.type, Append(Below, [Top EXCEPT !.step = "field"]))
  /\ TypeStep /\ UNCHANGED s_counter

(* Mutant: the type of a field is never created. *)
CreateFieldSymbolNever ==
  /\ AtMember
  /\ IF MemberReadable(Member) THEN PushField(Field(Member))
     ELSE PushField(EmptyField(NoName))
  /\ TypeStep /\ UNCHANGED s_counter

(* CreateFieldSymbol up to the type of the field, which is created only if
   the map has no entry for it; a member that cannot be read leaves an empty
   field. *)
CreateFieldSymbol ==
  /\ AtMember
  /\ \/ /\ ~MemberReadable(Member)
        /\ PushField(EmptyField(NoName))
     \/ /\ MemberReadable(Member)
        /\ Member.type \in DOMAIN typeSymbols
        /\ PushField(Field(Member))
     \/ /\ MemberReadable(Member)
        /\ Member.type \notin DOMAIN typeSymbols
        /\ CreateTypeSymbol(Member.type, Append(Below, [Top EXCEPT !.step = "field"]))
  /\ TypeStep /\ UNCHANGED s_counter

(* Mutant: a field whose type could not be created is left out. *)
FinishFieldSymbolSkips ==
  /\ stack # << >> /\ Top.step = "field"
  /\ IF ret THEN PushField(Field(Member))
     ELSE Continue([Top EXCEPT !.step = "members", !.next = @ + 1])
  /\ TypeStep /\ UNCHANGED s_counter

(* ... and once the type has been created, or has not. *)
FinishFieldSymbol ==
  /\ stack # << >> /\ Top.step = "field"
  /\ PushField(IF ret THEN Field(Member) ELSE EmptyField(NoName))
  /\ TypeStep /\ UNCHANGED s_counter

(* All members done: unions and enums are finished, others have their
   anonymous unions marked. *)
EndMembers ==
  /\ stack # << >> /\ Top.step = "members"
  /\ Top.next > Len(Sym(Top.obj).members)
  /\ IF Top.symbol.type \in {"kUnion", "kEnum"}
     THEN Return(Top.symbol)
     ELSE Continue([Top EXCEPT !.step = "unions", !.next = 1])
  /\ TypeStep /\ UNCHANGED s_counter

AtUnion == stack # << >> /\ Top.step = "unions"

MarkUnion(fields, i, unionId) ==
  [j \in DOMAIN fields |->
     IF j \in {i, i + 1}
     THEN [fields[j] EXCEPT !.isAnonymousUnion = TRUE, !.unionId = unionId]
     ELSE fields[j]]

(* Mutant: the next union gets the number of the last one. *)
SetAnonymousUnionDataSameId ==
  /\ AtUnion
  /\ Top.next < Len(Top.symbol.fields)
  /\ LET i == Top.next
         fields == Top.symbol.fields
     IN  Continue([Top EXCEPT !.next = @ + 1,
           !.symbol.fields =
              IF /\ fields[i].id # 0 /\ fields[i + 1].id # 0
                 /\ fields[i].offset = fields[i + 1].offset
              THEN MarkUnion(fields, i, Top.unionId) ELSE @])
  /\ TypeStep /\ UNCHANGED s_counter

(* Mutant: an iteration that is skipped does not advance the index. *)
SetAnonymousUnionDataStuck ==
  /\ AtUnion
  /\ Top.next < Len(Top.symbol.fields)
  /\ LET i == Top.next
         fields == Top.symbol.fields
         skip == fields[i].id = 0 \/ fields[i + 1].id = 0
     IN  Continue(IF skip THEN Top ELSE [Top EXCEPT !.next = @ + 1])
  /\ TypeStep /\ UNCHANGED s_counter

(* One iteration of SetAnonymousUnionData: neighbours of one offset belong
   to one union.  An empty field on either side skips the iteration. *)
SetAnonymousUnionData ==
  /\ AtUnion
  /\ Top.next < Len(Top.symbol.fields)
  /\ LET i == Top.next
         fields == Top.symbol.fields
         skip == fields[i].id = 0 \/ fields[i + 1].id = 0
         same == fields[i].offset = fields[i + 1].offset
         after == [Top EXCEPT !.next = @ + 1]
     IN  \/ /\ skip
            /\ Continue(after)
         \/ /\ ~skip /\ same
            /\ Continue([after EXCEPT !.wasLastUnion = TRUE,
                 !.symbol.fields = MarkUnion(fields, i, Top.unionId)])
         \/ /\ ~skip /\ ~same
            /\ Continue([after EXCEPT !.wasLastUnion = FALSE,
                 !.unionId = IF Top.wasLastUnion THEN @ + 1 ELSE @])
  /\ TypeStep /\ UNCHANGED s_counter

EndUnions ==
  /\ AtUnion
  /\ Top.next >= Len(Top.symbol.fields)
  /\ Return(Top.symbol)
  /\ TypeStep /\ UNCHANGED s_counter

-----------------------------------------------------------------------------
(* BuildTypeList and BuildFunctionList *)

(* CreateUsymFromFile makes the next call of BuildTypeList, or goes on to
   BuildFunctionList. *)
BeginList ==
  /\ pc = "types" /\ stack = << >> /\ todo = {}
  /\ IF list < Len(TypeLists)
     THEN /\ list' = list + 1
          /\ todo' = {o \in pdb.global : Sym(o).tag = TypeLists[list']}
          /\ pc' = pc
     ELSE /\ pc' = "functions"
          /\ todo' = DOMAIN pdb.functions
          /\ list' = list
  /\ UNCHANGED <<sessionVars, functionVars, typeVars>>

(* A symbol of the list is created even if another one led to it before. *)
BuildTypeList(o) ==
  /\ pc = "types" /\ stack = << >>
  /\ o \in todo
  /\ todo' = todo \ {o}
  /\ CreateTypeSymbol(o, << >>)
  /\ UNCHANGED <<sessionVars, functionVars, pc, list, s_counter>>

Fun == pdb.functions[fn.handle]

(* A function begins: its entry is made, and kept even if it has no type. *)
BeginFunction(h) ==
  /\ pc = "functions" /\ fn = NoFunction
  /\ h \in todo
  /\ todo' = todo \ {h}
  /\ LET f == pdb.functions[h]
         entry == IF f.id \in DOMAIN functionSymbols THEN functionSymbols[f.id]
                  ELSE EmptyFunction(NoName)
     IN  /\ functionSymbols' = Put(functionSymbols, f.id,
                                   [entry EXCEPT !.id = f.id, !.name = f.name])
         /\ fn' = IF f.hasType
                  THEN [handle |-> h, step |-> "return", next |-> 1, position |-> 0]
                  ELSE NoFunction
  /\ UNCHANGED <<sessionVars, typeVars, pc, list>>

(* The type of a return value or an argument is created if the map has no
   entry under its id; the result is only logged. *)
EnsureType(o) ==
  /\ IF o = 0 \/ Id(o) \in DOMAIN typeSymbols
     THEN UNCHANGED <<typeSymbols, stack, ret>>
     ELSE CreateTypeSymbol(o, << >>)
  /\ UNCHANGED <<sessionVars, listVars, s_counter>>

(* fn is only looked at again once the type has been dealt with. *)
AtFunction(step) == fn.step = step /\ stack = << >>

ReturnType ==
  /\ AtFunction("return")
  /\ functionSymbols' =
       IF Fun.returnType # 0 /\ Sym(Fun.returnType).hasId
       THEN [functionSymbols EXCEPT ![Fun.id].returnTypeId = Fun.returnType]
       ELSE functionSymbols
  /\ EnsureType(Fun.returnType)
  /\ fn' = [fn EXCEPT !.step = "this"]

(* The argument count, then the this pointer, which is no argument of the
   type's argument list. *)
ThisArgument ==
  /\ AtFunction("this")
  /\ LET old == functionSymbols[Fun.id]
         counted == IF Fun.hasCount THEN [old EXCEPT !.argumentCount = Fun.count] ELSE old
         ids == IF Fun.this = 0 THEN << >> ELSE <<Id(Fun.this)>>
     IN  \/ /\ counted.argumentCount > 0
            /\ functionSymbols' = [functionSymbols EXCEPT ![Fun.id] =
                 [counted EXCEPT !.argumentTypeIds = @ \o ids]]
            /\ EnsureType(Fun.this)
            /\ fn' = [fn EXCEPT !.step = "arguments"]
         \/ /\ counted.argumentCount = 0
            /\ functionSymbols' = [functionSymbols EXCEPT ![Fun.id] = counted]
            /\ EnsureType(0)
            /\ fn' = [fn EXCEPT !.step = "arguments", !.next = Len(Fun.arguments) + 1]

(* A base type without a base type; get_baseType failing looks the same. *)
IsNoType(o) ==
  Sym(o).tag = "SymTagBaseType" /\ Sym(o).kind \in {"btNoType", "fail"}

(* Mutant: the type of an argument is not created. *)
ArgumentNotCreated ==
  /\ AtFunction("arguments")
  /\ fn.next <= Len(Fun.arguments)
  /\ LET o == Fun.arguments[fn.next]
         after == [fn EXCEPT !.next = @ + 1]
     IN  /\ functionSymbols' = [functionSymbols EXCEPT
                               ![Fun.id].argumentTypeIds = Append(@, Id(o))]
         /\ EnsureType(0)
         /\ fn' = [after EXCEPT !.position = @ + 1]

(* Mutant: the position is not advanced. *)
ArgumentPositionKept ==
  /\ AtFunction("arguments")
  /\ fn.next <= Len(Fun.arguments)
  /\ LET o == Fun.arguments[fn.next]
         stub == IsNoType(o) /\ fn.position = 0
     IN  /\ functionSymbols' =
              IF stub THEN functionSymbols
              ELSE [functionSymbols EXCEPT ![Fun.id].argumentTypeIds = Append(@, Id(o))]
         /\ EnsureType(IF stub THEN 0 ELSE o)
         /\ fn' = [fn EXCEPT !.next = @ + 1]

(* One argument; a btNoType before the first argument kept is a stub. *)
Argument ==
  /\ AtFunction("arguments")
  /\ fn.next <= Len(Fun.arguments)
  /\ LET o == Fun.arguments[fn.next]
         stub == IsNoType(o) /\ fn.position = 0
         after == [fn EXCEPT !.next = @ + 1]
     IN  \/ /\ stub
            /\ EnsureType(0)
            /\ fn' = after
            /\ UNCHANGED functionSymbols
         \/ /\ ~stub
            /\ functionSymbols' = [functionSymbols EXCEPT
                                  ![Fun.id].argumentTypeIds = Append(@, Id(o))]
            /\ EnsureType(o)
            /\ fn' = [after EXCEPT !.position = @ + 1]

Convention ==
  [CV_CALL_NEAR_C |-> "kNearC", CV_CALL_NEAR_FAST |-> "kNearFast",
   CV_CALL_NEAR_STD |-> "kNearStd", CV_CALL_NEAR_SYS |-> "kNearSys",
   CV_CALL_THISCALL |-> "kThiscall", CV_CALL_CLRCALL |-> "kCLRCall",
   other |-> "kUnknown", fail |-> "kUnknown"]

(* Calling convention and address (0 if the SDK knows none) end a function.
   The assertion in front of them, ArgumentCountMatches, is compiled out of a
   release build, which goes on here whether or not it holds. *)
EndFunction ==
  /\ AtFunction("arguments")
  /\ fn.next > Len(Fun.arguments)
  /\ functionSymbols' = [functionSymbols EXCEPT
       ![Fun.id].callingConvention = Convention[Fun.convention],
       ![Fun.id].virtualAddress = Fun.address]
  /\ fn' = NoFunction
  /\ UNCHANGED <<sessionVars, listVars, typeVars>>

-----------------------------------------------------------------------------
(* CreateUsymFromFile *)

(* InitializeDia gets as far as the failing call: CoCreateInstance,
   loadDataFromPdb, openSession or get_globalScope, and throws there.  What
   CoInitialize answers is not looked at; com counts its calls. *)
Acquired(failing) ==
  CASE failing = "CoCreateInstance" -> {}
    [] failing \in {"loadDataFromPdb", "openSession"} -> {"dataSource"}
    [] failing = "get_globalScope" -> {"dataSource", "session"}
    [] failing = "none" -> ComPointers

Failures == {"CoCreateInstance", "loadDataFromPdb", "openSession",
             "get_globalScope", "none"}

InitializeDia(p, failing) ==
  /\ pc = "idle"
  /\ calls < MaxCalls
  /\ calls' = calls + 1
  /\ pdb' = p
  /\ com' = com + 1
  /\ held' = held \cup Acquired(failing)
  /\ pc' = IF failing = "none" THEN "header" ELSE "catch"
  /\ outcome' = "none"
  /\ header' = NewHeader
  /\ typeSymbols' = EmptyMap
  /\ functionSymbols' = EmptyMap
  /\ list' = 0
  /\ UNCHANGED <<todo, fn, stack, ret, s_counter>>

Architecture ==
  [I386 |-> "kX86", AMD64 |-> "kX86_64", ARM |-> "kArm32", ARM64 |-> "kArm64",
   other |-> "kUnknown", fail |-> "kUnknown"]

BuildHeader ==
  /\ pc = "header"
  /\ header' = [originalFormat |-> "kPdb", architecture |-> Architecture[pdb.machine]]
  /\ pc' = "types"
  /\ UNCHANGED <<pdb, com, held, calls, outcome, list, todo, functionVars, typeVars>>

Release ==
  /\ held' = {}
  /\ com' = com - 1

(* The USYM is complete and handed to the caller.  (Moving it out after the
   release is taken not to throw.) *)
ReturnUsym ==
  /\ pc = "functions" /\ fn = NoFunction /\ todo = {}
  /\ Release
  /\ outcome' = "usym"
  /\ pc' = "idle"
  /\ UNCHANGED <<pdb, calls, header, list, todo, functionVars, typeVars>>

(* Running out of memory, anywhere in the build, unwinds all of it. *)
Throw ==
  /\ pc \in {"header", "types", "functions"}
  /\ pc' = "catch"
  /\ stack' = << >>
  /\ fn' = NoFunction
  /\ todo' = {}
  /\ typeSymbols' = EmptyMap
  /\ functionSymbols' = EmptyMap
  /\ UNCHANGED <<sessionVars, list, ret, s_counter>>

(* Mutant: the handler forgets to release. *)
CatchWithoutRelease ==
  /\ pc = "catch"
  /\ outcome' = "nullopt"
  /\ pc' = "idle"
  /\ UNCHANGED <<pdb, com, held, calls, header, list, todo, functionVars, typeVars>>

Catch ==
  /\ pc = "catch"
  /\ Release
  /\ outcome' = "nullopt"
  /\ pc' = "idle"
  /\ UNCHANGED <<pdb, calls, header, list, todo, functionVars, typeVars>>

-----------------------------------------------------------------------------
CreateStep ==
  \/ CreateBaseTypeSymbol
  \/ CreateArrayTypeSymbol
  \/ CreatePointerTypeSymbol
  \/ CreateUnsupportedSymbol
  \/ CreateTypedefSymbol
  \/ FinishTypedefSymbol
  \/ CreateUDTSymbol
  \/ CreateEnumSymbol
  \/ CreateFieldSymbol
  \/ FinishFieldSymbol
  \/ EndMembers
  \/ SetAnonymousUnionData
  \/ EndUnions

FunctionStep ==
  \/ \E h \in DOMAIN pdb.functions : BeginFunction(h)
  \/ ReturnType
  \/ ThisArgument
  \/ Argument
  \/ EndFunction

BuildStep ==
  \/ BuildHeader
  \/ BeginList
  \/ \E o \in DOMAIN pdb.symbols : BuildTypeList(o)
  \/ CreateStep
  \/ FunctionStep
  \/ ReturnUsym
  \/ Catch

Next ==
  \/ \E p \in Pdbs, failing \in Failures : InitializeDia(p, failing)
  \/ BuildStep
  \/ Throw

(* Once called, CreateUsymFromFile runs on: it waits for no one. *)
Spec == Init /\ [][Next]_vars /\ WF_vars(BuildStep)

-----------------------------------------------------------------------------
(* Properties *)

SymbolNames ==
  Names
  \cup {GetBaseName(b, size) : b \in BasicTypes, size \in {0, 1, 2, 4, 8}}
  \cup {PointerName(n) : n \in 1..s_counter}

Frames ==
  [obj: DOMAIN pdb.symbols, step: {"create", "source", "members", "field", "unions"},
   symbol: TypeSymbols(SymbolNames), next: Nat \ {0}, unionId: Nat,
   wasLastUnion: BOOLEAN]

(* The type invariant: the maps hold symbols under ids of the PDB, pointer
   names come from counter values already drawn, and the frames, the current
   function and the running enumerator belong to the open PDB. *)
TypeOK ==
  /\ pdb = NoPdb \/ IsPdb(Names, pdb)
  /\ com \in Nat
  /\ held \subseteq ComPointers
  /\ s_counter \in Nat
  /\ calls \in 0..MaxCalls
  /\ pc \in {"idle", "header", "types", "functions", "catch"}
  /\ outcome \in {"none", "usym", "nullopt"}
  /\ header \in [originalFormat: {"kUnknown", "kPdb"},
                 architecture: {"kUnknown", "kX86", "kX86_64", "kArm32", "kArm64"}]
  /\ DOMAIN typeSymbols \subseteq DOMAIN pdb.symbols
  /\ typeSymbols \in [DOMAIN typeSymbols -> TypeSymbols(SymbolNames)]
  /\ DOMAIN functionSymbols \subseteq {pdb.functions[h].id : h \in DOMAIN pdb.functions}
  /\ functionSymbols \in [DOMAIN functionSymbols -> FunctionSymbols(Names)]
  /\ list \in 0..Len(TypeLists)
  /\ todo \subseteq DOMAIN pdb.symbols \cup DOMAIN pdb.functions
  /\ fn.step \in {"none", "return", "this", "arguments"}
  /\ fn.step # "none" => fn.handle \in DOMAIN pdb.functions
  /\ fn.next \in Nat /\ fn.position \in Nat
  /\ stack \in Seq(Frames)
  /\ ret \in BOOLEAN

Built == pc = "idle" /\ outcome = "usym"

(* A type symbol that can be looked up by the id of a reference: the map has
   an entry, or its tag could not be read and it was never entered. *)
Resolves(id) ==
  id = 0 \/ id \in DOMAIN typeSymbols \/ Sym(id).tag = "fail"

(* The test VerifyTypeIdsBeforePurge for any PDB: whatever could not be
   created and in whatever order symbols were listed, every field type,
   typedef source, return and argument type of a USYM that is handed out
   resolves; only a symbol without a readable tag can be missing. *)
ReferencesResolve ==
  Built =>
    /\ \A t \in DOMAIN typeSymbols :
         \A id \in TypeReferences(typeSymbols[t]) : Resolves(id)
    /\ \A f \in DOMAIN functionSymbols :
         \A id \in FunctionReferences(functionSymbols[f]) : Resolves(id)

-----------------------------------------------------------------------------
(* What a PDB describes, for comparison *)

IsFunctionType(o) == Sym(o).tag = "SymTagFunctionType"

(* Every getter CreateTypeSymbol depends on answers. *)
Creatable(o) ==
  LET s == Sym(o) IN
    /\ s.tag \notin {"fail", "SymTagOther", "SymTagFunctionType"}
    /\ s.hasId
    /\ s.tag \in {"SymTagBaseType", "SymTagUDT"} => s.kind # "fail"
    /\ s.tag = "SymTagTypedef" =>
         s.type # 0 /\ (IsFunctionType(s.type) \/ Sym(s.type).hasLength)
    /\ s.tag # "SymTagTypedef" => s.hasLength
    /\ \A i \in DOMAIN s.members : s.members[i].id # 0 /\ s.members[i].type # 0

(* The types the symbol of o refers to. *)
Successors(o) ==
  LET s == Sym(o) IN
    CASE s.tag = "SymTagTypedef" ->
           {t \in {s.type} \ {0} : ~IsFunctionType(t)}
      [] s.tag \in {"SymTagUDT", "SymTagEnum"} ->
           {s.members[i].type : i \in DOMAIN s.members} \ {0}
      [] OTHER -> {}

(* The argument list without the stubs in front. *)
KeptArguments(f) ==
  {i \in DOMAIN f.arguments : \E j \in 1..i : ~IsNoType(f.arguments[j])}

FunctionTypes(f) ==
  ({f.returnType} \cup
   (IF ~f.hasCount \/ f.count = 0 THEN {}
    ELSE {f.this} \cup {f.arguments[i] : i \in KeptArguments(f)})) \ {0}

Roots ==
  {o \in pdb.global : \E i \in DOMAIN TypeLists : TypeLists[i] = Sym(o).tag}
  \cup UNION {FunctionTypes(f) : f \in {g \in {pdb.functions[h] :
                                    h \in DOMAIN pdb.functions} : g.hasType}}

Reachable ==
  CHOOSE S \in SUBSET DOMAIN pdb.symbols :
    /\ Roots \subseteq S
    /\ \A o \in S : Successors(o) \subseteq S
    /\ \A T \in SUBSET S :
         (Roots \subseteq T /\ \A o \in T : Successors(o) \subseteq T) => T = S

(* All that can be reached can be created. *)
CleanPdb == \A o \in Reachable : Creatable(o)

(* Fields in a row that share an offset are the members of one anonymous
   union; the unions of a type are numbered from 0 in order. *)
StartsUnion(members, j) ==
  /\ j < Len(members)
  /\ members[j].offset = members[j + 1].offset
  /\ j > 1 => members[j - 1].offset # members[j].offset

InUnion(members, i) ==
  \E j \in DOMAIN members \ {i} :
    /\ j \in {i - 1, i + 1}
    /\ members[j].offset = members[i].offset

DescribedField(s, i) ==
  LET marked == /\ s.tag = "SymTagUDT" /\ s.kind # "UdtUnion"
                /\ InUnion(s.members, i)
  IN  [Field(s.members[i]) EXCEPT
         !.isAnonymousUnion = marked,
         !.unionId = IF marked
           THEN Cardinality({j \in 1..i : StartsUnion(s.members, j)}) - 1 ELSE 0]

DescribedType(o) ==
  LET s == Sym(o)
      kinds == [SymTagBaseType |-> "kBase", SymTagEnum |-> "kEnum",
                SymTagPointerType |-> "kPointer", SymTagTypedef |-> "kTypedef",
                SymTagArrayType |-> "kArray"]
      lengthOf == IF s.tag = "SymTagTypedef" THEN s.type ELSE o
  IN  [id |-> o,
       name |-> IF s.tag = "SymTagBaseType" THEN GetBaseName(s.kind, s.length) ELSE s.name,
       type |-> IF s.tag = "SymTagUDT" THEN UdtType[s.kind] ELSE kinds[s.tag],
       length |-> IF IsFunctionType(lengthOf) THEN 0 ELSE Sym(lengthOf).length,
       fieldCount |-> Len(s.members),
       fields |-> [i \in DOMAIN s.members |-> DescribedField(s, i)],
       typedefSource |-> IF s.tag # "SymTagTypedef" \/ IsFunctionType(s.type)
                         THEN 0 ELSE s.type]

(* For a PDB without unreadable symbols, the map handed out is the PDB's own
   description of exactly the types that can be reached: it does not depend
   on the order symbols were listed in, on which type led to which first, or
   on types being created twice (CreateTypeSymbol and all it calls).  The
   generated name of a pointer is left open. *)
TypesFaithful ==
  (Built /\ CleanPdb) =>
    /\ DOMAIN typeSymbols = Reachable
    /\ \A t \in DOMAIN typeSymbols :
         LET name == IF Sym(t).tag = "SymTagPointerType" THEN typeSymbols[t].name
                     ELSE DescribedType(t).name
         IN  typeSymbols[t] = [DescribedType(t) EXCEPT !.name = name]

(* The arguments of a function are its this pointer and its argument list
   without leading stubs, in order, in spite of types that are created in
   between; and where the SDK counts all of them, the count handed out with
   them exceeds them by the stubs that were left out (BuildFunctionList). *)
ArgumentsFaithful ==
  Built =>
    \A h \in DOMAIN pdb.functions :
      LET f == pdb.functions[h]
          ids == functionSymbols[f.id].argumentTypeIds
          this == IF f.this = 0 THEN 0 ELSE 1
          stubs == Len(f.arguments) - Cardinality(KeptArguments(f))
      IN  (f.hasType /\ f.hasCount /\ f.count > 0) =>
            /\ Len(ids) = this + Len(f.arguments) - stubs
            /\ this = 1 => ids[1] = Id(f.this)
            /\ \A i \in (this + 1)..Len(ids) :
                 ids[i] = Id(f.arguments[i - this + stubs])
            /\ f.count = this + Len(f.arguments) =>
                 functionSymbols[f.id].argumentCount = Len(ids) + stubs

(* The assertion in BuildFunctionList: a function that is finished has as
   many argument types as its count says. *)
ArgumentCountMatches ==
  (AtFunction("arguments") /\ fn.next > Len(Fun.arguments)) =>
    functionSymbols[Fun.id].argumentCount = Len(functionSymbols[Fun.id].argumentTypeIds)

(* The assertion in CreateMembersForSymbol, and what it is for: a symbol has
   as many fields as it counted, the field at a place is the member of that
   place or empty, and, outside of unions and enums, neighbours are marked as
   one anonymous union exactly if both are there and share an offset. *)
FieldsMatchMembers ==
  \A t \in DOMAIN typeSymbols :
    LET symbol == typeSymbols[t]
        fields == symbol.fields
        There(i) == i \in DOMAIN fields /\ fields[i].id # 0
        OneUnion(i, j) == /\ symbol.type \notin {"kUnion", "kEnum"}
                          /\ There(i) /\ There(j)
                          /\ fields[i].offset = fields[j].offset
    IN  symbol.id # 0 =>
          /\ symbol.fieldCount = Len(Sym(t).members)
          /\ Len(fields) = symbol.fieldCount
          /\ \A i \in DOMAIN fields :
               /\ fields[i].id \in {0, Sym(t).members[i].id}
               /\ fields[i].isAnonymousUnion = (OneUnion(i, i - 1) \/ OneUnion(i, i + 1))
               /\ OneUnion(i, i + 1) => fields[i].unionId = fields[i + 1].unionId

(* No two pointer types of a USYM share a generated name, although a pointer
   can be created more than once and a creation that fails draws a name too:
   purging can never merge two of them (GeneratePointerName). *)
PointerNamesDistinct ==
  \A s, t \in DOMAIN typeSymbols :
    (/\ s # t
     /\ typeSymbols[s].type = "kPointer"
     /\ typeSymbols[t].type = "kPointer") => typeSymbols[s].name # typeSymbols[t].name

(* A type in progress is entered again only by a typedef, which never asks
   whether the type is known; fields always do.  With typedef chains that
   end, this is what bounds the recursion. *)
ReentryThroughTypedef ==
  \A i, j \in DOMAIN stack :
    (i < j /\ stack[i].obj = stack[j].obj) => stack[j - 1].step = "source"

(* Between calls COM is balanced and no static pointer is left over for the
   next call, whichever step of a call failed or threw. *)
SessionReleased == pc = "idle" => com = 0 /\ held = {}

(* Every call of CreateUsymFromFile returns: recursive types end. *)
ConversionReturns == (pc # "idle") ~> (pc = "idle")

(* What the tests expect of a field: the entry its type id leads to is the
   type with that id (DiaInterfaceTest). *)
FieldTypesCarryTheirId ==
  Built =>
    \A t \in DOMAIN typeSymbols : \A i \in DOMAIN typeSymbols[t].fields :
      LET id == typeSymbols[t].fields[i].underlyingTypeId
      IN  id # 0 => typeSymbols[id].id = id
=============================================================================
