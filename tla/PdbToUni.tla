------------------------------ MODULE PdbToUni ------------------------------
(***************************************************************************)
(* The program PdbToUni (PdbToUni/main.cpp): the PDB processor builds a    *)
(* USYM, which is then serialized to json.  DiaInterface and USYM share    *)
(* the two maps of symbols; whatever one of them does the other one's own  *)
(* state is left alone.                                                    *)
(***************************************************************************)
EXTENDS UsymFormat

CONSTANTS
  Names,        \* names of PDB symbols
  Pdbs,         \* the PDBs the program can be given
  TypeIds,      \* ids of the types in them
  FunctionIds   \* ids of the functions in them

VARIABLES
  main,      \* where main is
  exit,      \* how the program ended: "0", "1" or "aborted"
  typeSymbols, functionSymbols,                  \* the USYM
  pdb, com, held, s_counter, diaCalls, diaPc, outcome, header, list, todo,
  fn, stack, ret,                                \* DiaInterface
  serializer, usymPc, caller, oldToNew, hashesToIds, pending, orig, purity,
  buffer, file, result, usymCalls                \* USYM

diaVars == <<pdb, com, held, s_counter, diaCalls, diaPc, outcome, header, list,
             todo, fn, stack, ret>>
usymVars == <<serializer, usymPc, caller, oldToNew, hashesToIds, pending, orig,
              purity, buffer, file, result, usymCalls>>
vars == <<main, exit, typeSymbols, functionSymbols, diaVars, usymVars>>

Dia == INSTANCE DiaInterface WITH pc <- diaPc, calls <- diaCalls, MaxCalls <- 1

Usym == INSTANCE USYM WITH
  pc <- usymPc, calls <- usymCalls, MaxCalls <- 1,
  Contents <- {[types |-> EmptyMap, functions |-> EmptyMap]}

(* What a PDB can hold, and the ids that occur in one. *)
ASSUME InputsAssumption ==
  Dia!NoName \in Names /\ \A p \in Pdbs : Dia!IsPdb(Names, p)
ASSUME IdsAssumption ==
  /\ TypeIds \subseteq Nat \ {0}
  /\ \A p \in Pdbs :
       /\ DOMAIN p.symbols \subseteq TypeIds
       /\ \A h \in DOMAIN p.functions : p.functions[h].id \in FunctionIds

-----------------------------------------------------------------------------
Init ==
  /\ main = "start"
  /\ exit = "none"
  /\ Dia!Init
  /\ Usym!Init

Exit(code) ==
  /\ main' = "ended"
  /\ exit' = code
  /\ UNCHANGED <<typeSymbols, functionSymbols, diaVars, usymVars>>

(* Not exactly one argument. *)
Usage == main = "start" /\ Exit("1")

CreateUsymFromFile(p, failing) ==
  /\ main = "start"
  /\ main' = "dia"
  /\ Dia!InitializeDia(p, failing)
  /\ UNCHANGED <<exit, usymVars>>

RunDia ==
  /\ main = "dia"
  /\ Dia!BuildStep \/ Dia!Throw
  /\ UNCHANGED <<main, exit, usymVars>>

NoSymbols == main = "dia" /\ diaPc = "idle" /\ outcome = "nullopt" /\ Exit("1")

SetSerializer ==
  /\ main = "dia" /\ diaPc = "idle" /\ outcome = "usym"
  /\ main' = "usym"
  /\ Usym!SetSerializer("kJson")
  /\ UNCHANGED <<exit, diaVars>>

Serialize ==
  /\ main = "usym"
  /\ main' = "serialize"
  /\ Usym!CallSerialize
  /\ UNCHANGED <<exit, diaVars>>

RunUsym ==
  /\ main = "serialize"
  /\ Usym!CallStep
  /\ UNCHANGED <<main, exit, diaVars>>

(* The result of Serialize is not looked at; nothing catches an exception. *)
Return ==
  /\ main = "serialize" /\ usymPc = "idle"
  /\ Exit(IF result = "exception" THEN "aborted" ELSE "0")

Next ==
  \/ Usage
  \/ \E p \in Pdbs, failing \in Dia!Failures : CreateUsymFromFile(p, failing)
  \/ RunDia
  \/ NoSymbols
  \/ SetSerializer
  \/ Serialize
  \/ RunUsym
  \/ Return

Spec == Init /\ [][Next]_vars

-----------------------------------------------------------------------------
(* The json file on disk, if Serialize wrote one. *)
Json == file["kJson"]
Image == Json.images[1]
Written == Json.state = "complete"

(* Whatever could not be read of the PDB, and whatever the purge merged, all
   references in a complete file lead to types in it; only a type whose tag
   the SDK could not read may be missing (DiaInterface leaves no reference
   dangling and PurgeDuplicateTypes breaks none). *)
FileResolves ==
  Written =>
    LET Resolves(id) == \/ id \in DOMAIN Image.types \cup {0}
                        \/ pdb.symbols[id].tag = "fail"
    IN  /\ \A t \in DOMAIN Image.types :
             \A id \in TypeReferences(Image.types[t]) : Resolves(id)
        /\ \A f \in DOMAIN Image.functions :
             \A id \in FunctionReferences(Image.functions[f]) : Resolves(id)

IsPointer(o) == pdb.symbols[o].tag = "SymTagPointerType"

(* The PDB itself has a type in the file of the name that GeneratePointerName
   made up for the pointer o: nothing keeps a PDB from having a type "pUnk1",
   and PurgeDuplicateTypes cannot tell it from the pointer if they are of one
   length. *)
TypeOfMadeUpName(id, o) ==
  /\ id \in DOMAIN Image.types /\ ~IsPointer(id)
  /\ pdb.symbols[id].name = orig.types[o].name

(* No pointer type of the PDB is lost to another pointer, although pointers
   have no names of their own and one that is created twice is named twice:
   each is in the file, unless the PDB has a type of the very name made up for
   it; and nothing else became a pointer. *)
PointersSurvive ==
  (Written /\ Dia!CleanPdb) =>
    /\ \A o \in Dia!Reachable :
         IsPointer(o) => \/ o \in DOMAIN Image.types
                         \/ \E t \in DOMAIN Image.types : TypeOfMadeUpName(t, o)
    /\ \A t \in DOMAIN Image.types : Image.types[t].type = "kPointer" <=> IsPointer(t)

(* Following a reference in the file leads to a type of the name the PDB has
   for it, and to the very pointer or the type it was taken for by its made-up
   name: creation, the purge's rewriting in any order and the choice of which
   duplicate to keep do not turn a field, a typedef or a return type to a type
   of another name. *)
ReferencesKeepTheirNames ==
  (Written /\ Dia!CleanPdb) =>
    LET Leads(id, o) ==
          IF o = 0 THEN id = 0
          ELSE /\ id \in DOMAIN Image.types
               /\ IF IsPointer(o) THEN id = o \/ TypeOfMadeUpName(id, o)
                  ELSE Image.types[id].name = Dia!DescribedType(o).name
    IN  /\ \A t \in DOMAIN Image.types :
             LET described == Dia!DescribedType(t)
             IN  /\ Leads(Image.types[t].typedefSource, described.typedefSource)
                 /\ \A i \in DOMAIN described.fields :
                      Leads(Image.types[t].fields[i].underlyingTypeId,
                            described.fields[i].underlyingTypeId)
        /\ \A h \in {g \in DOMAIN pdb.functions : pdb.functions[g].hasType} :
             Leads(Image.functions[pdb.functions[h].id].returnTypeId,
                   pdb.functions[h].returnType)
=============================================================================
