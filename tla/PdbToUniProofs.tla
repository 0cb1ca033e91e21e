--------------------------- MODULE PdbToUniProofs ---------------------------
(***************************************************************************)
(* Proofs about the whole program: the file PdbToUni writes resolves, for  *)
(* every PDB and whatever fails on the way, and if all of the PDB can be   *)
(* read it has all its pointers and no reference leads to a type of        *)
(* another name.  The invariants of the PDB processor and of the USYM are  *)
(* put together where main hands the symbols from the one to the other.    *)
(***************************************************************************)
EXTENDS PdbToUni, TLAPS

(* All names a symbol of the USYM can have: those of the PDB, those of the
   base types, and those GeneratePointerName makes up. *)
AllNames ==
  Names
  \cup {Dia!GetBaseName(b, size) : b \in Dia!BasicTypes, size \in {0, 1, 2, 4, 8}}
  \cup {Dia!PointerName(n) : n \in Nat}

DiaP == INSTANCE DiaContentsProofs WITH pc <- diaPc, calls <- diaCalls, MaxCalls <- 1

UsymP == INSTANCE USYMProofs WITH
  pc <- usymPc, calls <- usymCalls, MaxCalls <- 1, Names <- AllNames,
  Contents <- {[types |-> EmptyMap, functions |-> EmptyMap]}

-----------------------------------------------------------------------------
(* The steps of the program are those the component proofs are about *)

(* A step of the build is one of DiaContentsProofs. *)
LEMMA SameBuildStep ==
  /\ Dia!BuildStep <=> DiaP!BuildStep
  /\ Dia!Throw <=> DiaP!Throw
  BY DEF Dia!BuildStep, Dia!Throw, Dia!BuildHeader, Dia!BeginList, Dia!BuildTypeList,
      Dia!CreateStep, Dia!FunctionStep, Dia!ReturnUsym, Dia!Catch, Dia!NoFunction,
      Dia!EmptyMap, Dia!sessionVars, Dia!Architecture, Dia!functionVars,
      Dia!typeVars, Dia!TypeLists, Dia!Sym, Dia!CreateTypeSymbol,
      Dia!CreateBaseTypeSymbol, Dia!CreateArrayTypeSymbol,
      Dia!CreatePointerTypeSymbol, Dia!CreateUnsupportedSymbol,
      Dia!CreateTypedefSymbol, Dia!FinishTypedefSymbol, Dia!CreateUDTSymbol,
      Dia!CreateEnumSymbol, Dia!CreateFieldSymbol, Dia!FinishFieldSymbol,
      Dia!EndMembers, Dia!SetAnonymousUnionData, Dia!EndUnions, Dia!BeginFunction,
      Dia!ReturnType, Dia!ThisArgument, Dia!Argument, Dia!EndFunction, Dia!Release,
      Dia!Put, Dia!EmptyType, Dia!NoName, Dia!Frame, Dia!Creating, Dia!Top,
      Dia!Return, Dia!Described, Dia!GetBaseName, Dia!ReturnFalse, Dia!TypeStep,
      Dia!PointerName, Dia!Below, Dia!BeginMembers, Dia!UdtType, Dia!AtMember,
      Dia!MemberReadable, Dia!Member, Dia!PushField, Dia!EmptyField, Dia!Field,
      Dia!Continue, Dia!AtUnion, Dia!MarkUnion, Dia!EmptyFunction, Dia!AtFunction,
      Dia!Fun, Dia!EnsureType, Dia!Id, Dia!IsNoType, Dia!Convention, Dia!listVars,
      DiaP!BuildStep, DiaP!Throw, DiaP!BuildHeader, DiaP!BeginList,
      DiaP!BuildTypeList, DiaP!CreateStep, DiaP!FunctionStep, DiaP!ReturnUsym,
      DiaP!Catch, DiaP!NoFunction, DiaP!EmptyMap, DiaP!sessionVars,
      DiaP!Architecture, DiaP!functionVars, DiaP!typeVars, DiaP!TypeLists, DiaP!Sym,
      DiaP!CreateTypeSymbol, DiaP!CreateBaseTypeSymbol, DiaP!CreateArrayTypeSymbol,
      DiaP!CreatePointerTypeSymbol, DiaP!CreateUnsupportedSymbol,
      DiaP!CreateTypedefSymbol, DiaP!FinishTypedefSymbol, DiaP!CreateUDTSymbol,
      DiaP!CreateEnumSymbol, DiaP!CreateFieldSymbol, DiaP!FinishFieldSymbol,
      DiaP!EndMembers, DiaP!SetAnonymousUnionData, DiaP!EndUnions,
      DiaP!BeginFunction, DiaP!ReturnType, DiaP!ThisArgument, DiaP!Argument,
      DiaP!EndFunction, DiaP!Release, DiaP!Put, DiaP!EmptyType, DiaP!NoName,
      DiaP!Frame, DiaP!Creating, DiaP!Top, DiaP!Return, DiaP!Described,
      DiaP!GetBaseName, DiaP!ReturnFalse, DiaP!TypeStep, DiaP!PointerName,
      DiaP!Below, DiaP!BeginMembers, DiaP!UdtType, DiaP!AtMember,
      DiaP!MemberReadable, DiaP!Member, DiaP!PushField, DiaP!EmptyField, DiaP!Field,
      DiaP!Continue, DiaP!AtUnion, DiaP!MarkUnion, DiaP!EmptyFunction,
      DiaP!AtFunction, DiaP!Fun, DiaP!EnsureType, DiaP!Id, DiaP!IsNoType,
      DiaP!Convention, DiaP!listVars

(* So is a call of CreateUsymFromFile, and so are its initial states. *)
LEMMA SameInitializeDia ==
  /\ \A p, failing : Dia!InitializeDia(p, failing) <=> DiaP!InitializeDia(p, failing)
  /\ Dia!Failures = DiaP!Failures
  /\ Dia!Init <=> DiaP!Init
  BY DEF Dia!InitializeDia, Dia!Failures, Dia!Init, Dia!Acquired, Dia!NewHeader,
      Dia!EmptyMap, Dia!NoPdb, Dia!NoFunction, Dia!ComPointers, DiaP!InitializeDia,
      DiaP!Failures, DiaP!Init, DiaP!Acquired, DiaP!NewHeader, DiaP!EmptyMap,
      DiaP!NoPdb, DiaP!NoFunction, DiaP!ComPointers

(* The calls of main on the USYM are those of USYMProofs. *)
LEMMA SameUsymCalls ==
  /\ Usym!CallSerialize <=> UsymP!CallSerialize
  /\ \A type : Usym!SetSerializer(type) <=> UsymP!SetSerializer(type)
  BY DEF Usym!CallSerialize, Usym!SetSerializer, Usym!EnterPurge, Usym!symbolVars,
      Usym!purgeVars, Usym!EmptyMap, Usym!CurrentImage, Usym!outputVars,
      UsymP!CallSerialize, UsymP!SetSerializer, UsymP!EnterPurge, UsymP!symbolVars,
      UsymP!purgeVars, UsymP!EmptyMap, UsymP!CurrentImage, UsymP!outputVars

(* Both speak of one hash. *)
LEMMA SameHash == \A s : Usym!Hash(s) = UsymP!Hash(s)
<1>1. \A s : Usym!HashInputs(s) = UsymP!HashInputs(s)
  BY Zenon DEF Usym!HashInputs, UsymP!HashInputs
<1>2. \A S : Usym!Cardinality(S) = UsymP!Cardinality(S)
  BY Zenon DEF Usym!Cardinality, UsymP!Cardinality
<1>. QED
  BY <1>1, <1>2 DEF Usym!Hash, UsymP!Hash

(* So are the steps of the purge and of Serialize. *)
LEMMA SameCallStep == Usym!CallStep <=> UsymP!CallStep
<1>1. ASSUME NEW id PROVE Usym!HashType(id) <=> UsymP!HashType(id)
  <2>1. Usym!Hash(typeSymbols[id]) = UsymP!Hash(typeSymbols[id])
    BY SameHash
  <2>. QED
    BY <2>1 DEF Usym!HashType, UsymP!HashType, Usym!Put, UsymP!Put, Usym!symbolVars,
                UsymP!symbolVars, Usym!outputVars, UsymP!outputVars
<1>2. /\ Usym!RewriteTypes <=> UsymP!RewriteTypes
      /\ Usym!RewriteFunctions <=> UsymP!RewriteFunctions
      /\ Usym!EraseDuplicates <=> UsymP!EraseDuplicates
  BY Zenon DEF Usym!RewriteTypes, Usym!RewriteFunctions, Usym!EraseDuplicates,
      Usym!RedirectType, Usym!purgeVars, Usym!outputVars, Usym!RedirectFunction,
      Usym!AfterPurge, Usym!Redirect, UsymP!RewriteTypes, UsymP!RewriteFunctions,
      UsymP!EraseDuplicates, UsymP!RedirectType, UsymP!purgeVars, UsymP!outputVars,
      UsymP!RedirectFunction, UsymP!AfterPurge, UsymP!Redirect
<1>3. Usym!VerifyBeforeWriting <=> UsymP!VerifyBeforeWriting
  BY Zenon DEF Usym!VerifyBeforeWriting, Usym!VerifyTypeIds, Usym!symbolVars, Usym!purgeVars,
      Usym!FunctionReferences, Usym!TypeReferences, UsymP!VerifyBeforeWriting,
      UsymP!VerifyTypeIds, UsymP!symbolVars, UsymP!purgeVars,
      UsymP!FunctionReferences, UsymP!TypeReferences
<1>4. ASSUME NEW end PROVE Usym!SerializeToFile(end) <=> UsymP!SerializeToFile(end)
  BY Zenon DEF Usym!SerializeToFile, Usym!Extend, Usym!symbolVars, Usym!purgeVars,
      Usym!CurrentImage, Usym!Remains, UsymP!SerializeToFile, UsymP!Extend,
      UsymP!symbolVars, UsymP!purgeVars, UsymP!CurrentImage, UsymP!Remains
<1>. QED
  BY <1>1, <1>2, <1>3, <1>4 DEF Usym!CallStep, UsymP!CallStep, Usym!Outcomes, UsymP!Outcomes

(* And so is what a PDB describes. *)
LEMMA SameDescription ==
  /\ Dia!CleanPdb <=> DiaP!CleanPdb
  /\ Dia!Reachable = DiaP!Reachable
  /\ \A o : Dia!DescribedType(o) = DiaP!DescribedType(o)
<1>1. /\ \A o : Dia!Sym(o) = DiaP!Sym(o)
      /\ \A o : Dia!IsFunctionType(o) <=> DiaP!IsFunctionType(o)
      /\ \A o : Dia!IsNoType(o) <=> DiaP!IsNoType(o)
      /\ Dia!TypeLists = DiaP!TypeLists
  BY Zenon DEF Dia!Sym, DiaP!Sym, Dia!IsFunctionType, DiaP!IsFunctionType, Dia!IsNoType,
               DiaP!IsNoType, Dia!TypeLists, DiaP!TypeLists
<1>2. \A o : Dia!Successors(o) = DiaP!Successors(o)
  BY Zenon DEF Dia!Successors, DiaP!Successors, Dia!Sym, DiaP!Sym, Dia!IsFunctionType,
               DiaP!IsFunctionType
<1>3. \A f : Dia!FunctionTypes(f) = DiaP!FunctionTypes(f)
  BY Zenon DEF Dia!FunctionTypes, DiaP!FunctionTypes, Dia!KeptArguments,
               DiaP!KeptArguments, Dia!IsNoType, DiaP!IsNoType, Dia!Sym, DiaP!Sym
<1>4. Dia!Reachable = DiaP!Reachable
  BY Zenon DEF Dia!Reachable, DiaP!Reachable, Dia!Roots, DiaP!Roots, Dia!Successors,
     DiaP!Successors, Dia!Sym, DiaP!Sym, Dia!IsFunctionType, DiaP!IsFunctionType,
     Dia!FunctionTypes, DiaP!FunctionTypes, Dia!KeptArguments, DiaP!KeptArguments,
     Dia!IsNoType, DiaP!IsNoType, Dia!TypeLists, DiaP!TypeLists
<1>5. \A o : Dia!Creatable(o) <=> DiaP!Creatable(o)
  BY Zenon DEF Dia!Creatable, DiaP!Creatable, Dia!Sym, DiaP!Sym, Dia!IsFunctionType,
               DiaP!IsFunctionType
<1>6. \A o : Dia!DescribedType(o) = DiaP!DescribedType(o)
  BY Zenon DEF Dia!DescribedType, DiaP!DescribedType, Dia!Sym, DiaP!Sym,
     Dia!IsFunctionType, DiaP!IsFunctionType, Dia!DescribedField, DiaP!DescribedField,
     Dia!Field, DiaP!Field, Dia!InUnion, DiaP!InUnion, Dia!StartsUnion,
     DiaP!StartsUnion, Dia!UdtType, DiaP!UdtType, Dia!GetBaseName, DiaP!GetBaseName,
     Dia!Cardinality, DiaP!Cardinality
<1>. QED
  BY <1>4, <1>5, <1>6 DEF Dia!CleanPdb, DiaP!CleanPdb

-----------------------------------------------------------------------------
(* The assumptions of the component proofs hold *)

(* The PDBs the program is given are what DiaInterface assumes. *)
LEMMA DiaInputs ==
  /\ DiaP!NoName \in Names
  /\ \A p \in Pdbs : DiaP!IsPdb(Names, p)
  /\ 1 \in Nat
<1>1. DiaP!NoName = Dia!NoName
  BY DEF DiaP!NoName, Dia!NoName
<1>2. \A p : DiaP!IsPdb(Names, p) <=> Dia!IsPdb(Names, p)
  BY Zenon DEF Dia!IsPdb, Dia!DiaTypes, Dia!AnswersItsTag, Dia!TypedefsEnd, Dia!DiaFunctions,
      Dia!MachineTypes, Dia!SymTags, Dia!BasicTypes, Dia!UdtKinds, Dia!DiaMembers,
      Dia!CallConventions, DiaP!IsPdb, DiaP!DiaTypes, DiaP!AnswersItsTag,
      DiaP!TypedefsEnd, DiaP!DiaFunctions, DiaP!MachineTypes, DiaP!SymTags,
      DiaP!BasicTypes, DiaP!UdtKinds, DiaP!DiaMembers, DiaP!CallConventions
<1>. QED
  BY <1>1, <1>2, InputsAssumption

(* The invariants of the processor. *)
DiaInv == DiaP!TypeInv /\ DiaP!MapInv /\ DiaP!ArgumentInv /\ DiaP!FaithfulInv

(* A step of the processor keeps what its proofs say of it. *)
LEMMA DiaStep ==
  ASSUME DiaInv, [DiaP!Next]_DiaP!vars
  PROVE  DiaInv'
<1>1. DiaP!TypeInv'
  BY DiaInputs, DiaP!NextTypeInv DEF DiaInv
<1>2. DiaP!MapInv'
  BY <1>1, DiaInputs, DiaP!NextMap DEF DiaInv
<1>3. DiaP!ArgumentInv' /\ DiaP!FaithfulInv'
  BY DiaInputs, DiaP!NextArguments, DiaP!NextFaithful DEF DiaInv
<1>. QED
  BY <1>1, <1>2, <1>3 DEF DiaInv

(* An empty USYM is one a processor can hand over. *)
LEMMA UsymInputs ==
  /\ TypeIds \subseteq Nat \ {0}
  /\ 1 \in Nat
  /\ \A c \in {[types |-> EmptyMap, functions |-> EmptyMap]} :
       UsymP!IsTypeMap(c.types) /\ UsymP!IsFunctionMap(c.functions)
  BY IdsAssumption DEF UsymP!IsTypeMap, UsymP!IsFunctionMap, EmptyMap

(* A step of PurgeDuplicateTypes or Serialize keeps what USYMProofs says of
   it. *)
LEMMA UsymStep ==
  ASSUME UsymP!PurgeInv, UsymP!OutputInv, [UsymP!CallStep]_UsymP!vars
  PROVE  UsymP!PurgeInv' /\ UsymP!OutputInv'
<1>1. UsymP!TypeOK /\ [UsymP!Next]_UsymP!vars
  BY DEF UsymP!PurgeInv, UsymP!Next
<1>2. UsymP!TypeOK'
  BY <1>1, UsymInputs, UsymP!NextTypeOK
<1>. QED
  BY <1>1, <1>2, UsymInputs, UsymP!NextPurgeInv, UsymP!NextOutputInv

-----------------------------------------------------------------------------
(* The invariant of the program *)

(* Nothing was serialized yet. *)
Fresh ==
  /\ usymPc = "idle" /\ usymCalls = 0 /\ purity = TRUE /\ buffer = << >>
  /\ file = [s \in UsymP!SerializerTypes |-> [state |-> "absent", images |-> << >>]]

(* What the purge was given resolves, but for types without a readable tag. *)
Known(id) == id \in DOMAIN orig.types \cup {0} \/ pdb.symbols[id].tag = "fail"

OrigResolves ==
  /\ \A t \in DOMAIN orig.types : \A id \in TypeReferences(orig.types[t]) : Known(id)
  /\ \A f \in DOMAIN orig.functions :
       \A id \in FunctionReferences(orig.functions[f]) : Known(id)

(* What the purge was given is a description of the PDB, if all of that can
   be read. *)
OrigDescribed ==
  DiaP!CleanPdb => DiaP!IsDescription(orig.types, orig.functions)

(* What is proved of the file. *)
FileInv == FileResolves /\ PointersSurvive /\ ReferencesKeepTheirNames

(* The processor owns the symbols until it hands them over complete; from
   then on the purge and the serializer do, which started from symbols that
   resolve and describe the PDB. *)
ProgramInv ==
  /\ FileInv
  /\ main \in {"start", "dia", "usym"} => Fresh /\ DiaInv
  /\ main \in {"dia", "usym", "serialize"} => pdb \in Pdbs
  /\ main = "usym" => DiaP!Built /\ serializer = "kJson"
  /\ main = "serialize" =>
       /\ UsymP!PurgeInv /\ UsymP!OutputInv
       /\ caller = "Serialize" /\ serializer = "kJson"
       /\ OrigResolves /\ OrigDescribed

(* A program that has written nothing has written nothing wrong. *)
LEMMA FreshFile == Fresh => ~Written /\ FileInv
<1>1. Fresh => ~Written
  BY DEF Fresh, Written, Json, UsymP!SerializerTypes
<1>. QED
  BY <1>1 DEF FileInv, FileResolves, PointersSurvive, ReferencesKeepTheirNames

(* What a PDB describes only depends on the PDB. *)
LEMMA SamePdb ==
  ASSUME pdb' = pdb
  PROVE  /\ DiaP!CleanPdb' <=> DiaP!CleanPdb
         /\ Dia!CleanPdb' <=> Dia!CleanPdb
         /\ Dia!Reachable' = Dia!Reachable
         /\ \A o : Dia!DescribedType(o)' = Dia!DescribedType(o)
<1>1. DiaP!CleanPdb' = DiaP!CleanPdb
  BY DiaInputs, DiaP!ReachableOfThePdb
<1>2. /\ \A o : Dia!Successors(o)' = Dia!Successors(o)
      /\ \A f : Dia!FunctionTypes(f)' = Dia!FunctionTypes(f)
  BY DEF Dia!Successors, Dia!FunctionTypes, Dia!KeptArguments, Dia!IsNoType,
         Dia!IsFunctionType, Dia!Sym
<1>3. Dia!Roots' = Dia!Roots
  BY <1>2 DEF Dia!Roots, Dia!Sym
<1>4. Dia!Reachable' = Dia!Reachable
  BY <1>2, <1>3 DEF Dia!Reachable
<1>5. \A o : Dia!Creatable(o)' = Dia!Creatable(o)
  BY DEF Dia!Creatable, Dia!IsFunctionType, Dia!Sym
<1>6. Dia!CleanPdb' = Dia!CleanPdb
  BY <1>4, <1>5 DEF Dia!CleanPdb
<1>7. \A o : Dia!DescribedType(o)' = Dia!DescribedType(o)
  BY DEF Dia!DescribedType, Dia!DescribedField, Dia!IsFunctionType, Dia!Sym
<1>. QED
  BY <1>1, <1>4, <1>6, <1>7

(* So does what it takes to be a description of it. *)
LEMMA StillDescribed ==
  ASSUME pdb' = pdb, DiaP!IsDescription(orig'.types, orig'.functions)
  PROVE  DiaP!IsDescription(orig.types, orig.functions)'
<1>1. /\ DiaP!Reachable' = DiaP!Reachable
      /\ \A o : DiaP!DescribedType(o)' = DiaP!DescribedType(o)
  BY DiaInputs, DiaP!ReachableOfThePdb
<1>. QED
  BY <1>1 DEF DiaP!IsDescription, DiaP!Sym

(* The program starts with an empty USYM and no file. *)
LEMMA InitProgram == Init => ProgramInv
<1>. SUFFICES ASSUME Init PROVE ProgramInv
  OBVIOUS
<1>1. DiaInv
  <2>1. DiaP!Init
    BY SameInitializeDia DEF Init
  <2>. QED
    BY <2>1, DiaInputs, DiaP!InitTypeInv, DiaP!InitMap, DiaP!InitContents DEF DiaInv
<1>2. Fresh
  BY DEF Init, Usym!Init, Usym!SerializerTypes, Fresh, UsymP!SerializerTypes
<1>. QED
  BY <1>1, <1>2, FreshFile DEF Init, ProgramInv

(* What the processor hands over is well typed for the purge. *)
LEMMA HandedTyped ==
  ASSUME DiaP!TypeInv, pdb \in Pdbs
  PROVE  UsymP!IsTypeMap(typeSymbols) /\ UsymP!IsFunctionMap(functionSymbols)
<1>1. DOMAIN typeSymbols \subseteq TypeIds
  BY IdsAssumption DEF DiaP!TypeInv, DiaP!StackInv
<1>2. DOMAIN functionSymbols \subseteq FunctionIds
  BY IdsAssumption DEF DiaP!TypeInv, DiaP!ListInv, DiaP!FunctionKeys
<1>3. DiaP!SymbolNames \subseteq AllNames
  <2>1. s_counter \in Nat
    BY DEF DiaP!TypeInv, DiaP!StackInv
  <2>2. \A b, size : DiaP!GetBaseName(b, size) = Dia!GetBaseName(b, size)
    BY Zenon DEF DiaP!GetBaseName, Dia!GetBaseName
  <2>3. DiaP!BasicTypes = Dia!BasicTypes
    BY Zenon DEF DiaP!BasicTypes, Dia!BasicTypes
  <2>4. \A n : DiaP!PointerName(n) = Dia!PointerName(n)
    BY Zenon DEF DiaP!PointerName, Dia!PointerName
  <2>. QED
    BY <2>1, <2>2, <2>3, <2>4 DEF DiaP!SymbolNames, AllNames
<1>4. DiaP!TypeSymbols(DiaP!SymbolNames) \subseteq UsymP!TypeSymbols(AllNames)
  <2>1. DiaP!TypeSymbols(DiaP!SymbolNames) \subseteq DiaP!TypeSymbols(AllNames)
    BY <1>3, DiaInputs, DiaP!SymbolsGrow
  <2>2. DiaP!TypeSymbols(AllNames) = UsymP!TypeSymbols(AllNames)
    BY Zenon DEF DiaP!TypeSymbols, UsymP!TypeSymbols, DiaP!FieldSymbols,
                 UsymP!FieldSymbols, DiaP!TypeKinds, UsymP!TypeKinds
  <2>. QED
    BY <2>1, <2>2
<1>5. DiaP!FunctionSymbols(Names) \subseteq UsymP!FunctionSymbols(AllNames)
  BY DEF DiaP!FunctionSymbols, UsymP!FunctionSymbols, AllNames,
         DiaP!CallingConventions, UsymP!CallingConventions
<1>6. typeSymbols \in [DOMAIN typeSymbols -> UsymP!TypeSymbols(AllNames)]
  BY <1>4 DEF DiaP!TypeInv, DiaP!StackInv
<1>7. functionSymbols \in [DOMAIN functionSymbols -> UsymP!FunctionSymbols(AllNames)]
  BY <1>5 DEF DiaP!TypeInv, DiaP!ListInv
<1>. QED
  BY <1>1, <1>2, <1>6, <1>7 DEF UsymP!IsTypeMap, UsymP!IsFunctionMap

(* Serialize is called: the purge begins with the symbols of the PDB. *)
LEMMA SerializeBegins ==
  ASSUME ProgramInv, Serialize
  PROVE  ProgramInv'
<1>1. /\ main = "usym" /\ main' = "serialize" /\ UsymP!CallSerialize
      /\ pdb' = pdb
  BY SameUsymCalls DEF Serialize, diaVars
<1>2. /\ Fresh /\ DiaP!TypeInv /\ DiaP!MapInv /\ DiaP!FaithfulInv /\ pdb \in Pdbs
      /\ DiaP!Built /\ serializer = "kJson"
  BY <1>1 DEF ProgramInv, DiaInv
<1>3. /\ UsymP!EnterPurge("Serialize") /\ usymCalls' = 1
      /\ typeSymbols' = typeSymbols /\ functionSymbols' = functionSymbols
      /\ serializer' = serializer /\ purity' = purity /\ buffer' = buffer
      /\ file' = file /\ caller' = "Serialize" /\ usymPc' = "hash"
      /\ oldToNew' = EmptyMap /\ hashesToIds' = EmptyMap
      /\ pending' = DOMAIN typeSymbols
      /\ orig'.types = typeSymbols /\ orig'.functions = functionSymbols
  BY <1>1, <1>2 DEF UsymP!CallSerialize, UsymP!EnterPurge, UsymP!symbolVars,
                    UsymP!outputVars, UsymP!CurrentImage, UsymP!EmptyMap, EmptyMap, Fresh
<1>4. UsymP!TypeOK'
  <2>1. UsymP!IsTypeMap(typeSymbols) /\ UsymP!IsFunctionMap(functionSymbols)
    BY <1>2, HandedTyped
  <2>2. /\ UsymP!IsTypeMap(typeSymbols') /\ UsymP!IsFunctionMap(functionSymbols')
        /\ UsymP!IsTypeMap(orig'.types) /\ UsymP!IsFunctionMap(orig'.functions)
    BY <1>3, <2>1
  <2>3. pending' \subseteq TypeIds
    BY <1>3, <2>1 DEF UsymP!IsTypeMap
  <2>4. /\ DOMAIN oldToNew' \subseteq TypeIds
        /\ oldToNew' \in [DOMAIN oldToNew' -> TypeIds]
        /\ hashesToIds' \in [DOMAIN hashesToIds' -> TypeIds]
    BY <1>3 DEF EmptyMap
  <2>. QED
    BY <1>2, <1>3, <2>2, <2>3, <2>4
    DEF UsymP!TypeOK, UsymP!SerializerTypes, UsymP!PurgeSteps, Fresh, UsymP!IsTypeMap,
        UsymP!IsFunctionMap
<1>5. UsymP!PurgeInv'
  BY <1>3, <1>4, UsymInputs, UsymP!EnterPurgeInv
<1>6. UsymP!OutputInv'
  <2>1. << >> \in Seq(UsymP!Images)
    OBVIOUS
  <2>. QED
    BY <1>2, <1>3, <2>1 DEF UsymP!OutputInv, Fresh
<1>7. OrigResolves'
  <2>1. \A id : DiaP!Resolves(id) <=> (Known(id))'
    BY <1>1, <1>3 DEF DiaP!Resolves, DiaP!Sym, Known
  <2>2. /\ \A t \in DOMAIN typeSymbols :
             \A id \in TypeReferences(typeSymbols[t]) : DiaP!Resolves(id)
        /\ \A f \in DOMAIN functionSymbols :
             \A id \in FunctionReferences(functionSymbols[f]) : DiaP!Resolves(id)
    BY <1>2 DEF DiaP!MapInv, DiaP!ReferenceInv, DiaP!SymbolResolves, DiaP!TypeReferences,
                TypeReferences, DiaP!FunctionReferences, FunctionReferences
  <2>. QED
    BY <1>3, <2>1, <2>2 DEF OrigResolves
<1>8. FileInv'
  <2>1. Fresh => ~Written'
    BY <1>3 DEF Fresh, Written, Json, UsymP!SerializerTypes
  <2>. QED
    BY <1>2, <2>1 DEF FileInv, FileResolves, PointersSurvive, ReferencesKeepTheirNames
<1>9. OrigDescribed'
  <2>. SUFFICES ASSUME DiaP!CleanPdb
                PROVE  DiaP!IsDescription(orig.types, orig.functions)'
    BY <1>1, SamePdb DEF OrigDescribed
  <2>1. DiaP!IsDescription(typeSymbols, functionSymbols)
    BY <1>2, DiaInputs, DiaP!HandedOver
  <2>2. DiaP!IsDescription(orig'.types, orig'.functions)
    BY <1>3, <2>1
  <2>. QED
    BY <1>1, <2>2, StillDescribed
<1>. QED
  BY <1>1, <1>2, <1>3, <1>5, <1>6, <1>7, <1>8, <1>9 DEF ProgramInv

(* TypeOfMadeUpName, PointersSurvive and ReferencesKeepTheirNames for any
   symbols. *)
MadeUpName(types, id, o) ==
  /\ id \in DOMAIN types /\ ~IsPointer(id)
  /\ pdb.symbols[id].name = orig.types[o].name

Leads(types, id, o) ==
  IF o = 0 THEN id = 0
  ELSE /\ id \in DOMAIN types
       /\ IF IsPointer(o) THEN id = o \/ MadeUpName(types, id, o)
          ELSE types[id].name = Dia!DescribedType(o).name

AllPointers(types) ==
  /\ \A o \in Dia!Reachable :
       IsPointer(o) => o \in DOMAIN types \/ \E t \in DOMAIN types : MadeUpName(types, t, o)
  /\ \A t \in DOMAIN types : types[t].type = "kPointer" <=> IsPointer(t)

NamesKept(types, functions) ==
  /\ \A t \in DOMAIN types :
       LET described == Dia!DescribedType(t)
       IN  /\ Leads(types, types[t].typedefSource, described.typedefSource)
           /\ \A i \in DOMAIN described.fields :
                Leads(types, types[t].fields[i].underlyingTypeId,
                      described.fields[i].underlyingTypeId)
  /\ \A h \in {g \in DOMAIN pdb.functions : pdb.functions[g].hasType} :
       Leads(types, functions[pdb.functions[h].id].returnTypeId, pdb.functions[h].returnType)

(* What the purge leaves has all pointers and has turned no reference to a
   type of another name: what is merged has one name, and a pointer shares
   its name with no other pointer. *)
LEMMA PurgedFaithful ==
  ASSUME UsymP!PurgeInv, ~UsymP!Purging, caller = "Serialize", OrigDescribed,
         DiaP!CleanPdb
  PROVE  AllPointers(typeSymbols) /\ NamesKept(typeSymbols, functionSymbols)
<1>1. DiaP!IsDescription(orig.types, orig.functions)
  BY DEF OrigDescribed
<1>2. /\ UsymP!ReferencesPreserved
      /\ \A t \in DOMAIN typeSymbols :
           /\ t \in DOMAIN orig.types
           /\ typeSymbols[t].name = orig.types[t].name
           /\ typeSymbols[t].type = orig.types[t].type
      /\ \A old \in DOMAIN orig.types : \A new :
           UsymP!SameTarget(old, new) =>
             new \in DOMAIN typeSymbols /\ orig.types[new].name = orig.types[old].name
      /\ \A old \in DOMAIN orig.types :
           UsymP!SameTarget(old, UsymP!Redirect(oldToNew, old))
  BY UsymInputs, UsymP!PurgeInvPreserves, UsymP!AfterThePurge
<1>3. /\ UsymP!TypeOK /\ 0 \notin DOMAIN orig.types
      /\ \A o : Dia!DescribedType(o) = DiaP!DescribedType(o)
      /\ Dia!Reachable = DiaP!Reachable
  BY UsymInputs, SameDescription DEF UsymP!PurgeInv, UsymP!TypeOK, UsymP!IsTypeMap
<1>4. ASSUME NEW old \in DOMAIN orig.types \cup {0}, NEW new, UsymP!SameTarget(old, new)
      PROVE  Leads(typeSymbols, new, old)
  <2>1. CASE old = 0
    BY <1>3, <1>4, <2>1 DEF UsymP!SameTarget, Leads
  <2>2. CASE old # 0
    <3>1. /\ old \in DOMAIN orig.types /\ new \in DOMAIN typeSymbols
          /\ new \in DOMAIN orig.types
          /\ orig.types[new].name = orig.types[old].name
          /\ typeSymbols[new].name = orig.types[new].name
      BY <1>2, <1>4, <2>2
    <3>2. CASE IsPointer(old)
      <4>1. \A s \in DOMAIN orig.types \ {old} :
              orig.types[s].name = orig.types[old].name =>
                ~IsPointer(s) /\ pdb.symbols[s].name = orig.types[old].name
        BY <1>1, <3>1, <3>2 DEF DiaP!IsDescription, DiaP!Sym, IsPointer
      <4>. QED
        BY <2>2, <3>1, <3>2, <4>1 DEF Leads, MadeUpName
    <3>3. CASE ~IsPointer(old)
      <4>1. orig.types[old].name = DiaP!DescribedType(old).name
        BY <1>1, <3>1, <3>3 DEF DiaP!IsDescription, DiaP!Sym, IsPointer
      <4>. QED
        BY <1>3, <2>2, <3>1, <3>3, <4>1 DEF Leads
    <3>. QED
      BY <3>2, <3>3
  <2>. QED
    BY <2>1, <2>2
<1>5. AllPointers(typeSymbols)
  <2>1. /\ DOMAIN orig.types = Dia!Reachable
        /\ \A t \in DOMAIN orig.types :
             orig.types[t].type = "kPointer" <=> IsPointer(t)
    BY <1>1, <1>3 DEF DiaP!IsDescription, DiaP!Sym, IsPointer
  <2>2. ASSUME NEW o \in DOMAIN orig.types, IsPointer(o)
        PROVE  o \in DOMAIN typeSymbols \/ \E t \in DOMAIN typeSymbols :
                                                MadeUpName(typeSymbols, t, o)
    <3>1. Leads(typeSymbols, UsymP!Redirect(oldToNew, o), o)
      BY <1>2, <1>4
    <3>. QED
      BY <1>3, <2>2, <3>1 DEF Leads, MadeUpName
  <2>. QED
    BY <1>2, <2>1, <2>2 DEF AllPointers
<1>6. ASSUME NEW t \in DOMAIN typeSymbols
      PROVE  /\ Leads(typeSymbols, typeSymbols[t].typedefSource,
                       DiaP!DescribedType(t).typedefSource)
             /\ \A i \in DOMAIN DiaP!DescribedType(t).fields :
                  Leads(typeSymbols, typeSymbols[t].fields[i].underlyingTypeId,
                        DiaP!DescribedType(t).fields[i].underlyingTypeId)
  <2>. DEFINE old == orig.types[t]
              new == typeSymbols[t]
  <2>1. /\ t \in DOMAIN orig.types
        /\ UsymP!SameTarget(old.typedefSource, new.typedefSource)
        /\ Len(new.fields) = Len(old.fields)
        /\ \A i \in DOMAIN new.fields :
             UsymP!SameTarget(old.fields[i].underlyingTypeId,
                              new.fields[i].underlyingTypeId)
    BY <1>2 DEF UsymP!ReferencesPreserved
  <2>2. DOMAIN new.fields = DOMAIN old.fields
    <3>1. new \in UsymP!TypeSymbols(AllNames) /\ old \in UsymP!TypeSymbols(AllNames)
      BY <1>3, <2>1 DEF UsymP!TypeOK, UsymP!IsTypeMap
    <3>2. /\ new.fields \in Seq(UsymP!FieldSymbols(AllNames))
          /\ old.fields \in Seq(UsymP!FieldSymbols(AllNames))
      BY <3>1 DEF UsymP!TypeSymbols
    <3>. QED
      BY <2>1, <3>2
  <2>3. /\ old.typedefSource = DiaP!DescribedType(t).typedefSource
        /\ old.fields = DiaP!DescribedType(t).fields
        /\ DiaP!TypeReferences(old) \subseteq DOMAIN orig.types \cup {0}
    BY <1>1, <2>1 DEF DiaP!IsDescription
  <2>4. /\ old.typedefSource \in DOMAIN orig.types \cup {0}
        /\ \A i \in DOMAIN old.fields :
             old.fields[i].underlyingTypeId \in DOMAIN orig.types \cup {0}
    BY <2>3 DEF DiaP!TypeReferences
  <2>. HIDE DEF old, new
  <2>5. Leads(typeSymbols, new.typedefSource, old.typedefSource)
    BY <1>4, <2>1, <2>4
  <2>6. \A i \in DOMAIN old.fields :
          Leads(typeSymbols, new.fields[i].underlyingTypeId, old.fields[i].underlyingTypeId)
    BY <1>4, <2>1, <2>2, <2>4
  <2>. QED
    BY <2>3, <2>5, <2>6 DEF new
<1>7. ASSUME NEW h \in DOMAIN pdb.functions, pdb.functions[h].hasType
      PROVE  Leads(typeSymbols, functionSymbols[pdb.functions[h].id].returnTypeId,
                   pdb.functions[h].returnType)
  <2>. DEFINE f == pdb.functions[h].id
  <2>1. /\ f \in DOMAIN orig.functions
        /\ orig.functions[f].returnTypeId = pdb.functions[h].returnType
        /\ pdb.functions[h].returnType \in DOMAIN orig.types \cup {0}
    BY <1>1, <1>7 DEF DiaP!IsDescription
  <2>2. UsymP!SameTarget(orig.functions[f].returnTypeId, functionSymbols[f].returnTypeId)
    BY <1>2, <2>1 DEF UsymP!ReferencesPreserved
  <2>. QED
    BY <1>4, <2>1, <2>2
<1>8. NamesKept(typeSymbols, functionSymbols)
  BY <1>3, <1>6, <1>7 DEF NamesKept
<1>. QED
  BY <1>5, <1>8

(* The file is what the purge left. *)
LEMMA ImageOfTheUsym ==
  ASSUME UsymP!PurgeInv, UsymP!OutputInv, serializer = "kJson", UsymP!SerializeToFile("complete")
  PROVE  Image'.types = typeSymbols /\ Image'.functions = functionSymbols
<1>1. file' = [file EXCEPT !["kJson"] = [state |-> "complete", images |-> UsymP!Extend(buffer)]]
  BY DEF UsymP!SerializeToFile, UsymP!Remains
<1>2. Json'.images = UsymP!Extend(buffer)
  BY <1>1 DEF UsymP!OutputInv, UsymP!SerializerTypes, Json
<1>3. /\ UsymP!Extend(buffer)[Len(UsymP!Extend(buffer))] = UsymP!CurrentImage
      /\ Len(UsymP!Extend(buffer)) = 1
  BY UsymInputs, UsymP!ExtendEndsWithImage DEF UsymP!PurgeInv
<1>. QED
  BY <1>2, <1>3 DEF Image, UsymP!CurrentImage

(* A complete file has all pointers and keeps the names of references. *)
LEMMA WrittenFaithful ==
  ASSUME UsymP!PurgeInv, UsymP!OutputInv, caller = "Serialize", serializer = "kJson",
         OrigDescribed, pdb' = pdb,
         UsymP!SerializeToFile("complete")
  PROVE  PointersSurvive' /\ ReferencesKeepTheirNames'
<1>1. Image'.types = typeSymbols /\ Image'.functions = functionSymbols
  BY ImageOfTheUsym
<1>2. ~UsymP!Purging
  BY DEF UsymP!SerializeToFile, UsymP!Purging, UsymP!PurgeSteps
<1>3. SUFFICES ASSUME Dia!CleanPdb' PROVE PointersSurvive' /\ ReferencesKeepTheirNames'
  BY DEF PointersSurvive, ReferencesKeepTheirNames
<1>4. DiaP!CleanPdb
  BY <1>3, SamePdb, SameDescription
<1>5. AllPointers(typeSymbols) /\ NamesKept(typeSymbols, functionSymbols)
  BY <1>2, <1>4, PurgedFaithful
<1>. orig' = orig
  BY DEF UsymP!SerializeToFile, UsymP!purgeVars
<1>6. PointersSurvive'
  BY <1>1, <1>5, SamePdb
  DEF PointersSurvive, AllPointers, IsPointer, TypeOfMadeUpName, MadeUpName
<1>7. ReferencesKeepTheirNames'
  <2>1. \A o : Dia!DescribedType(o)' = Dia!DescribedType(o)
    BY SamePdb
  <2>. QED
    BY <1>1, <1>5, <2>1
    DEF ReferencesKeepTheirNames, NamesKept, Leads, IsPointer, TypeOfMadeUpName, MadeUpName
<1>. QED
  BY <1>6, <1>7

(* A complete file resolves: the purge began with symbols that did and left
   every reference where it led. *)
LEMMA WrittenResolves ==
  ASSUME UsymP!PurgeInv, UsymP!OutputInv, OrigResolves, serializer = "kJson",
         pdb' = pdb, UsymP!SerializeToFile("complete")
  PROVE  FileResolves'
<1>1. usymPc = "write"
  BY DEF UsymP!SerializeToFile
<1>2. Image'.types = typeSymbols /\ Image'.functions = functionSymbols
  BY ImageOfTheUsym
<1>. DEFINE Resolved(id) == id \in DOMAIN typeSymbols \cup {0}
                            \/ pdb.symbols[id].tag = "fail"
<1>3. UsymP!ReferencesPreserved /\ ~UsymP!Purging
  BY <1>1, UsymInputs, UsymP!PurgeInvPreserves DEF UsymP!Purging, UsymP!PurgeSteps
<1>4. ASSUME NEW old, NEW new, Known(old), UsymP!SameTarget(old, new)
      PROVE  Resolved(new)
  BY <1>4 DEF Known, UsymP!SameTarget
<1>. HIDE DEF Resolved
<1>5. ASSUME NEW t \in DOMAIN typeSymbols, NEW id \in TypeReferences(typeSymbols[t])
      PROVE  Resolved(id)
  <2>. DEFINE old == orig.types[t]
              new == typeSymbols[t]
  <2>1. /\ t \in DOMAIN orig.types
        /\ UsymP!SameTarget(old.typedefSource, new.typedefSource)
        /\ Len(new.fields) = Len(old.fields)
        /\ \A i \in DOMAIN new.fields :
             UsymP!SameTarget(old.fields[i].underlyingTypeId,
                              new.fields[i].underlyingTypeId)
    BY <1>3 DEF UsymP!ReferencesPreserved
  <2>2. DOMAIN new.fields = DOMAIN old.fields
    <3>1. new \in UsymP!TypeSymbols(AllNames) /\ old \in UsymP!TypeSymbols(AllNames)
      BY <2>1 DEF UsymP!PurgeInv, UsymP!TypeOK, UsymP!IsTypeMap
    <3>2. /\ new.fields \in Seq(UsymP!FieldSymbols(AllNames))
          /\ old.fields \in Seq(UsymP!FieldSymbols(AllNames))
      BY <3>1 DEF UsymP!TypeSymbols
    <3>. QED
      BY <2>1, <3>2
  <2>3. /\ Known(old.typedefSource)
        /\ \A i \in DOMAIN old.fields : Known(old.fields[i].underlyingTypeId)
    BY <2>1 DEF OrigResolves, TypeReferences
  <2>4. \/ id = new.typedefSource
        \/ \E i \in DOMAIN new.fields : id = new.fields[i].underlyingTypeId
    BY <1>5 DEF TypeReferences
  <2>. HIDE DEF old, new
  <2>. QED
    BY <1>4, <2>1, <2>2, <2>3, <2>4
<1>6. ASSUME NEW f \in DOMAIN functionSymbols,
             NEW id \in FunctionReferences(functionSymbols[f])
      PROVE  Resolved(id)
  <2>. DEFINE old == orig.functions[f]
              new == functionSymbols[f]
  <2>1. /\ f \in DOMAIN orig.functions
        /\ UsymP!SameTarget(old.returnTypeId, new.returnTypeId)
        /\ Len(new.argumentTypeIds) = Len(old.argumentTypeIds)
        /\ \A i \in DOMAIN new.argumentTypeIds :
             UsymP!SameTarget(old.argumentTypeIds[i], new.argumentTypeIds[i])
    BY <1>3 DEF UsymP!ReferencesPreserved
  <2>2. DOMAIN new.argumentTypeIds = DOMAIN old.argumentTypeIds
    <3>1. /\ new \in UsymP!FunctionSymbols(AllNames)
          /\ old \in UsymP!FunctionSymbols(AllNames)
      BY <2>1 DEF UsymP!PurgeInv, UsymP!TypeOK, UsymP!IsFunctionMap
    <3>2. new.argumentTypeIds \in Seq(Nat) /\ old.argumentTypeIds \in Seq(Nat)
      BY <3>1 DEF UsymP!FunctionSymbols
    <3>. QED
      BY <2>1, <3>2
  <2>3. /\ Known(old.returnTypeId)
        /\ \A i \in DOMAIN old.argumentTypeIds : Known(old.argumentTypeIds[i])
    BY <2>1 DEF OrigResolves, FunctionReferences
  <2>4. \/ id = new.returnTypeId
        \/ \E i \in DOMAIN new.argumentTypeIds : id = new.argumentTypeIds[i]
    BY <1>6 DEF FunctionReferences
  <2>. HIDE DEF old, new
  <2>. QED
    BY <1>4, <2>1, <2>2, <2>3, <2>4
<1>. QED
  BY <1>2, <1>5, <1>6 DEF FileResolves, Resolved

(* A step that leaves the file, the PDB and what the purge was given alone
   leaves what is said of the file. *)
LEMMA FileUntouched ==
  ASSUME FileInv, file' = file, pdb' = pdb, orig' = orig
  PROVE  FileInv'
<1>1. FileResolves'
  BY DEF FileInv, FileResolves, Written, Image, Json
<1>2. PointersSurvive'
  BY SamePdb DEF FileInv, PointersSurvive, TypeOfMadeUpName, IsPointer, Written, Image, Json
<1>3. ReferencesKeepTheirNames'
  <2>1. /\ \A o : Dia!DescribedType(o)' = Dia!DescribedType(o)
        /\ Dia!CleanPdb' <=> Dia!CleanPdb
    BY SamePdb
  <2>2. (Written /\ Dia!CleanPdb) => NamesKept(Image.types, Image.functions)
    BY DEF FileInv, ReferencesKeepTheirNames, NamesKept, Leads, TypeOfMadeUpName, MadeUpName
  <2>3. Image' = Image /\ (Written' <=> Written)
    BY DEF Image, Written, Json
  <2>. QED
    BY <2>1, <2>2, <2>3
    DEF ReferencesKeepTheirNames, NamesKept, Leads, IsPointer, TypeOfMadeUpName, MadeUpName
<1>. QED
  BY <1>1, <1>2, <1>3 DEF FileInv

(* Whatever the outcome of SerializeToFile, a file that is complete is right. *)
LEMMA WrittenFile ==
  ASSUME UsymP!PurgeInv, UsymP!OutputInv, OrigResolves, OrigDescribed,
         caller = "Serialize", serializer = "kJson", pdb' = pdb,
         NEW end \in UsymP!Outcomes, UsymP!SerializeToFile(end), FileInv
  PROVE  FileInv'
<1>1. CASE end = "openFails"
  <2>1. file' = file /\ orig' = orig
    BY <1>1 DEF UsymP!SerializeToFile, UsymP!purgeVars
  <2>. QED
    BY <2>1, FileUntouched
<1>2. CASE end \in {"truncated", "throws"}
  <2>1. \E images : file' = [file EXCEPT !["kJson"] =
                                [state |-> "truncated", images |-> images]]
    BY <1>2 DEF UsymP!SerializeToFile, UsymP!Remains
  <2>2. ~Written'
    BY <2>1 DEF UsymP!OutputInv, UsymP!SerializerTypes, Written, Json
  <2>. QED
    BY <2>2 DEF FileInv, FileResolves, PointersSurvive, ReferencesKeepTheirNames
<1>3. CASE end = "complete"
  BY <1>3, WrittenResolves, WrittenFaithful DEF FileInv
<1>. QED
  BY <1>1, <1>2, <1>3 DEF UsymP!Outcomes

(* A file that is not there says nothing wrong, whatever PDB is opened. *)
LEMMA FreshUntouched ==
  ASSUME Fresh, UNCHANGED usymVars
  PROVE  Fresh' /\ FileInv'
<1>1. Fresh'
  BY DEF Fresh, usymVars, UsymP!SerializerTypes
<1>2. ~Written'
  BY DEF Fresh, usymVars, Written, Json, UsymP!SerializerTypes
<1>. QED
  BY <1>1, <1>2 DEF FileInv, FileResolves, PointersSurvive, ReferencesKeepTheirNames

(* The purge's record of what it was given stays what it was. *)
LEMMA OrigStays ==
  ASSUME OrigResolves, OrigDescribed, pdb' = pdb, orig' = orig
  PROVE  OrigResolves' /\ OrigDescribed'
<1>1. OrigResolves'
  BY DEF OrigResolves, Known
<1>2. SUFFICES ASSUME DiaP!CleanPdb
               PROVE  DiaP!IsDescription(orig.types, orig.functions)'
  BY <1>1, SamePdb DEF OrigDescribed
<1>3. DiaP!IsDescription(orig'.types, orig'.functions)
  BY <1>2 DEF OrigDescribed
<1>. QED
  BY <1>3, StillDescribed

(* Every step of the program keeps the invariant. *)
LEMMA NextProgram == ProgramInv /\ [Next]_vars => ProgramInv'
<1>. SUFFICES ASSUME ProgramInv, [Next]_vars PROVE ProgramInv'
  OBVIOUS
<1>1. ASSUME NEW code, Exit(code) PROVE ProgramInv'
  <2>1. main' = "ended" /\ file' = file /\ pdb' = pdb /\ orig' = orig
    BY <1>1 DEF Exit, usymVars, diaVars
  <2>. QED
    BY <2>1, FileUntouched DEF ProgramInv
<1>2. CASE Usage \/ NoSymbols \/ Return
  BY <1>1, <1>2 DEF Usage, NoSymbols, Return
<1>3. ASSUME main \in {"start", "dia"}, main' = "dia", pdb' \in Pdbs,
             [DiaP!Next]_DiaP!vars, UNCHANGED usymVars
      PROVE  ProgramInv'
  <2>1. Fresh /\ DiaInv
    BY <1>3 DEF ProgramInv
  <2>2. DiaInv'
    BY <1>3, <2>1, DiaStep
  <2>3. Fresh' /\ FileInv'
    BY <1>3, <2>1, FreshUntouched
  <2>. QED
    BY <1>3, <2>2, <2>3 DEF ProgramInv
<1>4. ASSUME NEW p \in Pdbs, NEW failing \in Dia!Failures, CreateUsymFromFile(p, failing)
      PROVE  ProgramInv'
  <2>1. DiaP!InitializeDia(p, failing) /\ failing \in DiaP!Failures
    BY <1>4, SameInitializeDia DEF CreateUsymFromFile
  <2>2. DiaP!Next /\ pdb' = p
    BY <2>1 DEF DiaP!Next, DiaP!InitializeDia
  <2>. QED
    BY <1>3, <1>4, <2>2 DEF CreateUsymFromFile
<1>5. CASE RunDia
  <2>1. /\ main = "dia" /\ DiaP!TypeInv /\ pdb \in Pdbs
        /\ DiaP!BuildStep \/ DiaP!Throw
        /\ main' = "dia" /\ UNCHANGED usymVars
    BY <1>5, SameBuildStep DEF RunDia, ProgramInv, DiaInv
  <2>2. DiaP!Next
    BY <2>1 DEF DiaP!Next
  <2>3. pdb' = pdb
    BY <2>1, DiaInputs, DiaP!PdbStays
  <2>. QED
    BY <1>3, <2>1, <2>2, <2>3
<1>6. CASE SetSerializer
  <2>1. /\ main = "dia" /\ main' = "usym" /\ diaPc = "idle" /\ outcome = "usym"
        /\ UsymP!SetSerializer("kJson") /\ UNCHANGED diaVars
    BY <1>6, SameUsymCalls DEF SetSerializer
  <2>2. Fresh /\ DiaInv /\ pdb \in Pdbs /\ FileInv
    BY <2>1 DEF ProgramInv
  <2>3. /\ serializer' = "kJson" /\ buffer' = << >> /\ file' = file /\ purity' = purity
        /\ usymPc' = usymPc /\ usymCalls' = usymCalls
        /\ typeSymbols' = typeSymbols /\ functionSymbols' = functionSymbols
        /\ orig' = orig
    BY <2>1 DEF UsymP!SetSerializer, UsymP!symbolVars, UsymP!purgeVars
  <2>4. UNCHANGED DiaP!vars
    BY <2>1, <2>3 DEF diaVars, DiaP!vars, DiaP!sessionVars, DiaP!listVars,
                      DiaP!functionVars, DiaP!typeVars
  <2>5. DiaInv'
    BY <2>2, <2>4, DiaStep
  <2>6. Fresh'
    BY <2>2, <2>3 DEF Fresh, UsymP!SerializerTypes
  <2>7. pdb' \in Pdbs /\ DiaP!Built' /\ FileInv'
    BY <2>1, <2>2, <2>3, FileUntouched DEF diaVars, DiaP!Built
  <2>. QED
    BY <2>1, <2>3, <2>5, <2>6, <2>7 DEF ProgramInv
<1>7. CASE Serialize
  BY <1>7, SerializeBegins
<1>8. CASE RunUsym
  <2>1. /\ main = "serialize" /\ main' = "serialize" /\ UsymP!CallStep /\ pdb' = pdb
    BY <1>8, SameCallStep DEF RunUsym, diaVars
  <2>2. /\ UsymP!PurgeInv /\ UsymP!OutputInv /\ OrigResolves /\ OrigDescribed /\ pdb \in Pdbs
        /\ caller = "Serialize" /\ serializer = "kJson" /\ FileInv
    BY <2>1 DEF ProgramInv
  <2>3. UsymP!PurgeInv' /\ UsymP!OutputInv'
    BY <2>1, <2>2, UsymStep
  <2>4. caller' = caller /\ serializer' = serializer /\ orig' = orig
    BY <2>1 DEF UsymP!CallStep, UsymP!HashType, UsymP!RewriteTypes, UsymP!RewriteFunctions,
                UsymP!EraseDuplicates, UsymP!VerifyBeforeWriting, UsymP!SerializeToFile,
                UsymP!purgeVars, UsymP!outputVars
  <2>5. OrigResolves' /\ OrigDescribed'
    BY <2>1, <2>2, <2>4, OrigStays
  <2>6. FileInv'
    <3>1. ASSUME NEW end \in UsymP!Outcomes, UsymP!SerializeToFile(end)
          PROVE  FileInv'
      BY <2>1, <2>2, <3>1, WrittenFile
    <3>2. CASE file' = file
      BY <2>1, <2>2, <2>4, <3>2, FileUntouched
    <3>. QED
      BY <2>1, <3>1, <3>2 DEF UsymP!CallStep, UsymP!HashType, UsymP!RewriteTypes,
         UsymP!RewriteFunctions, UsymP!EraseDuplicates, UsymP!VerifyBeforeWriting,
         UsymP!outputVars
  <2>. QED
    BY <2>1, <2>2, <2>3, <2>4, <2>5, <2>6 DEF ProgramInv
<1>9. CASE UNCHANGED vars
  <2>1. UNCHANGED <<main, typeSymbols, functionSymbols, diaVars, usymVars>>
    BY <1>9 DEF vars
  <2>2. pdb' = pdb /\ file' = file /\ serializer' = serializer /\ caller' = caller
        /\ orig' = orig
    BY <2>1 DEF diaVars, usymVars
  <2>3. FileInv'
    BY <2>2, FileUntouched DEF ProgramInv
  <2>4. main \in {"start", "dia", "usym"} => Fresh' /\ DiaInv'
    <3>1. UNCHANGED DiaP!vars
      BY <2>1 DEF diaVars, DiaP!vars, DiaP!sessionVars, DiaP!listVars,
                  DiaP!functionVars, DiaP!typeVars
    <3>. QED
      BY <2>1, <3>1, DiaStep, FreshUntouched DEF ProgramInv
  <2>5. main = "usym" => DiaP!Built'
    BY <2>1 DEF ProgramInv, DiaP!Built, diaVars
  <2>6. main = "serialize" => UsymP!PurgeInv' /\ UsymP!OutputInv'
    <3>1. UNCHANGED UsymP!vars
      BY <2>1 DEF usymVars, UsymP!vars, UsymP!symbolVars, UsymP!purgeVars, UsymP!outputVars
    <3>. QED
      BY <3>1, UsymStep DEF ProgramInv
  <2>7. OrigResolves /\ OrigDescribed => OrigResolves' /\ OrigDescribed'
    BY <2>2, OrigStays
  <2>. QED
    BY <2>1, <2>2, <2>3, <2>4, <2>5, <2>6, <2>7 DEF ProgramInv
<1>. QED
  BY <1>2, <1>4, <1>5, <1>6, <1>7, <1>8, <1>9 DEF Next

(* Every reference in a complete file PdbToUni writes leads to a type in it,
   or is to a symbol whose tag the SDK could not read: for every PDB, whatever
   fails on the way, and whatever the purge merges (main, CreateUsymFromFile,
   PurgeDuplicateTypes, SerializeToFile). *)
THEOREM WrittenFileResolves == Spec => []FileResolves
<1>1. ProgramInv => FileResolves
  BY DEF ProgramInv, FileInv
<1>. QED
  BY <1>1, InitProgram, NextProgram, PTL DEF Spec

(* If all that can be reached in the PDB can be read, a complete file has each
   of its pointer types, also those that were created more than once, or in
   place of one a type to which the PDB gives the very name made up for it: no
   pointer is merged with another one, and nothing is turned into a pointer
   (CreatePointerTypeSymbol, GeneratePointerName, PurgeDuplicateTypes). *)
THEOREM PointersAlwaysSurvive == Spec => []PointersSurvive
<1>1. ProgramInv => PointersSurvive
  BY DEF ProgramInv, FileInv
<1>. QED
  BY <1>1, InitProgram, NextProgram, PTL DEF Spec

(* And for such a PDB every typedef, field and return type in a complete file
   leads to a type of the name the PDB has for it, and one to a pointer to
   that pointer or to the type of its made-up name, although types are created
   in any order, hashed in any order and merged by hash (CreateTypeSymbol,
   PurgeDuplicateTypes). *)
THEOREM ReferencesAlwaysKeepTheirNames == Spec => []ReferencesKeepTheirNames
<1>1. ProgramInv => ReferencesKeepTheirNames
  BY DEF ProgramInv, FileInv
<1>. QED
  BY <1>1, InitProgram, NextProgram, PTL DEF Spec
=============================================================================
