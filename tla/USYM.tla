-------------------------------- MODULE USYM --------------------------------
(***************************************************************************)
(* One USYM object from the moment a processor hands it over: choosing a   *)
(* serializer, PurgeDuplicateTypes, VerifyTypeIds and Serialize (USYM.cpp, *)
(* ISerializer.cpp and the two serializers).                               *)
(*                                                                         *)
(* The purge runs loop by loop.  std::unordered_map has no iteration order *)
(* to rely on, so the first loop, whose outcome depends on the order,      *)
(* visits the types in any order; the two rewriting loops and the erasure  *)
(* do not depend on it and are one step each.                              *)
(***************************************************************************)
EXTENDS UsymFormat

CONSTANTS
  TypeIds,      \* keys of typeSymbols
  FunctionIds,  \* keys of functionSymbols
  Names,        \* symbol names
  Contents,     \* the symbols a processor can hand over: [types, functions]
  MaxCalls      \* bound: calls of Serialize and PurgeDuplicateTypes

IsTypeMap(m) ==
  DOMAIN m \subseteq TypeIds /\ m \in [DOMAIN m -> TypeSymbols(Names)]

IsFunctionMap(m) ==
  DOMAIN m \subseteq FunctionIds /\ m \in [DOMAIN m -> FunctionSymbols(Names)]

ASSUME TypeIdsAssumption == TypeIds \subseteq Nat \ {0}
ASSUME MaxCallsAssumption == MaxCalls \in Nat
ASSUME ContentsAssumption ==
  \A c \in Contents : IsTypeMap(c.types) /\ IsFunctionMap(c.functions)

VARIABLES
  typeSymbols,      \* USYM::typeSymbols
  functionSymbols,  \* USYM::functionSymbols
  serializer,       \* which serializer pSerializer owns, or "none"
  pc,               \* the step the running call has reached
  caller,           \* who called PurgeDuplicateTypes
  oldToNew,         \* local of PurgeDuplicateTypes
  hashesToIds,      \* local of PurgeDuplicateTypes
  pending,          \* types the first loop has not visited yet
  orig,             \* history: the symbols when the last purge began
  purity,           \* what VerifyTypeIds last returned
  buffer,           \* images held by the serializer (json document, Writer)
  file,             \* the output file of each serializer
  result,           \* what Serialize last returned
  calls             \* calls made so far

symbolVars == <<typeSymbols, functionSymbols>>
purgeVars  == <<caller, oldToNew, hashesToIds, pending, orig>>
outputVars == <<serializer, purity, buffer, file, result>>
vars == <<symbolVars, purgeVars, outputVars, pc, calls>>

SerializerTypes == {"kBinary", "kJson"}
PurgeSteps == {"hash", "functions", "erase"}

CurrentImage == [types |-> typeSymbols, functions |-> functionSymbols]

Init ==
  /\ \E c \in Contents : typeSymbols = c.types /\ functionSymbols = c.functions
  /\ serializer = "none"
  /\ pc = "idle"
  /\ caller = "none"
  /\ oldToNew = EmptyMap
  /\ hashesToIds = EmptyMap
  /\ pending = {}
  /\ orig = [types |-> typeSymbols, functions |-> functionSymbols]
  /\ purity = TRUE
  /\ buffer = << >>
  /\ file = [s \in SerializerTypes |-> [state |-> "absent", images |-> << >>]]
  /\ result = "none"
  /\ calls = 0

-----------------------------------------------------------------------------
(* The client's calls *)

(* SetSerializer: a fresh serializer replaces the old one, which is
   destroyed with whatever it still holds.  (A type that is neither of the
   two throws and changes nothing.) *)
SetSerializer(type) ==
  /\ pc = "idle"
  /\ serializer' = type
  /\ buffer' = << >>
  /\ UNCHANGED <<symbolVars, purgeVars, purity, file, result, pc, calls>>

(* Entry of PurgeDuplicateTypes. *)
EnterPurge(c) ==
  /\ pc' = "hash"
  /\ caller' = c
  /\ oldToNew' = EmptyMap
  /\ hashesToIds' = EmptyMap
  /\ pending' = DOMAIN typeSymbols
  /\ orig' = CurrentImage
  /\ UNCHANGED <<symbolVars, outputVars>>

(* PurgeDuplicateTypes is public; the tests call it on its own. *)
CallPurge ==
  /\ pc = "idle"
  /\ calls < MaxCalls
  /\ calls' = calls + 1
  /\ EnterPurge("client")

SerializeUninitialized ==
  /\ pc = "idle"
  /\ calls < MaxCalls
  /\ serializer = "none"
  /\ calls' = calls + 1
  /\ result' = "kSerializerUninitialized"
  /\ UNCHANGED <<symbolVars, purgeVars, serializer, purity, buffer, file, pc>>

(* Serialize: Setup names the file and the object, then the purge begins. *)
CallSerialize ==
  /\ pc = "idle"
  /\ calls < MaxCalls
  /\ serializer # "none"
  /\ calls' = calls + 1
  /\ EnterPurge("Serialize")

-----------------------------------------------------------------------------
(* PurgeDuplicateTypes *)

(* Mutant: the kept type is looked up by id instead of by hash, which yields
   a new entry of value 0. *)
HashTypeLookupById(id) ==
  /\ pc = "hash"
  /\ id \in pending
  /\ pending' = pending \ {id}
  /\ LET hash == Hash(typeSymbols[id]) IN
       \/ /\ hash \in DOMAIN hashesToIds
          /\ oldToNew' = Put(oldToNew, id, 0)
          /\ UNCHANGED hashesToIds
       \/ /\ hash \notin DOMAIN hashesToIds
          /\ hashesToIds' = Put(hashesToIds, hash, id)
          /\ UNCHANGED oldToNew
  /\ UNCHANGED <<symbolVars, outputVars, caller, orig, pc, calls>>

(* Mutant: a type is remapped to the type seen last, not to the one kept. *)
HashTypeKeepsLast(id) ==
  /\ pc = "hash"
  /\ id \in pending
  /\ pending' = pending \ {id}
  /\ LET hash == Hash(typeSymbols[id]) IN
       /\ hashesToIds' = Put(hashesToIds, hash, id)
       /\ oldToNew' = IF hash \in DOMAIN hashesToIds
                      THEN Put(oldToNew, id, hashesToIds[hash])
                      ELSE oldToNew
  /\ UNCHANGED <<symbolVars, outputVars, caller, orig, pc, calls>>

(* First loop, one iteration: the first type of a hash is kept, a later one
   is to be replaced by it. *)
HashType(id) ==
  /\ pc = "hash"
  /\ id \in pending
  /\ pending' = pending \ {id}
  /\ LET hash == Hash(typeSymbols[id]) IN
       \/ /\ hash \in DOMAIN hashesToIds
          /\ oldToNew' = Put(oldToNew, id, hashesToIds[hash])
          /\ UNCHANGED hashesToIds
       \/ /\ hash \notin DOMAIN hashesToIds
          /\ hashesToIds' = Put(hashesToIds, hash, id)
          /\ UNCHANGED oldToNew
  /\ UNCHANGED <<symbolVars, outputVars, caller, orig, pc, calls>>

(* Mutant: the typedef source is left as it was. *)
RewriteTypesFieldsOnly ==
  /\ pc = "hash"
  /\ pending = {}
  /\ typeSymbols' = [t \in DOMAIN typeSymbols |->
                       [RedirectType(oldToNew, typeSymbols[t]) EXCEPT
                          !.typedefSource = typeSymbols[t].typedefSource]]
  /\ pc' = "functions"
  /\ UNCHANGED <<functionSymbols, purgeVars, outputVars, calls>>

(* Second loop: typedef sources and field types. *)
RewriteTypes ==
  /\ pc = "hash"
  /\ pending = {}
  /\ typeSymbols' = [t \in DOMAIN typeSymbols |->
                       RedirectType(oldToNew, typeSymbols[t])]
  /\ pc' = "functions"
  /\ UNCHANGED <<functionSymbols, purgeVars, outputVars, calls>>

(* Mutant: the argument types are left as they were. *)
RewriteFunctionsReturnOnly ==
  /\ pc = "functions"
  /\ functionSymbols' = [f \in DOMAIN functionSymbols |->
                           [functionSymbols[f] EXCEPT !.returnTypeId =
                              Redirect(oldToNew, functionSymbols[f].returnTypeId)]]
  /\ pc' = "erase"
  /\ UNCHANGED <<typeSymbols, purgeVars, outputVars, calls>>

(* Third loop: return and argument types of the functions. *)
RewriteFunctions ==
  /\ pc = "functions"
  /\ functionSymbols' = [f \in DOMAIN functionSymbols |->
                           RedirectFunction(oldToNew, functionSymbols[f])]
  /\ pc' = "erase"
  /\ UNCHANGED <<typeSymbols, purgeVars, outputVars, calls>>

AfterPurge == IF caller = "Serialize" THEN "verify" ELSE "idle"

(* Mutant: the types that were kept are erased, the duplicates stay. *)
EraseKept ==
  /\ pc = "erase"
  /\ typeSymbols' = [t \in DOMAIN typeSymbols \ {oldToNew[s] : s \in DOMAIN oldToNew} |->
                       typeSymbols[t]]
  /\ pc' = AfterPurge
  /\ UNCHANGED <<functionSymbols, purgeVars, outputVars, calls>>

(* std::erase_if: every type that has a replacement goes. *)
EraseDuplicates ==
  /\ pc = "erase"
  /\ typeSymbols' = [t \in DOMAIN typeSymbols \ DOMAIN oldToNew |-> typeSymbols[t]]
  /\ pc' = AfterPurge
  /\ UNCHANGED <<functionSymbols, purgeVars, outputVars, calls>>

-----------------------------------------------------------------------------
(* The rest of Serialize *)

(* A missing id is only logged; serialization goes on. *)
VerifyBeforeWriting ==
  /\ pc = "verify"
  /\ purity' = VerifyTypeIds(typeSymbols, functionSymbols)
  /\ pc' = "write"
  /\ UNCHANGED <<symbolVars, purgeVars, serializer, buffer, file, result, calls>>

(* Mutant: the json document grows like the binary buffer. *)
ExtendAlways(images) == Append(images, CurrentImage)

(* SerializeHeader, SerializeTypeSymbols and SerializeFunctionSymbols: the
   json document is assigned key by key and so replaced; the Writer of the
   binary serializer only ever appends. *)
Extend(images) ==
  IF serializer = "kJson" THEN <<CurrentImage>> ELSE Append(images, CurrentImage)

(* How writing the file can go.  The json library throws on a name that is
   no valid UTF-8. *)
Outcomes == {"openFails", "complete", "truncated", "throws"}

(* What the file can hold once it was opened: all the images, or, cut off
   somewhere, the first ones of them, the last not among them. *)
Remains(outcome, images) ==
  IF outcome = "complete"
  THEN {[state |-> "complete", images |-> images]}
  ELSE {[state |-> "truncated", images |-> SubSeq(images, 1, whole)] :
          whole \in 0..(Len(images) - 1)}

(* SerializeToFile.  Only a stream that fails to open is noticed: a write
   that fails later leaves a truncated file and still returns kOk.  The
   target name and the object are never missing here, Setup has set them. *)
SerializeToFile(outcome) ==
  /\ pc = "write"
  /\ outcome = "throws" => serializer = "kJson"
  /\ buffer' = Extend(buffer)
  /\ \/ outcome = "openFails" /\ file' = file
     \/ /\ outcome # "openFails"
        /\ \E written \in Remains(outcome, buffer') :
             file' = [file EXCEPT ![serializer] = written]
  /\ result' = CASE outcome = "openFails" -> "kFileCreationFailed"
                 [] outcome = "throws" -> "exception"
                 [] OTHER -> "kOk"
  /\ pc' = "idle"
  /\ UNCHANGED <<symbolVars, purgeVars, serializer, purity, calls>>

-----------------------------------------------------------------------------
ClientStep ==
  \/ \E type \in SerializerTypes : SetSerializer(type)
  \/ CallPurge
  \/ SerializeUninitialized
  \/ CallSerialize

CallStep ==
  \/ \E id \in TypeIds : HashType(id)
  \/ RewriteTypes
  \/ RewriteFunctions
  \/ EraseDuplicates
  \/ VerifyBeforeWriting
  \/ \E outcome \in Outcomes : SerializeToFile(outcome)

Next == ClientStep \/ CallStep

Spec == Init /\ [][Next]_vars

-----------------------------------------------------------------------------
(* Properties *)

(* The type invariant: the maps of the USYM hold symbols under their kind of
   key, the locals of PurgeDuplicateTypes map type ids to type ids and hashes
   to type ids, and the purge is only rewriting while its call is running. *)
TypeOK ==
  /\ IsTypeMap(typeSymbols)
  /\ IsFunctionMap(functionSymbols)
  /\ IsTypeMap(orig.types)
  /\ IsFunctionMap(orig.functions)
  /\ serializer \in SerializerTypes \cup {"none"}
  /\ pc \in PurgeSteps \cup {"idle", "verify", "write"}
  /\ caller \in {"none", "client", "Serialize"}
  /\ DOMAIN oldToNew \subseteq TypeIds
  /\ oldToNew \in [DOMAIN oldToNew -> TypeIds]
  /\ hashesToIds \in [DOMAIN hashesToIds -> TypeIds]
  /\ pending \subseteq TypeIds
  /\ purity \in BOOLEAN
  /\ calls \in 0..MaxCalls

Purging == pc \in PurgeSteps

(* A reference that named a type before the purge names, after it, a type
   that is still there and had the same hash; any other is untouched. *)
SameTarget(old, new) ==
  IF old \in DOMAIN orig.types
  THEN new \in DOMAIN typeSymbols /\ Hash(orig.types[new]) = Hash(orig.types[old])
  ELSE new = old

(* PurgeDuplicateTypes never breaks or misdirects a reference: a typedef
   source, field type, return type or argument type that resolved when the
   purge began resolves when it ends, to a type of the same hash, whatever
   order the map was walked in (the three loops and the erasure together). *)
ReferencesPreserved ==
  ~Purging =>
    /\ \A t \in DOMAIN typeSymbols :
         LET old == orig.types[t]
             new == typeSymbols[t]
         IN  /\ t \in DOMAIN orig.types
             /\ SameTarget(old.typedefSource, new.typedefSource)
             /\ Len(new.fields) = Len(old.fields)
             /\ \A i \in DOMAIN new.fields :
                  SameTarget(old.fields[i].underlyingTypeId,
                             new.fields[i].underlyingTypeId)
    /\ DOMAIN functionSymbols = DOMAIN orig.functions
    /\ \A f \in DOMAIN functionSymbols :
         LET old == orig.functions[f]
             new == functionSymbols[f]
         IN  /\ SameTarget(old.returnTypeId, new.returnTypeId)
             /\ Len(new.argumentTypeIds) = Len(old.argumentTypeIds)
             /\ \A i \in DOMAIN new.argumentTypeIds :
                  SameTarget(old.argumentTypeIds[i], new.argumentTypeIds[i])

(* The test VerifyTypeIdsAfterPurge for any contents: if VerifyTypeIds holds
   before PurgeDuplicateTypes, it holds after it. *)
PurgeKeepsVerified ==
  ~Purging /\ VerifyTypeIds(orig.types, orig.functions)
    => VerifyTypeIds(typeSymbols, functionSymbols)

(* Once a purge has run, no two types are left that had one hash when it
   began, and every hash is still represented: how many types survive does
   not depend on the iteration order of the map. *)
OneTypePerHash ==
  (~Purging /\ caller # "none") =>
    \A t \in DOMAIN orig.types :
      \E s \in DOMAIN typeSymbols :
        /\ Hash(orig.types[s]) = Hash(orig.types[t])
        /\ \A r \in DOMAIN typeSymbols :
             Hash(orig.types[r]) = Hash(orig.types[t]) => r = s

(* GetTypeSymbolByName finds a type of some name after a purge exactly when
   it did before: types merge only with types of their own name. *)
TypeNames(types) == {types[t].name : t \in DOMAIN types}

NamesSurvive == ~Purging => TypeNames(typeSymbols) = TypeNames(orig.types)

(* A file that Serialize has written to its end ends with the symbols the
   object holds, their references resolve if they did before the purge, and a
   json file holds nothing else, however often Serialize ran or failed
   before.  kOk alone promises none of this: Serialize returns it for a file
   cut off by a failing write too, which the property leaves out. *)
WrittenFileIsCurrent ==
  [][(pc = "write" /\ result' = "kOk" /\ file'[serializer].state = "complete") =>
       LET images == file'[serializer].images
           last == images[Len(images)]
       IN  /\ last = CurrentImage
           /\ VerifyTypeIds(orig.types, orig.functions)
                => VerifyTypeIds(last.types, last.functions)
           /\ serializer = "kJson" => Len(images) = 1]_vars

(* Seen from outside, the symbols change when the purge is done. *)
VisibleTypes == IF Purging THEN orig.types ELSE typeSymbols
VisibleFunctions == IF Purging THEN orig.functions ELSE functionSymbols

Abstract == INSTANCE Dedup WITH types <- VisibleTypes, functions <- VisibleFunctions

(* PurgeDuplicateTypes implements Dedup: the loops, in whatever order they
   visit the map, amount to choosing one representative per hash. *)
ImplementsDedup == Abstract!Spec

(* What TypeSymbol::operator== and the purge's name say a duplicate is: a type
   is replaced only by a type that compares equal to it. *)
MergedTypesCompareEqual ==
  ~Purging =>
    \A t \in DOMAIN oldToNew :
      TypesEqual(orig.types[t], orig.types[oldToNew[t]])
=============================================================================
