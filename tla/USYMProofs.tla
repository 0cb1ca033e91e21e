----------------------------- MODULE USYMProofs -----------------------------
(***************************************************************************)
(* Proofs about USYM: type correctness, what PurgeDuplicateTypes does to   *)
(* the references between symbols, and what Serialize writes, for any ids, *)
(* names and contents.                                                     *)
(***************************************************************************)
EXTENDS USYM, TLAPS, SequenceTheorems, FiniteSetTheorems

-----------------------------------------------------------------------------
(* Lemmas about the helpers *)

(* Redirecting through a map of type ids yields an id. *)
LEMMA RedirectTyped ==
  ASSUME NEW D, NEW m \in [D -> TypeIds], NEW id \in Nat
  PROVE  Redirect(m, id) \in Nat
  BY TypeIdsAssumption DEF Redirect

(* The second loop of PurgeDuplicateTypes leaves a type symbol a type symbol,
   with as many fields as it had. *)
LEMMA RedirectTypeTyped ==
  ASSUME NEW D, NEW m \in [D -> TypeIds], NEW s \in TypeSymbols(Names)
  PROVE  RedirectType(m, s) \in TypeSymbols(Names)
<1> DEFINE F(i) == [s.fields[i] EXCEPT !.underlyingTypeId =
                      Redirect(m, s.fields[i].underlyingTypeId)]
<1>1. s.fields \in Seq(FieldSymbols(Names)) /\ s.typedefSource \in Nat
  BY DEF TypeSymbols
<1>2. Len(s.fields) \in Nat
  BY <1>1
<1>3. ASSUME NEW i \in 1..Len(s.fields)
      PROVE  F(i) \in FieldSymbols(Names)
  <2>1. s.fields[i] \in FieldSymbols(Names)
    BY <1>1, <1>3
  <2>2. s.fields[i].underlyingTypeId \in Nat
    BY <2>1 DEF FieldSymbols
  <2>3. Redirect(m, s.fields[i].underlyingTypeId) \in Nat
    BY <2>2, RedirectTyped
  <2> QED
    BY <2>1, <2>3 DEF FieldSymbols
<1>4. [i \in 1..Len(s.fields) |-> F(i)] \in Seq(FieldSymbols(Names))
  BY <1>2, <1>3, IsASeq
<1>5. Redirect(m, s.typedefSource) \in Nat
  BY <1>1, RedirectTyped
<1> QED
  BY <1>4, <1>5 DEF RedirectType, TypeSymbols

(* So does the third loop for a function symbol. *)
LEMMA RedirectFunctionTyped ==
  ASSUME NEW D, NEW m \in [D -> TypeIds], NEW s \in FunctionSymbols(Names)
  PROVE  RedirectFunction(m, s) \in FunctionSymbols(Names)
<1>1. s.argumentTypeIds \in Seq(Nat) /\ s.returnTypeId \in Nat
  BY DEF FunctionSymbols
<1>2. Len(s.argumentTypeIds) \in Nat
  BY <1>1
<1>3. ASSUME NEW i \in 1..Len(s.argumentTypeIds)
      PROVE  Redirect(m, s.argumentTypeIds[i]) \in Nat
  <2>1. s.argumentTypeIds[i] \in Nat
    BY <1>1, <1>3
  <2> QED
    BY <2>1, RedirectTyped
<1>4. [i \in 1..Len(s.argumentTypeIds) |-> Redirect(m, s.argumentTypeIds[i])] \in Seq(Nat)
  BY <1>2, <1>3, IsASeq
<1>5. Redirect(m, s.returnTypeId) \in Nat
  BY <1>1, RedirectTyped
<1> QED
  BY <1>4, <1>5 DEF RedirectFunction, FunctionSymbols

-----------------------------------------------------------------------------
(* Type correctness *)

(* What a processor hands over is well typed. *)
LEMMA TypeCorrectInit == Init => TypeOK
  BY ContentsAssumption, MaxCallsAssumption
  DEF Init, TypeOK, EmptyMap, IsTypeMap, IsFunctionMap, SerializerTypes, PurgeSteps

(* Every step keeps the maps and the locals well typed. *)
LEMMA NextTypeOK == TypeOK /\ [Next]_vars => TypeOK'
<1> SUFFICES ASSUME TypeOK, [Next]_vars
             PROVE  TypeOK'
  OBVIOUS
<1> USE MaxCallsAssumption DEF TypeOK
<1>1. ASSUME NEW type \in SerializerTypes, SetSerializer(type)
      PROVE  TypeOK'
  BY <1>1 DEF SetSerializer, symbolVars, purgeVars, IsTypeMap, IsFunctionMap
<1>2. ASSUME NEW c \in {"client", "Serialize"}, EnterPurge(c),
             calls < MaxCalls, calls' = calls + 1
      PROVE  TypeOK'
  BY <1>2 DEF EnterPurge, symbolVars, outputVars, CurrentImage, EmptyMap,
              IsTypeMap, IsFunctionMap, PurgeSteps
<1>3. CASE CallPurge
  BY <1>2, <1>3 DEF CallPurge
<1>4. CASE SerializeUninitialized
  BY <1>4 DEF SerializeUninitialized, symbolVars, purgeVars, IsTypeMap, IsFunctionMap
<1>5. CASE CallSerialize
  BY <1>2, <1>5 DEF CallSerialize
<1>6. ASSUME NEW id \in TypeIds, HashType(id)
      PROVE  TypeOK'
  <2>1. /\ DOMAIN oldToNew' \subseteq TypeIds
        /\ oldToNew' \in [DOMAIN oldToNew' -> TypeIds]
        /\ hashesToIds' \in [DOMAIN hashesToIds' -> TypeIds]
    <3> DEFINE hash == Hash(typeSymbols[id])
    <3>1. CASE hash \in DOMAIN hashesToIds
      <4>1. oldToNew' = Put(oldToNew, id, hashesToIds[hash]) /\ hashesToIds' = hashesToIds
        BY <1>6, <3>1 DEF HashType
      <4>2. hashesToIds[hash] \in TypeIds
        BY <3>1
      <4>3. /\ oldToNew' \in [DOMAIN oldToNew \cup {id} -> TypeIds]
            /\ DOMAIN oldToNew' = DOMAIN oldToNew \cup {id}
        BY <4>1, <4>2 DEF Put
      <4> QED
        BY <4>1, <4>3
    <3>2. CASE hash \notin DOMAIN hashesToIds
      <4>1. hashesToIds' = Put(hashesToIds, hash, id) /\ oldToNew' = oldToNew
        BY <1>6, <3>2 DEF HashType
      <4> HIDE DEF hash
      <4>2. /\ hashesToIds' \in [DOMAIN hashesToIds \cup {hash} -> TypeIds]
            /\ DOMAIN hashesToIds' = DOMAIN hashesToIds \cup {hash}
        BY <4>1 DEF Put
      <4> QED
        BY <4>1, <4>2
    <3> QED
      BY <3>1, <3>2
  <2> QED
    BY <1>6, <2>1 DEF HashType, symbolVars, outputVars, IsTypeMap, IsFunctionMap
<1>7. CASE RewriteTypes
  <2>1. ASSUME NEW t \in DOMAIN typeSymbols
        PROVE  RedirectType(oldToNew, typeSymbols[t]) \in TypeSymbols(Names)
    <3>1. typeSymbols[t] \in TypeSymbols(Names)
      BY DEF IsTypeMap
    <3> QED
      BY <3>1, RedirectTypeTyped
  <2>2. IsTypeMap(typeSymbols')
    BY <1>7, <2>1 DEF RewriteTypes, IsTypeMap
  <2> QED
    BY <1>7, <2>2 DEF RewriteTypes, purgeVars, outputVars, IsTypeMap, IsFunctionMap,
                      PurgeSteps
<1>8. CASE RewriteFunctions
  <2>1. ASSUME NEW f \in DOMAIN functionSymbols
        PROVE  RedirectFunction(oldToNew, functionSymbols[f]) \in FunctionSymbols(Names)
    <3>1. functionSymbols[f] \in FunctionSymbols(Names)
      BY DEF IsFunctionMap
    <3> QED
      BY <3>1, RedirectFunctionTyped
  <2>2. IsFunctionMap(functionSymbols')
    BY <1>8, <2>1 DEF RewriteFunctions, IsFunctionMap
  <2> QED
    BY <1>8, <2>2 DEF RewriteFunctions, purgeVars, outputVars, IsTypeMap,
                      IsFunctionMap, PurgeSteps
<1>9. CASE EraseDuplicates
  BY <1>9 DEF EraseDuplicates, AfterPurge, purgeVars, outputVars, IsTypeMap, IsFunctionMap
<1>10. CASE VerifyBeforeWriting
  <2>1. VerifyTypeIds(typeSymbols, functionSymbols) \in BOOLEAN
    BY DEF VerifyTypeIds
  <2> QED
    BY <1>10, <2>1 DEF VerifyBeforeWriting, symbolVars, purgeVars, IsTypeMap,
                       IsFunctionMap
<1>11. ASSUME NEW outcome \in Outcomes,
              SerializeToFile(outcome)
       PROVE  TypeOK'
  BY <1>11 DEF SerializeToFile, symbolVars, purgeVars, IsTypeMap, IsFunctionMap
<1>12. CASE UNCHANGED vars
  BY <1>12 DEF vars, symbolVars, purgeVars, outputVars, IsTypeMap, IsFunctionMap
<1> QED
  BY <1>1, <1>3, <1>4, <1>5, <1>6, <1>7, <1>8, <1>9, <1>10, <1>11, <1>12
  DEF Next, ClientStep, CallStep

(* A USYM and the locals of the purge are well typed in every state, for any
   contents a processor hands over (all of USYM.cpp and ISerializer.cpp). *)
THEOREM TypeCorrect == Spec => []TypeOK
  BY TypeCorrectInit, NextTypeOK, PTL DEF Spec

-----------------------------------------------------------------------------
(* The inductive invariant of the purge *)

(* The types the first loop has visited and kept. *)
Kept == (DOMAIN orig.types \ pending) \ DOMAIN oldToNew

(* The locals of the first loop: every visited type is kept or has a kept
   type of its hash as replacement, and hashesToIds is exactly the kept types
   by hash. *)
LoopInv ==
  /\ pending \subseteq DOMAIN orig.types
  /\ DOMAIN oldToNew \subseteq DOMAIN orig.types \ pending
  /\ \A t \in DOMAIN oldToNew :
       oldToNew[t] \in Kept /\ Hash(orig.types[oldToNew[t]]) = Hash(orig.types[t])
  /\ \A h \in DOMAIN hashesToIds :
       hashesToIds[h] \in Kept /\ Hash(orig.types[hashesToIds[h]]) = h
  /\ \A t \in Kept :
       Hash(orig.types[t]) \in DOMAIN hashesToIds /\ hashesToIds[Hash(orig.types[t])] = t

RedirectedTypes(ids) == [t \in ids |-> RedirectType(oldToNew, orig.types[t])]

RedirectedFunctions ==
  [f \in DOMAIN orig.functions |-> RedirectFunction(oldToNew, orig.functions[f])]

(* How far the symbols have been rewritten, by the step the call is at. *)
ProgressInv ==
  /\ caller = "none" =>
       pc = "idle" /\ typeSymbols = orig.types /\ functionSymbols = orig.functions
  /\ pc # "hash" => pending = {}
  /\ pc \in {"hash", "functions"} => functionSymbols = orig.functions
  /\ pc = "hash" => typeSymbols = orig.types
  /\ pc \in {"functions", "erase"} => typeSymbols = RedirectedTypes(DOMAIN orig.types)
  /\ (caller # "none" /\ pc \notin {"hash", "functions"}) =>
       functionSymbols = RedirectedFunctions
  /\ (caller # "none" /\ ~Purging) => typeSymbols = RedirectedTypes(Kept)

PurgeInv ==
  /\ TypeOK
  /\ caller # "none" => LoopInv
  /\ ProgressInv

(* One iteration of the first loop keeps LoopInv. *)
LEMMA HashTypeKeepsLoopInv ==
  ASSUME TypeOK, LoopInv, typeSymbols = orig.types,
         NEW id \in TypeIds, HashType(id)
  PROVE  LoopInv'
<1> DEFINE hash == Hash(orig.types[id])
<1>1. /\ id \in pending
      /\ id \in DOMAIN orig.types
      /\ pending' = pending \ {id}
      /\ orig' = orig
  BY DEF HashType, LoopInv
<1>2. id \notin DOMAIN oldToNew /\ id \notin Kept
  BY <1>1 DEF LoopInv, Kept
<1>3. CASE hash \in DOMAIN hashesToIds
  <2>1. /\ oldToNew' = Put(oldToNew, id, hashesToIds[hash])
        /\ hashesToIds' = hashesToIds
    BY <1>3 DEF HashType
  <2> HIDE DEF hash
  <2>2. /\ DOMAIN oldToNew' = DOMAIN oldToNew \cup {id}
        /\ oldToNew'[id] = hashesToIds[hash]
        /\ \A t \in DOMAIN oldToNew : oldToNew'[t] = oldToNew[t]
    BY <1>2, <2>1 DEF Put
  <2>3. Kept' = Kept
    BY <1>1, <2>2 DEF Kept
  <2>4. hashesToIds[hash] \in Kept /\ Hash(orig.types[hashesToIds[hash]]) = hash
    BY <1>3 DEF LoopInv
  <2>5. \A t \in DOMAIN oldToNew' :
          oldToNew'[t] \in Kept /\ Hash(orig.types[oldToNew'[t]]) = Hash(orig.types[t])
    BY <2>2, <2>4 DEF LoopInv, hash
  <2> QED
    BY <1>1, <2>1, <2>2, <2>3, <2>5 DEF LoopInv
<1>4. CASE hash \notin DOMAIN hashesToIds
  <2>1. /\ hashesToIds' = Put(hashesToIds, hash, id)
        /\ oldToNew' = oldToNew
    BY <1>4 DEF HashType
  <2> HIDE DEF hash
  <2>2. /\ DOMAIN hashesToIds' = DOMAIN hashesToIds \cup {hash}
        /\ hashesToIds'[hash] = id
        /\ \A h \in DOMAIN hashesToIds : hashesToIds'[h] = hashesToIds[h]
    BY <1>4, <2>1 DEF Put
  <2>3. Kept' = Kept \cup {id}
    BY <1>1, <1>2, <2>1 DEF Kept
  <2>4. \A h \in DOMAIN hashesToIds' :
          hashesToIds'[h] \in Kept' /\ Hash(orig.types[hashesToIds'[h]]) = h
    BY <2>2, <2>3 DEF LoopInv, hash
  <2>5. \A t \in Kept' : /\ Hash(orig.types[t]) \in DOMAIN hashesToIds'
                         /\ hashesToIds'[Hash(orig.types[t])] = t
    BY <2>2, <2>3 DEF LoopInv, hash
  <2> QED
    BY <1>1, <2>1, <2>3, <2>4, <2>5 DEF LoopInv
<1> QED
  BY <1>3, <1>4

(* The purge begins with nothing visited and nothing rewritten, whatever the
   maps hold. *)
LEMMA EnterPurgeInv ==
  ASSUME NEW c \in {"client", "Serialize"}, EnterPurge(c), TypeOK'
  PROVE  PurgeInv'
<1>1. /\ pc' = "hash" /\ caller' = c
      /\ oldToNew' = EmptyMap /\ hashesToIds' = EmptyMap
      /\ typeSymbols' = typeSymbols /\ functionSymbols' = functionSymbols
      /\ pending' = DOMAIN typeSymbols
      /\ orig'.types = typeSymbols /\ orig'.functions = functionSymbols
  BY DEF EnterPurge, symbolVars, CurrentImage
<1>2. LoopInv'
  BY <1>1 DEF LoopInv, Kept, EmptyMap
<1>3. ProgressInv'
  BY <1>1 DEF ProgressInv, Purging, PurgeSteps
<1> QED
  BY <1>2, <1>3 DEF PurgeInv

(* Every step of a call keeps the relation. *)
LEMMA NextPurgeInv == PurgeInv /\ TypeOK' /\ [Next]_vars => PurgeInv'
<1> SUFFICES ASSUME PurgeInv, TypeOK', [Next]_vars
             PROVE  (caller' # "none" => LoopInv') /\ ProgressInv'
  BY DEF PurgeInv
<1>0. TypeOK /\ (caller # "none" => LoopInv) /\ ProgressInv
  BY DEF PurgeInv
<1>1. ASSUME UNCHANGED <<symbolVars, purgeVars>>,
             UNCHANGED pc \/ (pc = "verify" /\ pc' = "write")
                          \/ (pc = "write" /\ pc' = "idle")
      PROVE  (caller' # "none" => LoopInv') /\ ProgressInv'
  <2>1. UNCHANGED <<typeSymbols, functionSymbols, caller, oldToNew, hashesToIds,
                    pending, orig>>
    BY <1>1 DEF symbolVars, purgeVars
  <2>2. LoopInv' <=> LoopInv
    BY <2>1 DEF LoopInv, Kept
  <2>3. /\ RedirectedFunctions' = RedirectedFunctions
        /\ RedirectedTypes(DOMAIN orig.types)' = RedirectedTypes(DOMAIN orig.types)
        /\ RedirectedTypes(Kept)' = RedirectedTypes(Kept)
    BY <2>1 DEF RedirectedFunctions, RedirectedTypes, Kept
  <2>4. ProgressInv'
    BY <1>0, <1>1, <2>1, <2>3 DEF ProgressInv, Purging, PurgeSteps
  <2> QED
    BY <1>0, <2>1, <2>2, <2>4
<1>2. ASSUME NEW type \in SerializerTypes, SetSerializer(type)
      PROVE  (caller' # "none" => LoopInv') /\ ProgressInv'
  BY <1>1, <1>2 DEF SetSerializer
<1>3. ASSUME NEW c \in {"client", "Serialize"}, EnterPurge(c)
      PROVE  (caller' # "none" => LoopInv') /\ ProgressInv'
  BY <1>3, EnterPurgeInv DEF PurgeInv
<1>4. CASE CallPurge \/ CallSerialize
  BY <1>3, <1>4 DEF CallPurge, CallSerialize
<1>5. CASE SerializeUninitialized
  BY <1>1, <1>5 DEF SerializeUninitialized
<1>6. ASSUME NEW id \in TypeIds, HashType(id)
      PROVE  (caller' # "none" => LoopInv') /\ ProgressInv'
  <2>1. /\ pc = "hash" /\ pc' = pc /\ caller' = caller /\ orig' = orig
        /\ typeSymbols' = typeSymbols /\ functionSymbols' = functionSymbols
    BY <1>6 DEF HashType, symbolVars
  <2>2. caller # "none" /\ LoopInv /\ typeSymbols = orig.types
    BY <1>0, <2>1 DEF ProgressInv
  <2>3. LoopInv'
    BY <1>0, <1>6, <2>2, HashTypeKeepsLoopInv
  <2>4. ProgressInv'
    BY <1>0, <2>1, <2>2 DEF ProgressInv, Purging, PurgeSteps
  <2> QED
    BY <2>3, <2>4
<1>7. CASE RewriteTypes
  <2>1. /\ pc = "hash" /\ pc' = "functions" /\ functionSymbols' = functionSymbols
        /\ typeSymbols' = [t \in DOMAIN typeSymbols |->
                             RedirectType(oldToNew, typeSymbols[t])]
        /\ pending = {}
        /\ UNCHANGED <<caller, oldToNew, hashesToIds, pending, orig>>
    BY <1>7 DEF RewriteTypes, purgeVars
  <2>2. LoopInv' <=> LoopInv
    BY <2>1 DEF LoopInv, Kept
  <2>3. typeSymbols' = RedirectedTypes(DOMAIN orig.types)'
    BY <1>0, <2>1 DEF ProgressInv, RedirectedTypes
  <2>4. ProgressInv'
    BY <1>0, <2>1, <2>3 DEF ProgressInv, Purging, PurgeSteps
  <2> QED
    BY <1>0, <2>1, <2>2, <2>4
<1>8. CASE RewriteFunctions
  <2>1. /\ pc = "functions" /\ pc' = "erase" /\ typeSymbols' = typeSymbols
        /\ functionSymbols' = [f \in DOMAIN functionSymbols |->
                                 RedirectFunction(oldToNew, functionSymbols[f])]
        /\ UNCHANGED <<caller, oldToNew, hashesToIds, pending, orig>>
    BY <1>8 DEF RewriteFunctions, purgeVars
  <2>2. LoopInv' <=> LoopInv
    BY <2>1 DEF LoopInv, Kept
  <2>3. /\ functionSymbols' = RedirectedFunctions'
        /\ RedirectedTypes(DOMAIN orig.types)' = RedirectedTypes(DOMAIN orig.types)
    BY <1>0, <2>1 DEF ProgressInv, RedirectedFunctions, RedirectedTypes
  <2>4. ProgressInv'
    BY <1>0, <2>1, <2>3 DEF ProgressInv, Purging, PurgeSteps
  <2> QED
    BY <1>0, <2>1, <2>2, <2>4
<1>9. CASE EraseDuplicates
  <2>1. /\ pc = "erase" /\ pc' \in {"verify", "idle"}
        /\ functionSymbols' = functionSymbols
        /\ typeSymbols' = [t \in DOMAIN typeSymbols \ DOMAIN oldToNew |-> typeSymbols[t]]
        /\ UNCHANGED <<caller, oldToNew, hashesToIds, pending, orig>>
    BY <1>9 DEF EraseDuplicates, AfterPurge, purgeVars
  <2>2. LoopInv' <=> LoopInv
    BY <2>1 DEF LoopInv, Kept
  <2>3. pending = {} /\ typeSymbols = RedirectedTypes(DOMAIN orig.types) /\ caller # "none"
    BY <1>0, <2>1 DEF ProgressInv
  <2>4. /\ typeSymbols' = RedirectedTypes(Kept)'
        /\ RedirectedFunctions' = RedirectedFunctions
    BY <2>1, <2>3 DEF RedirectedFunctions, RedirectedTypes, Kept
  <2>5. ProgressInv'
    BY <1>0, <2>1, <2>3, <2>4 DEF ProgressInv, Purging, PurgeSteps
  <2> QED
    BY <1>0, <2>1, <2>2, <2>5
<1>10. CASE VerifyBeforeWriting
  BY <1>1, <1>10 DEF VerifyBeforeWriting
<1>11. ASSUME NEW outcome \in Outcomes,
              SerializeToFile(outcome)
       PROVE  (caller' # "none" => LoopInv') /\ ProgressInv'
  BY <1>1, <1>11 DEF SerializeToFile
<1>12. CASE UNCHANGED vars
  BY <1>1, <1>12 DEF vars
<1> QED
  BY <1>2, <1>4, <1>5, <1>6, <1>7, <1>8, <1>9, <1>10, <1>11, <1>12
  DEF Next, ClientStep, CallStep

(* PurgeDuplicateTypes, called alone or by Serialize, any number of times,
   keeps the relation between the symbols it began with and its locals. *)
THEOREM PurgeInvariant == Spec => []PurgeInv
<1>1. Init => PurgeInv
  <2>1. Init => ProgressInv /\ caller = "none"
    BY DEF Init, ProgressInv, Purging, PurgeSteps
  <2> QED
    BY <2>1, TypeCorrectInit DEF PurgeInv
<1> QED
  BY <1>1, NextPurgeInv, TypeCorrect, PTL DEF Spec

-----------------------------------------------------------------------------
(* What the invariant says about references *)

(* Once the first loop is done, a redirected id that named a type names a
   kept type of the same hash; any other id is untouched. *)
LEMMA RedirectedTarget ==
  ASSUME LoopInv, pending = {}, NEW id
  PROVE  /\ id \in DOMAIN orig.types =>
              /\ Redirect(oldToNew, id) \in Kept
              /\ Hash(orig.types[Redirect(oldToNew, id)]) = Hash(orig.types[id])
         /\ id \notin DOMAIN orig.types => Redirect(oldToNew, id) = id
  BY DEF LoopInv, Kept, Redirect

(* The references of a redirected symbol are the redirected references. *)
LEMMA RedirectTypeParts ==
  ASSUME NEW m, NEW s \in TypeSymbols(Names)
  PROVE  LET r == RedirectType(m, s) IN
         /\ r.typedefSource = Redirect(m, s.typedefSource)
         /\ r.name = s.name /\ r.type = s.type
         /\ s.fields \in Seq(FieldSymbols(Names))
         /\ Len(r.fields) = Len(s.fields)
         /\ DOMAIN r.fields = 1..Len(s.fields)
         /\ \A i \in 1..Len(s.fields) :
              r.fields[i].underlyingTypeId = Redirect(m, s.fields[i].underlyingTypeId)
<1> DEFINE F == [i \in 1..Len(s.fields) |->
                   [s.fields[i] EXCEPT !.underlyingTypeId =
                      Redirect(m, s.fields[i].underlyingTypeId)]]
<1>1. s.fields \in Seq(FieldSymbols(Names))
  BY DEF TypeSymbols
<1>2. Len(s.fields) \in Nat
  BY <1>1
<1>3. Len(F) = Len(s.fields) /\ DOMAIN F = 1..Len(s.fields)
  BY <1>2
<1>4. ASSUME NEW i \in 1..Len(s.fields)
      PROVE  F[i].underlyingTypeId = Redirect(m, s.fields[i].underlyingTypeId)
  <2>1. s.fields[i] \in FieldSymbols(Names)
    BY <1>1, <1>4
  <2> QED
    BY <2>1 DEF FieldSymbols
<1>5. /\ RedirectType(m, s).fields = F
      /\ RedirectType(m, s).typedefSource = Redirect(m, s.typedefSource)
      /\ RedirectType(m, s).name = s.name
      /\ RedirectType(m, s).type = s.type
  BY DEF RedirectType, TypeSymbols
<1> HIDE DEF F
<1> QED
  BY <1>1, <1>3, <1>4, <1>5

(* The same for a function symbol. *)
LEMMA RedirectFunctionParts ==
  ASSUME NEW m, NEW s \in FunctionSymbols(Names)
  PROVE  LET r == RedirectFunction(m, s) IN
         /\ r.returnTypeId = Redirect(m, s.returnTypeId)
         /\ s.argumentTypeIds \in Seq(Nat)
         /\ Len(r.argumentTypeIds) = Len(s.argumentTypeIds)
         /\ DOMAIN r.argumentTypeIds = 1..Len(s.argumentTypeIds)
         /\ \A i \in 1..Len(s.argumentTypeIds) :
              r.argumentTypeIds[i] = Redirect(m, s.argumentTypeIds[i])
<1> DEFINE F == [i \in 1..Len(s.argumentTypeIds) |-> Redirect(m, s.argumentTypeIds[i])]
<1>1. s.argumentTypeIds \in Seq(Nat)
  BY DEF FunctionSymbols
<1>2. Len(s.argumentTypeIds) \in Nat
  BY <1>1
<1>3. Len(F) = Len(s.argumentTypeIds) /\ DOMAIN F = 1..Len(s.argumentTypeIds)
  BY <1>2
<1>4. /\ RedirectFunction(m, s).argumentTypeIds = F
      /\ RedirectFunction(m, s).returnTypeId = Redirect(m, s.returnTypeId)
  BY DEF RedirectFunction, FunctionSymbols
<1> QED
  BY <1>1, <1>3, <1>4

(* Outside the purge every reference leads where it led. *)
LEMMA PurgeInvPreserves == PurgeInv => ReferencesPreserved
<1> SUFFICES ASSUME PurgeInv, ~Purging
             PROVE  ReferencesPreserved
  BY DEF ReferencesPreserved
<1>0. TypeOK /\ ProgressInv /\ (caller # "none" => LoopInv)
  BY DEF PurgeInv
<1>1. CASE caller = "none"
  <2>1. typeSymbols = orig.types /\ functionSymbols = orig.functions
    BY <1>0, <1>1 DEF ProgressInv
  <2>2. \A id : SameTarget(id, id)
    BY <2>1 DEF SameTarget
  <2> QED
    BY <2>1, <2>2 DEF ReferencesPreserved
<1>2. CASE caller # "none"
  <2>1. /\ LoopInv /\ pending = {}
        /\ typeSymbols = RedirectedTypes(Kept)
        /\ functionSymbols = RedirectedFunctions
    BY <1>0, <1>2 DEF ProgressInv, Purging, PurgeSteps
  <2>2. DOMAIN typeSymbols = Kept /\ Kept \subseteq DOMAIN orig.types
    BY <2>1 DEF RedirectedTypes, Kept
  <2>3. ASSUME NEW id
        PROVE  SameTarget(id, Redirect(oldToNew, id))
    BY <2>1, <2>2, RedirectedTarget DEF SameTarget
  <2>4. ASSUME NEW t \in DOMAIN typeSymbols
        PROVE  /\ t \in DOMAIN orig.types
               /\ SameTarget(orig.types[t].typedefSource, typeSymbols[t].typedefSource)
               /\ Len(typeSymbols[t].fields) = Len(orig.types[t].fields)
               /\ \A i \in DOMAIN typeSymbols[t].fields :
                    SameTarget(orig.types[t].fields[i].underlyingTypeId,
                               typeSymbols[t].fields[i].underlyingTypeId)
    <3>1. t \in DOMAIN orig.types /\ orig.types[t] \in TypeSymbols(Names)
      BY <1>0, <2>2 DEF TypeOK, IsTypeMap
    <3>2. typeSymbols[t] = RedirectType(oldToNew, orig.types[t])
      BY <2>1, <2>2 DEF RedirectedTypes
    <3> QED
      BY <2>3, <3>1, <3>2, RedirectTypeParts
  <2>5. ASSUME NEW f \in DOMAIN functionSymbols
        PROVE  /\ SameTarget(orig.functions[f].returnTypeId, functionSymbols[f].returnTypeId)
               /\ Len(functionSymbols[f].argumentTypeIds) = Len(orig.functions[f].argumentTypeIds)
               /\ \A i \in DOMAIN functionSymbols[f].argumentTypeIds :
                    SameTarget(orig.functions[f].argumentTypeIds[i],
                               functionSymbols[f].argumentTypeIds[i])
    <3>1. f \in DOMAIN orig.functions /\ orig.functions[f] \in FunctionSymbols(Names)
      BY <1>0, <2>1 DEF TypeOK, IsFunctionMap, RedirectedFunctions
    <3>2. functionSymbols[f] = RedirectFunction(oldToNew, orig.functions[f])
      BY <2>1, <3>1 DEF RedirectedFunctions
    <3> QED
      BY <2>3, <3>1, <3>2, RedirectFunctionParts
  <2>6. DOMAIN functionSymbols = DOMAIN orig.functions
    BY <2>1 DEF RedirectedFunctions
  <2> QED
    BY <2>4, <2>5, <2>6 DEF ReferencesPreserved
<1> QED
  BY <1>1, <1>2

(* The purge never breaks or misdirects a reference, for any contents and any
   order the map of types is walked in. *)
THEOREM ReferencesArePreserved == Spec => []ReferencesPreserved
  BY PurgeInvPreserves, PurgeInvariant, PTL

(* How many types survive, and for which hashes, is fixed by the contents:
   one per hash, whatever the iteration order (first loop and erasure). *)
THEOREM OneTypeIsKeptPerHash == Spec => []OneTypePerHash
<1>1. PurgeInv => OneTypePerHash
  <2> SUFFICES ASSUME PurgeInv, ~Purging, caller # "none",
                      NEW t \in DOMAIN orig.types
               PROVE  \E s \in DOMAIN typeSymbols :
                        /\ Hash(orig.types[s]) = Hash(orig.types[t])
                        /\ \A r \in DOMAIN typeSymbols :
                             Hash(orig.types[r]) = Hash(orig.types[t]) => r = s
    BY DEF OneTypePerHash
  <2>1. LoopInv /\ pending = {} /\ typeSymbols = RedirectedTypes(Kept)
    BY DEF PurgeInv, ProgressInv, Purging, PurgeSteps
  <2>2. DOMAIN typeSymbols = Kept
    BY <2>1 DEF RedirectedTypes
  <2>3. /\ Redirect(oldToNew, t) \in Kept
        /\ Hash(orig.types[Redirect(oldToNew, t)]) = Hash(orig.types[t])
    BY <2>1, RedirectedTarget
  <2>4. \A r, s \in Kept : Hash(orig.types[r]) = Hash(orig.types[s]) => r = s
    BY <2>1 DEF LoopInv
  <2> QED
    BY <2>2, <2>3, <2>4
<1> QED
  BY <1>1, PurgeInvariant, PTL

(* VerifyTypeIds, once true, stays true through the purge: the test
   VerifyTypeIdsAfterPurge for any contents. *)
THEOREM PurgeKeepsTypeIdsVerified == Spec => []PurgeKeepsVerified
<1>1. PurgeInv => PurgeKeepsVerified
  <2> SUFFICES ASSUME PurgeInv, ~Purging, VerifyTypeIds(orig.types, orig.functions)
               PROVE  VerifyTypeIds(typeSymbols, functionSymbols)
    BY DEF PurgeKeepsVerified
  <2>0. TypeOK /\ ProgressInv /\ (caller # "none" => LoopInv)
    BY DEF PurgeInv
  <2>1. CASE caller = "none"
    BY <2>0, <2>1 DEF ProgressInv
  <2>2. CASE caller # "none"
    <3>1. /\ LoopInv /\ pending = {}
          /\ typeSymbols = RedirectedTypes(Kept)
          /\ functionSymbols = RedirectedFunctions
      BY <2>0, <2>2 DEF ProgressInv, Purging, PurgeSteps
    <3>2. DOMAIN typeSymbols = Kept /\ Kept \subseteq DOMAIN orig.types
      BY <3>1 DEF RedirectedTypes, Kept
    <3>3. ASSUME NEW id \in DOMAIN orig.types \cup {0}
          PROVE  Redirect(oldToNew, id) \in DOMAIN typeSymbols \cup {0}
      BY <3>1, <3>2, RedirectedTarget
    <3>4. ASSUME NEW t \in DOMAIN typeSymbols
          PROVE  TypeReferences(typeSymbols[t]) \subseteq DOMAIN typeSymbols \cup {0}
      <4>1. t \in DOMAIN orig.types /\ orig.types[t] \in TypeSymbols(Names)
        BY <2>0, <3>2 DEF TypeOK, IsTypeMap
      <4>2. typeSymbols[t] = RedirectType(oldToNew, orig.types[t])
        BY <3>1, <3>2 DEF RedirectedTypes
      <4>3. /\ orig.types[t].typedefSource \in DOMAIN orig.types \cup {0}
            /\ \A i \in DOMAIN orig.types[t].fields :
                 orig.types[t].fields[i].underlyingTypeId \in DOMAIN orig.types \cup {0}
        BY <4>1 DEF VerifyTypeIds, TypeReferences
      <4>4. DOMAIN orig.types[t].fields = 1..Len(orig.types[t].fields)
        BY <4>1, RedirectTypeParts
      <4>5. /\ typeSymbols[t].typedefSource = Redirect(oldToNew, orig.types[t].typedefSource)
            /\ DOMAIN typeSymbols[t].fields = DOMAIN orig.types[t].fields
            /\ \A i \in DOMAIN orig.types[t].fields :
                 typeSymbols[t].fields[i].underlyingTypeId =
                   Redirect(oldToNew, orig.types[t].fields[i].underlyingTypeId)
        BY <4>1, <4>2, <4>4, RedirectTypeParts
      <4> QED
        BY <3>3, <4>3, <4>5 DEF TypeReferences
    <3>5. ASSUME NEW f \in DOMAIN functionSymbols
          PROVE  FunctionReferences(functionSymbols[f]) \subseteq DOMAIN typeSymbols \cup {0}
      <4>1. f \in DOMAIN orig.functions /\ orig.functions[f] \in FunctionSymbols(Names)
        BY <2>0, <3>1 DEF TypeOK, IsFunctionMap, RedirectedFunctions
      <4>2. functionSymbols[f] = RedirectFunction(oldToNew, orig.functions[f])
        BY <3>1, <4>1 DEF RedirectedFunctions
      <4>3. /\ orig.functions[f].returnTypeId \in DOMAIN orig.types \cup {0}
            /\ \A i \in DOMAIN orig.functions[f].argumentTypeIds :
                 orig.functions[f].argumentTypeIds[i] \in DOMAIN orig.types \cup {0}
        BY <4>1 DEF VerifyTypeIds, FunctionReferences
      <4>4. DOMAIN orig.functions[f].argumentTypeIds = 1..Len(orig.functions[f].argumentTypeIds)
        BY <4>1, RedirectFunctionParts
      <4>5. /\ functionSymbols[f].returnTypeId = Redirect(oldToNew, orig.functions[f].returnTypeId)
            /\ DOMAIN functionSymbols[f].argumentTypeIds = DOMAIN orig.functions[f].argumentTypeIds
            /\ \A i \in DOMAIN orig.functions[f].argumentTypeIds :
                 functionSymbols[f].argumentTypeIds[i] =
                   Redirect(oldToNew, orig.functions[f].argumentTypeIds[i])
        BY <4>1, <4>2, <4>4, RedirectFunctionParts
      <4> QED
        BY <3>3, <4>3, <4>5 DEF FunctionReferences
    <3> QED
      BY <3>4, <3>5 DEF VerifyTypeIds
  <2> QED
    BY <2>1, <2>2
<1> QED
  BY <1>1, PurgeInvariant, PTL

-----------------------------------------------------------------------------
(* Names *)

(* A concatenation, entry by entry. *)
LEMMA HeadThenTail ==
  ASSUME NEW S, NEW head \in Seq(S), NEW tail \in Seq(S)
  PROVE  /\ DOMAIN (head \o tail) = 1..(Len(head) + Len(tail))
         /\ \A i \in 1..(Len(head) + Len(tail)) :
              (head \o tail)[i] = IF i <= Len(head) THEN head[i] ELSE tail[i - Len(head)]
  BY ConcatProperties, LenProperties

(* The name is the one string among the inputs of the hash. *)
LEMMA NameIsHashInput ==
  ASSUME NEW s \in TypeSymbols(Names)
  PROVE  /\ 3 \in DOMAIN HashInputs(s)
         /\ \A i \in DOMAIN HashInputs(s) : \A name :
              HashInputs(s)[i] = <<"string", name>> <=> i = 3 /\ name = s.name
<1> DEFINE head == << <<"uint64_t", s.length>>, <<"uint64_t", s.fieldCount>>,
                      <<"string", s.name>> >>
           tail == [i \in 1..Len(s.fields) |->
                      <<"uint32_t", s.fields[i].underlyingTypeId>>]
           S == {"uint64_t", "uint32_t", "string"} \X (Nat \cup Names)
<1>1. /\ s.fields \in Seq(FieldSymbols(Names)) /\ s.name \in Names
      /\ s.length \in Nat /\ s.fieldCount \in Nat
  BY DEF TypeSymbols
<1>2. Len(s.fields) \in Nat
  BY <1>1
<1>3. ASSUME NEW i \in 1..Len(s.fields)
      PROVE  <<"uint32_t", s.fields[i].underlyingTypeId>> \in S
  <2>1. s.fields[i] \in FieldSymbols(Names)
    BY <1>1, <1>3
  <2>2. s.fields[i].underlyingTypeId \in Nat
    BY <2>1 DEF FieldSymbols
  <2> QED
    BY <2>2
<1>4. head \in Seq(S) /\ Len(head) = 3
  <2>1. /\ <<"uint64_t", s.length>> \in S
        /\ <<"uint64_t", s.fieldCount>> \in S
        /\ <<"string", s.name>> \in S
    BY <1>1
  <2> HIDE DEF S
  <2> QED
    BY <2>1
<1>5. tail \in Seq(S) /\ Len(tail) = Len(s.fields)
  <2> HIDE DEF S
  <2>1. tail \in Seq(S)
    BY <1>2, <1>3, IsASeq
  <2> QED
    BY <1>2, <2>1
<1>6. HashInputs(s) = head \o tail
  BY DEF HashInputs
<1>7. /\ DOMAIN (head \o tail) = 1..(3 + Len(s.fields))
      /\ \A i \in 1..(3 + Len(s.fields)) :
           (head \o tail)[i] = IF i <= 3 THEN head[i] ELSE tail[i - 3]
  BY <1>2, <1>4, <1>5, HeadThenTail
<1>8. ASSUME NEW i \in 1..(3 + Len(s.fields)), NEW name
      PROVE  (head \o tail)[i] = <<"string", name>> <=> i = 3 /\ name = s.name
  <2>1. CASE i \in {1, 2}
    <3>1. (head \o tail)[i][1] = "uint64_t"
      BY <1>7, <2>1
    <3> QED
      BY <2>1, <3>1
  <2>2. CASE i = 3
    <3>1. (head \o tail)[i] = <<"string", s.name>>
      BY <1>7, <2>2
    <3> QED
      BY <2>2, <3>1
  <2>3. CASE i > 3
    <3>1. (head \o tail)[i] = <<"uint32_t", s.fields[i - 3].underlyingTypeId>>
      BY <1>2, <1>7, <2>3
    <3> QED
      BY <2>3, <3>1
  <2> QED
    BY <1>2, <2>1, <2>2, <2>3
<1> HIDE DEF head, tail
<1>9. DOMAIN HashInputs(s) = 1..(3 + Len(s.fields))
  BY <1>6, <1>7
<1>10. 3 \in DOMAIN HashInputs(s)
  BY <1>2, <1>9
<1> QED
  BY <1>6, <1>8, <1>9, <1>10

(* Types of one hash have one name: nothing can cancel the name. *)
LEMMA HashDeterminesName ==
  ASSUME NEW s \in TypeSymbols(Names), NEW t \in TypeSymbols(Names), Hash(s) = Hash(t)
  PROVE  s.name = t.name
<1> DEFINE x == <<"string", s.name>>
<1>1. x \in Hash(s)
  <2> DEFINE inputs == HashInputs(s)
             occurrences == {i \in DOMAIN inputs : inputs[i] = x}
  <2>1. occurrences = {3} /\ inputs[3] = x /\ 3 \in DOMAIN inputs
    BY NameIsHashInput
  <2>2. Cardinality(occurrences) = 1
    BY <2>1, FS_Singleton
  <2> QED
    BY <2>1, <2>2 DEF Hash
<1>2. PICK i \in DOMAIN HashInputs(t) : HashInputs(t)[i] = x
  BY <1>1 DEF Hash
<1> QED
  BY <1>2, NameIsHashInput

(* A name that a type had before the purge is still some type's name after
   it, and no new one appears (hash<TypeSymbol>, first loop and erasure). *)
THEOREM NamesAreKept == Spec => []NamesSurvive
<1>1. PurgeInv => NamesSurvive
  <2> SUFFICES ASSUME PurgeInv, ~Purging
               PROVE  TypeNames(typeSymbols) = TypeNames(orig.types)
    BY DEF NamesSurvive
  <2>0. TypeOK /\ ProgressInv /\ (caller # "none" => LoopInv)
    BY DEF PurgeInv
  <2>1. CASE caller = "none"
    BY <2>0, <2>1 DEF ProgressInv
  <2>2. CASE caller # "none"
    <3>1. LoopInv /\ pending = {} /\ typeSymbols = RedirectedTypes(Kept)
      BY <2>0, <2>2 DEF ProgressInv, Purging, PurgeSteps
    <3>2. DOMAIN typeSymbols = Kept /\ Kept \subseteq DOMAIN orig.types
      BY <3>1 DEF RedirectedTypes, Kept
    <3>3. \A t \in DOMAIN orig.types : orig.types[t] \in TypeSymbols(Names)
      BY <2>0 DEF TypeOK, IsTypeMap
    <3>4. ASSUME NEW t \in Kept
          PROVE  typeSymbols[t].name = orig.types[t].name
      <4>1. typeSymbols[t] = RedirectType(oldToNew, orig.types[t])
        BY <3>1 DEF RedirectedTypes
      <4> QED
        BY <3>2, <3>3, <4>1, RedirectTypeParts
    <3>5. ASSUME NEW t \in DOMAIN orig.types
          PROVE  \E k \in Kept : orig.types[k].name = orig.types[t].name
      <4>1. /\ Redirect(oldToNew, t) \in Kept
            /\ Hash(orig.types[Redirect(oldToNew, t)]) = Hash(orig.types[t])
        BY <3>1, RedirectedTarget
      <4> QED
        BY <3>2, <3>3, <4>1, HashDeterminesName
    <3> QED
      BY <3>2, <3>4, <3>5 DEF TypeNames
  <2> QED
    BY <2>1, <2>2
<1> QED
  BY <1>1, PurgeInvariant, PTL

(* A type that is left is what it was, and a reference leads to a type of the
   name it led to. *)
LEMMA AfterThePurge ==
  ASSUME PurgeInv, ~Purging, caller # "none"
  PROVE  /\ \A t \in DOMAIN typeSymbols :
              /\ t \in DOMAIN orig.types
              /\ typeSymbols[t].name = orig.types[t].name
              /\ typeSymbols[t].type = orig.types[t].type
         /\ \A old \in DOMAIN orig.types : \A new :
              SameTarget(old, new) =>
                new \in DOMAIN typeSymbols /\ orig.types[new].name = orig.types[old].name
         /\ \A old \in DOMAIN orig.types : SameTarget(old, Redirect(oldToNew, old))
<1>1. /\ TypeOK /\ LoopInv /\ pending = {} /\ typeSymbols = RedirectedTypes(Kept)
  BY DEF PurgeInv, ProgressInv, Purging, PurgeSteps
<1>2. DOMAIN typeSymbols = Kept /\ Kept \subseteq DOMAIN orig.types
  BY <1>1 DEF RedirectedTypes, Kept
<1>3. \A t \in DOMAIN orig.types : orig.types[t] \in TypeSymbols(Names)
  BY <1>1 DEF TypeOK, IsTypeMap
<1>4. ASSUME NEW t \in DOMAIN typeSymbols
      PROVE  /\ t \in DOMAIN orig.types
             /\ typeSymbols[t].name = orig.types[t].name
             /\ typeSymbols[t].type = orig.types[t].type
  <2>1. typeSymbols[t] = RedirectType(oldToNew, orig.types[t])
    BY <1>1, <1>2 DEF RedirectedTypes
  <2>. QED
    BY <1>2, <1>3, <2>1, RedirectTypeParts
<1>5. ASSUME NEW old \in DOMAIN orig.types, NEW new, SameTarget(old, new)
      PROVE  new \in DOMAIN typeSymbols /\ orig.types[new].name = orig.types[old].name
  <2>1. new \in DOMAIN typeSymbols /\ Hash(orig.types[new]) = Hash(orig.types[old])
    BY <1>5 DEF SameTarget
  <2>. QED
    BY <1>2, <1>3, <2>1, HashDeterminesName
<1>6. ASSUME NEW old \in DOMAIN orig.types
      PROVE  SameTarget(old, Redirect(oldToNew, old))
  BY <1>1, <1>2, RedirectedTarget DEF SameTarget
<1>. QED
  BY <1>4, <1>5, <1>6

-----------------------------------------------------------------------------
(* Refinement *)

(* Redirection depends only on where each id is sent. *)
LEMMA RedirectAlike ==
  ASSUME NEW m, NEW n, \A id : Redirect(m, id) = Redirect(n, id), NEW s
  PROVE  /\ RedirectType(m, s) = RedirectType(n, s)
         /\ RedirectFunction(m, s) = RedirectFunction(n, s)
<1> DEFINE F(k) == [i \in 1..Len(s.fields) |->
                      [s.fields[i] EXCEPT !.underlyingTypeId =
                         Redirect(k, s.fields[i].underlyingTypeId)]]
           A(k) == [i \in 1..Len(s.argumentTypeIds) |->
                      Redirect(k, s.argumentTypeIds[i])]
<1>1. F(m) = F(n) /\ A(m) = A(n)
  OBVIOUS
<1>2. \A k : RedirectType(k, s) =
        [s EXCEPT !.typedefSource = Redirect(k, s.typedefSource), !.fields = F(k)]
  BY DEF RedirectType
<1>3. \A k : RedirectFunction(k, s) =
        [s EXCEPT !.returnTypeId = Redirect(k, s.returnTypeId), !.argumentTypeIds = A(k)]
  BY DEF RedirectFunction
<1> HIDE DEF F, A
<1>4. RedirectType(m, s) = RedirectType(n, s)
  BY <1>1, <1>2, Zenon
<1>5. RedirectFunction(m, s) = RedirectFunction(n, s)
  BY <1>1, <1>3, Zenon
<1> QED
  BY <1>4, <1>5

(* Dedup and USYM speak of the same hash and the same redirection. *)
LEMMA SameHelpers ==
  /\ \A s : Abstract!Hash(s) = Hash(s)
  /\ \A m, s : Abstract!RedirectType(m, s) = RedirectType(m, s)
  /\ \A m, s : Abstract!RedirectFunction(m, s) = RedirectFunction(m, s)
<1>1. \A s : Abstract!Hash(s) = Hash(s)
  <2>1. \A s : Abstract!HashInputs(s) = HashInputs(s)
    BY Zenon DEF Abstract!HashInputs, HashInputs
  <2>2. \A S : Abstract!Cardinality(S) = Cardinality(S)
    BY Zenon DEF Abstract!Cardinality, Cardinality
  <2> QED
    BY <2>1, <2>2 DEF Abstract!Hash, Hash
<1>2. \A m, s : Abstract!RedirectType(m, s) = RedirectType(m, s)
  BY Zenon DEF Abstract!RedirectType, RedirectType, Abstract!Redirect, Redirect
<1>3. \A m, s : Abstract!RedirectFunction(m, s) = RedirectFunction(m, s)
  BY Zenon DEF Abstract!RedirectFunction, RedirectFunction, Abstract!Redirect, Redirect
<1> QED
  BY <1>1, <1>2, <1>3

(* The erasure completes one RemoveDuplicates step of Dedup. *)
LEMMA EraseIsRemoveDuplicates ==
  ASSUME PurgeInv, PurgeInv', EraseDuplicates
  PROVE  Abstract!RemoveDuplicates
<1> DEFINE rep == [t \in DOMAIN orig.types |-> Redirect(oldToNew, t)]
<1>1. /\ pc = "erase" /\ pc' \in {"verify", "idle"}
      /\ UNCHANGED <<caller, oldToNew, hashesToIds, pending, orig>>
  BY DEF EraseDuplicates, AfterPurge, purgeVars
<1>2. LoopInv /\ pending = {} /\ caller # "none"
  BY <1>1 DEF PurgeInv, ProgressInv
<1>3. /\ VisibleTypes = orig.types
      /\ VisibleFunctions = orig.functions
      /\ VisibleTypes' = RedirectedTypes(Kept)
      /\ VisibleFunctions' = RedirectedFunctions
  <2>1. Purging /\ ~Purging'
    BY <1>1 DEF Purging, PurgeSteps
  <2>2. typeSymbols' = RedirectedTypes(Kept)' /\ functionSymbols' = RedirectedFunctions'
    BY <1>1, <1>2, <2>1 DEF PurgeInv, ProgressInv
  <2>3. RedirectedTypes(Kept)' = RedirectedTypes(Kept) /\ RedirectedFunctions' = RedirectedFunctions
    BY <1>1 DEF RedirectedTypes, RedirectedFunctions, Kept
  <2> QED
    BY <2>1, <2>2, <2>3 DEF VisibleTypes, VisibleFunctions
<1>4. \A t \in DOMAIN orig.types :
        rep[t] \in Kept /\ Hash(orig.types[rep[t]]) = Hash(orig.types[t])
  BY <1>2, RedirectedTarget
<1>5. rep \in [DOMAIN orig.types -> DOMAIN orig.types]
  BY <1>4 DEF Kept
<1>6. \A s, t \in Kept : Hash(orig.types[s]) = Hash(orig.types[t]) => s = t
  BY <1>2 DEF LoopInv
<1>7. \A s, t \in DOMAIN orig.types :
        Hash(orig.types[s]) = Hash(orig.types[t]) => rep[s] = rep[t]
  <2> SUFFICES ASSUME NEW s \in DOMAIN orig.types, NEW t \in DOMAIN orig.types,
                      Hash(orig.types[s]) = Hash(orig.types[t])
               PROVE  rep[s] = rep[t]
    OBVIOUS
  <2> HIDE DEF rep
  <2> QED
    BY <1>4, <1>6
<1>8. {rep[s] : s \in DOMAIN orig.types} = Kept
  <2>1. \A t \in Kept : t \in DOMAIN orig.types /\ rep[t] = t
    BY DEF Kept, Redirect
  <2> QED
    BY <1>4, <2>1
<1>9. \A id : Redirect(rep, id) = Redirect(oldToNew, id)
  BY <1>2 DEF Redirect, LoopInv
<1>10. Abstract!IsRepresentation(rep)
  BY <1>3, <1>4, <1>7, SameHelpers DEF Abstract!IsRepresentation
<1>11. VisibleTypes' = [t \in {rep[s] : s \in DOMAIN VisibleTypes} |->
                          RedirectType(rep, VisibleTypes[t])]
  <2>1. \A s : RedirectType(rep, s) = RedirectType(oldToNew, s)
    BY <1>9, RedirectAlike
  <2> HIDE DEF rep
  <2> QED
    BY <1>3, <1>8, <2>1 DEF RedirectedTypes
<1>12. VisibleFunctions' = [f \in DOMAIN VisibleFunctions |->
                              RedirectFunction(rep, VisibleFunctions[f])]
  <2>1. \A s : RedirectFunction(rep, s) = RedirectFunction(oldToNew, s)
    BY <1>9, RedirectAlike
  <2> HIDE DEF rep
  <2> QED
    BY <1>3, <2>1 DEF RedirectedFunctions
<1> HIDE DEF rep
<1> QED
  BY <1>3, <1>5, <1>10, <1>11, <1>12, SameHelpers DEF Abstract!RemoveDuplicates

(* PurgeDuplicateTypes implements Dedup: its loops, in whatever order they
   visit the map, amount to one choice of a representative per hash, and no
   other operation of a USYM changes its symbols. *)
THEOREM PurgeImplementsDedup == Spec => ImplementsDedup
<1>1. Init => Abstract!Init
  BY DEF Init, Abstract!Init, VisibleTypes, VisibleFunctions, Purging, PurgeSteps
<1>2. PurgeInv /\ PurgeInv' /\ [Next]_vars
        => [Abstract!RemoveDuplicates]_<<VisibleTypes, VisibleFunctions>>
  <2> SUFFICES ASSUME PurgeInv, PurgeInv', [Next]_vars
               PROVE  Abstract!RemoveDuplicates
                      \/ UNCHANGED <<VisibleTypes, VisibleFunctions>>
    OBVIOUS
  <2> USE DEF VisibleTypes, VisibleFunctions, Purging, PurgeSteps, symbolVars, purgeVars
  <2>1. ASSUME NEW type \in SerializerTypes, SetSerializer(type)
        PROVE  UNCHANGED <<VisibleTypes, VisibleFunctions>>
    BY <2>1 DEF SetSerializer
  <2>2. ASSUME pc = "idle", NEW c, EnterPurge(c)
        PROVE  UNCHANGED <<VisibleTypes, VisibleFunctions>>
    BY <2>2 DEF EnterPurge, CurrentImage
  <2>3. CASE CallPurge \/ CallSerialize
    BY <2>2, <2>3 DEF CallPurge, CallSerialize
  <2>4. CASE SerializeUninitialized
    BY <2>4 DEF SerializeUninitialized
  <2>5. ASSUME NEW id \in TypeIds, HashType(id)
        PROVE  UNCHANGED <<VisibleTypes, VisibleFunctions>>
    BY <2>5 DEF HashType
  <2>6. CASE RewriteTypes
    BY <2>6 DEF RewriteTypes
  <2>7. CASE RewriteFunctions
    BY <2>7 DEF RewriteFunctions
  <2>8. CASE EraseDuplicates
    BY <2>8, EraseIsRemoveDuplicates
  <2>9. CASE VerifyBeforeWriting
    BY <2>9 DEF VerifyBeforeWriting
  <2>10. ASSUME NEW outcome \in Outcomes,
                SerializeToFile(outcome)
         PROVE  UNCHANGED <<VisibleTypes, VisibleFunctions>>
    BY <2>10 DEF SerializeToFile
  <2>11. CASE UNCHANGED vars
    BY <2>11 DEF vars
  <2> QED
    BY <2>1, <2>3, <2>4, <2>5, <2>6, <2>7, <2>8, <2>9, <2>10, <2>11
    DEF Next, ClientStep, CallStep
<1> QED
  BY <1>1, <1>2, PurgeInvariant, PTL DEF Spec, ImplementsDedup, Abstract!Spec
-----------------------------------------------------------------------------
(* What is written *)

Images ==
  [types : UNION {[D -> TypeSymbols(Names)] : D \in SUBSET TypeIds},
   functions : UNION {[D -> FunctionSymbols(Names)] : D \in SUBSET FunctionIds}]

(* A Serialize that has begun has a serializer, and the serializer holds a
   sequence of images. *)
OutputInv ==
  /\ (pc # "idle" /\ caller = "Serialize") \/ pc \in {"verify", "write"} =>
       serializer # "none"
  /\ buffer \in Seq(Images)
  /\ DOMAIN file = SerializerTypes
  /\ file = [s \in SerializerTypes |-> file[s]]

(* The symbols of the object are an image. *)
LEMMA CurrentImageTyped == TypeOK => CurrentImage \in Images
  BY DEF TypeOK, IsTypeMap, IsFunctionMap, CurrentImage, Images

(* What the serializer holds ends with the current symbols, and a json
   document holds nothing else. *)
LEMMA ExtendEndsWithImage ==
  ASSUME TypeOK, OutputInv
  PROVE  /\ Extend(buffer) \in Seq(Images)
         /\ Extend(buffer)[Len(Extend(buffer))] = CurrentImage
         /\ serializer = "kJson" => Len(Extend(buffer)) = 1
<1>1. CurrentImage \in Images /\ buffer \in Seq(Images)
  BY CurrentImageTyped DEF OutputInv
<1>. DEFINE image == CurrentImage
<1>. HIDE DEF image
<1>2. image \in Images
  BY <1>1 DEF image
<1>3. /\ <<image>> \in Seq(Images)
      /\ Len(<<image>>) = 1 /\ <<image>>[1] = image
  BY <1>2
<1>4. /\ Append(buffer, image) \in Seq(Images)
      /\ Len(Append(buffer, image)) = Len(buffer) + 1
      /\ Append(buffer, image)[Len(buffer) + 1] = image
  BY <1>1, <1>2, AppendProperties
<1>5. Extend(buffer) = IF serializer = "kJson" THEN <<image>> ELSE Append(buffer, image)
  BY DEF Extend, image
<1>6. CASE serializer = "kJson"
  <2>1. Extend(buffer) = <<image>>
    BY <1>5, <1>6
  <2>. QED
    BY <1>3, <2>1 DEF image
<1>7. CASE serializer # "kJson"
  <2>1. Extend(buffer) = Append(buffer, image)
    BY <1>5, <1>7
  <2>. QED
    BY <1>4, <1>7, <2>1 DEF image
<1>. QED
  BY <1>6, <1>7

(* Every step keeps the serializer and its buffer in order. *)
LEMMA NextOutputInv == TypeOK /\ OutputInv /\ [Next]_vars => OutputInv'
<1>. SUFFICES ASSUME TypeOK, OutputInv, [Next]_vars
              PROVE  OutputInv'
  OBVIOUS
<1>1. ASSUME NEW type \in SerializerTypes, SetSerializer(type)
      PROVE  OutputInv'
  BY <1>1 DEF OutputInv, SetSerializer, purgeVars, SerializerTypes
<1>2. CASE CallPurge
  BY <1>2 DEF OutputInv, CallPurge, EnterPurge, outputVars
<1>3. CASE SerializeUninitialized
  BY <1>3 DEF OutputInv, SerializeUninitialized, purgeVars
<1>4. CASE CallSerialize
  BY <1>4 DEF OutputInv, CallSerialize, EnterPurge, outputVars
<1>5. ASSUME NEW id \in TypeIds, HashType(id)
      PROVE  OutputInv'
  BY <1>5 DEF OutputInv, HashType, outputVars
<1>6. CASE RewriteTypes
  BY <1>6 DEF OutputInv, RewriteTypes, purgeVars, outputVars
<1>7. CASE RewriteFunctions
  BY <1>7 DEF OutputInv, RewriteFunctions, purgeVars, outputVars
<1>8. CASE EraseDuplicates
  BY <1>8 DEF OutputInv, EraseDuplicates, AfterPurge, purgeVars, outputVars
<1>9. CASE VerifyBeforeWriting
  BY <1>9 DEF OutputInv, VerifyBeforeWriting, purgeVars
<1>10. ASSUME NEW outcome \in Outcomes, SerializeToFile(outcome)
       PROVE  OutputInv'
  <2>1. buffer' \in Seq(Images)
    BY <1>10, ExtendEndsWithImage DEF SerializeToFile
  <2>2. file' = file \/ \E written : file' = [file EXCEPT ![serializer] = written]
    BY <1>10 DEF SerializeToFile
  <2>3. DOMAIN file' = SerializerTypes /\ file' = [s \in SerializerTypes |-> file'[s]]
    BY <2>2 DEF OutputInv
  <2>. QED
    BY <1>10, <2>1, <2>3 DEF OutputInv, SerializeToFile
<1>11. CASE UNCHANGED vars
  BY <1>11 DEF OutputInv, vars, purgeVars, outputVars
<1>. QED
  BY <1>1, <1>2, <1>3, <1>4, <1>5, <1>6, <1>7, <1>8, <1>9, <1>10, <1>11
  DEF Next, ClientStep, CallStep

(* The files and the serializer's buffer stay in order. *)
LEMMA OutputInvariant == Spec => []OutputInv
<1>1. Init => OutputInv
  BY DEF Init, OutputInv, SerializerTypes
<1>. QED
  BY <1>1, NextOutputInv, TypeCorrect, PTL DEF Spec

(* A file that Serialize has written to its end ends with the symbols the
   object holds, verified if they were before the purge, and a json file holds
   nothing else, however many calls came before and however they ended
   (Serialize, SerializeToFile).  Of a file cut off by a failing write, for
   which Serialize returns kOk too, it says nothing. *)
THEOREM WrittenFileAlwaysCurrent == Spec => WrittenFileIsCurrent
<1>. DEFINE images == file'[serializer].images
            last == images[Len(images)]
<1>1. ASSUME PurgeInv, OutputInv, [Next]_vars, ~UNCHANGED vars, pc = "write", result' = "kOk",
             file'[serializer].state = "complete", PurgeKeepsVerified
      PROVE  /\ last = CurrentImage
             /\ VerifyTypeIds(orig.types, orig.functions)
                  => VerifyTypeIds(last.types, last.functions)
             /\ serializer = "kJson" => Len(images) = 1
  <2>1. PICK outcome \in Outcomes : SerializeToFile(outcome)
    BY <1>1 DEF Next, ClientStep, CallStep, SetSerializer, CallPurge, CallSerialize,
                SerializeUninitialized, HashType, RewriteTypes, RewriteFunctions,
                EraseDuplicates, VerifyBeforeWriting
  <2>2. serializer \in SerializerTypes /\ TypeOK
    BY <1>1 DEF OutputInv, PurgeInv, TypeOK
  <2>3. outcome # "openFails" /\ buffer' = Extend(buffer)
    BY <1>1, <2>1 DEF SerializeToFile, Outcomes
  <2>4. PICK written \in Remains(outcome, buffer') :
          file' = [file EXCEPT ![serializer] = written]
    BY <2>1, <2>3 DEF SerializeToFile
  <2>5. file'[serializer] = written
    BY <1>1, <2>2, <2>4 DEF OutputInv
  <2>6. written = [state |-> "complete", images |-> buffer']
    BY <1>1, <2>5 DEF Remains
  <2>7. images = Extend(buffer)
    BY <2>3, <2>5, <2>6
  <2>. HIDE DEF images
  <2>8. last = CurrentImage /\ (serializer = "kJson" => Len(images) = 1)
    BY <1>1, <2>2, <2>7, ExtendEndsWithImage
  <2>9. VerifyTypeIds(orig.types, orig.functions) => VerifyTypeIds(typeSymbols, functionSymbols)
    BY <1>1 DEF PurgeKeepsVerified, Purging, PurgeSteps
  <2>10. CurrentImage.types = typeSymbols /\ CurrentImage.functions = functionSymbols
    BY DEF CurrentImage
  <2>. HIDE DEF last
  <2>. QED
    BY <2>8, <2>9, <2>10
<1>2. ASSUME PurgeInv, OutputInv, PurgeKeepsVerified, [Next]_vars
      PROVE  [(pc = "write" /\ result' = "kOk" /\ file'[serializer].state = "complete") =>
                LET imgs == file'[serializer].images
                    lst == imgs[Len(imgs)]
                IN  /\ lst = CurrentImage
                    /\ VerifyTypeIds(orig.types, orig.functions)
                         => VerifyTypeIds(lst.types, lst.functions)
                    /\ serializer = "kJson" => Len(imgs) = 1]_vars
  BY <1>1, <1>2
<1>. QED
  BY <1>2, PurgeInvariant, OutputInvariant, PurgeKeepsTypeIdsVerified, PTL
  DEF Spec, WrittenFileIsCurrent
=============================================================================
