----------------------------- MODULE UsymFormat -----------------------------
(***************************************************************************)
(* The data of a USYM: what a type, a field and a function symbol hold,    *)
(* which ids they refer to, when two types count as equal, and the hash    *)
(* PurgeDuplicateTypes groups them by (USYM.h, USYM.cpp).                  *)
(*                                                                         *)
(* Ids are natural numbers and 0 is the null id.  Names are opaque values. *)
(***************************************************************************)
EXTENDS Naturals, Sequences, FiniteSets

(* TypeSymbol::Type *)
TypeKinds == {"kBase", "kStruct", "kClass", "kUnion", "kInterface", "kEnum",
              "kPointer", "kTypedef", "kArray", "kUnknown"}

(* USYM::CallingConvention *)
CallingConventions == {"kNearC", "kNearFast", "kNearStd", "kNearSys", "kThiscall",
                       "kCLRCall", "kUnknown"}

(* The symbols a USYM holds, over a set N of names. *)
FieldSymbols(N) ==
  [id: Nat, name: N, underlyingTypeId: Nat, offset: Nat,
   isAnonymousUnion: BOOLEAN, unionId: Nat]

TypeSymbols(N) ==
  [id: Nat, name: N, type: TypeKinds, length: Nat, fieldCount: Nat,
   fields: Seq(FieldSymbols(N)), typedefSource: Nat]

FunctionSymbols(N) ==
  [id: Nat, name: N, returnTypeId: Nat, argumentCount: Nat,
   argumentTypeIds: Seq(Nat), callingConvention: CallingConventions,
   virtualAddress: Nat]

(* The value-initialised symbols; noName is the empty string. *)
EmptyField(noName) ==
  [id |-> 0, name |-> noName, underlyingTypeId |-> 0, offset |-> 0,
   isAnonymousUnion |-> FALSE, unionId |-> 0]

EmptyType(noName) ==
  [id |-> 0, name |-> noName, type |-> "kUnknown", length |-> 0,
   fieldCount |-> 0, fields |-> << >>, typedefSource |-> 0]

EmptyFunction(noName) ==
  [id |-> 0, name |-> noName, returnTypeId |-> 0, argumentCount |-> 0,
   argumentTypeIds |-> << >>, callingConvention |-> "kUnknown", virtualAddress |-> 0]

-----------------------------------------------------------------------------
(* Maps (std::unordered_map) are functions on the set of their keys. *)
EmptyMap == [k \in {} |-> 0]

Put(map, key, value) ==
  [k \in DOMAIN map \cup {key} |-> IF k = key THEN value ELSE map[k]]

-----------------------------------------------------------------------------
(* VerifyTypeIds: every id a symbol refers to is null or names a type. *)
TypeReferences(symbol) ==
  {symbol.typedefSource} \cup
  {symbol.fields[i].underlyingTypeId : i \in DOMAIN symbol.fields}

FunctionReferences(symbol) ==
  {symbol.returnTypeId} \cup
  {symbol.argumentTypeIds[i] : i \in DOMAIN symbol.argumentTypeIds}

VerifyTypeIds(types, functions) ==
  /\ \A f \in DOMAIN functions :
       FunctionReferences(functions[f]) \subseteq DOMAIN types \cup {0}
  /\ \A t \in DOMAIN types :
       TypeReferences(types[t]) \subseteq DOMAIN types \cup {0}

(* TypeSymbol::operator== and FieldSymbol::operator==: neither compares the
   id, and a type's kind is not compared either. *)
FieldsEqual(f, g) ==
  /\ f.underlyingTypeId = g.underlyingTypeId
  /\ f.offset = g.offset
  /\ f.name = g.name
  /\ f.isAnonymousUnion = g.isAnonymousUnion
  /\ f.unionId = g.unionId

TypesEqual(s, t) ==
  /\ s.length = t.length
  /\ s.fieldCount = t.fieldCount
  /\ s.name = t.name
  /\ Len(s.fields) = Len(t.fields)
  /\ \A i \in DOMAIN s.fields : FieldsEqual(s.fields[i], t.fields[i])
  /\ s.typedefSource = t.typedefSource

(* Mutant: the name is left out of the hash. *)
HashInputsNoName(symbol) ==
  << <<"uint64_t", symbol.length>>, <<"uint64_t", symbol.fieldCount>> >>
  \o [i \in 1..Len(symbol.fields) |->
        <<"uint32_t", symbol.fields[i].underlyingTypeId>>]

(***************************************************************************)
(* std::hash<TypeSymbol> is the exclusive or of the hashes of the length,  *)
(* the field count, each field's type id and the name.  The hashes of      *)
(* distinct inputs are taken to be independent, so an exclusive or is      *)
(* known by the inputs that occur in it an odd number of times: equal      *)
(* inputs cancel, as they do in the code.  Length and field count go       *)
(* through the same std::hash<uint64_t> and can cancel each other.         *)
(***************************************************************************)
HashInputs(symbol) ==
  << <<"uint64_t", symbol.length>>,
     <<"uint64_t", symbol.fieldCount>>,
     <<"string", symbol.name>> >>
  \o [i \in 1..Len(symbol.fields) |->
        <<"uint32_t", symbol.fields[i].underlyingTypeId>>]

Hash(symbol) ==
  LET inputs == HashInputs(symbol)
      Occurrences(x) == {i \in DOMAIN inputs : inputs[i] = x}
  IN  {x \in {inputs[i] : i \in DOMAIN inputs} :
         Cardinality(Occurrences(x)) % 2 = 1}

-----------------------------------------------------------------------------
(* What the second and third loop of PurgeDuplicateTypes do to a symbol:
   each id that oldToNew knows is replaced by its new id. *)
Redirect(oldToNew, id) == IF id \in DOMAIN oldToNew THEN oldToNew[id] ELSE id

RedirectType(oldToNew, symbol) ==
  [symbol EXCEPT
     !.typedefSource = Redirect(oldToNew, symbol.typedefSource),
     !.fields = [i \in 1..Len(symbol.fields) |->
       [symbol.fields[i] EXCEPT !.underlyingTypeId =
          Redirect(oldToNew, symbol.fields[i].underlyingTypeId)]]]

RedirectFunction(oldToNew, symbol) ==
  [symbol EXCEPT
     !.returnTypeId = Redirect(oldToNew, symbol.returnTypeId),
     !.argumentTypeIds = [i \in 1..Len(symbol.argumentTypeIds) |->
        Redirect(oldToNew, symbol.argumentTypeIds[i])]]
=============================================================================
