-------------------------- MODULE BinarySerializer --------------------------
(***************************************************************************)
(* The binary serializer over its Writer, write by write                   *)
(* (BinarySerializer.cpp, ISerializer.cpp).  The serializer and its Writer *)
(* outlive a call of Serialize.                                            *)
(*                                                                         *)
(* A number of any width takes one byte here, and an enumerator is written *)
(* as its number.  A name is a sequence of bytes other than 0.  The maps   *)
(* of the USYM are sequences of [key, symbol], in the order in which a     *)
(* walk of the unordered_map happens to visit them.                        *)
(***************************************************************************)
EXTENDS UsymFormat, SequencesExt

CONSTANTS
  Bytes, InitialSizes, MaxPosition,  \* of the Writer
  Inputs,    \* what can be serialized: [header, types, functions]
  MaxCalls   \* bound: calls of SerializeToFile

(* Names are C strings: no byte of them is 0. *)
ByteNames == Seq(Nat \ {0})

Headers == [originalFormat: Nat, architecture: Nat]
TypeEntries == [key: Nat, symbol: TypeSymbols(ByteNames)]
FunctionEntries == [key: Nat, symbol: FunctionSymbols(ByteNames)]

ASSUME BytesAssumption == Bytes \subseteq Nat
ASSUME SizesAssumption == InitialSizes \subseteq Nat
ASSUME InputsAssumption ==
  Inputs \subseteq [header: Headers, types: Seq(TypeEntries),
                    functions: Seq(FunctionEntries)]

VARIABLES
  data, position, file, initialSize,  \* of the Writer
  todo,      \* the writes the running call has still to make
  pc,        \* "idle" or "writing"
  result,    \* what SerializeToFile last returned
  inputs     \* history: what was serialized, call by call

writerVars == <<data, position, file, initialSize>>
vars == <<writerVars, todo, pc, result, inputs>>

-----------------------------------------------------------------------------
(* The writes *)

Kinds ==
  [kBase |-> 0, kStruct |-> 1, kClass |-> 2, kUnion |-> 3, kInterface |-> 4,
   kEnum |-> 5, kPointer |-> 6, kTypedef |-> 7, kArray |-> 8, kUnknown |-> 255]

Conventions ==
  [kNearC |-> 0, kNearFast |-> 1, kNearStd |-> 2, kNearSys |-> 3,
   kThiscall |-> 4, kCLRCall |-> 5, kUnknown |-> 255]

Magic == 77

(* Mutant: the terminator is not written. *)
StringUnterminated(name) == name

(* WriteString: the terminating 0 is written too. *)
String(name) == Append(name, 0)

HeaderWrites(header) ==
  << <<Magic>>, <<header.originalFormat>>, <<header.architecture>> >>

FieldWrites(field) ==
  << <<field.id>>, String(field.name), <<field.underlyingTypeId>>, <<field.offset>>,
     <<IF field.isAnonymousUnion THEN 1 ELSE 0>>, <<field.unionId>> >>

(* One iteration of SerializeTypeSymbols. *)
TypeWrites(symbol) ==
  << <<symbol.id>>, String(symbol.name), <<Kinds[symbol.type]>>,
     <<symbol.length>>, <<symbol.fieldCount>>, <<Len(symbol.fields)>> >>
  \o FlattenSeq([i \in DOMAIN symbol.fields |-> FieldWrites(symbol.fields[i])])
  \o << <<symbol.typedefSource>> >>

(* One iteration of SerializeFunctionSymbols. *)
FunctionWrites(symbol) ==
  << <<symbol.id>>, String(symbol.name), <<symbol.returnTypeId>>,
     <<symbol.argumentCount>>, <<Len(symbol.argumentTypeIds)>> >>
  \o [i \in DOMAIN symbol.argumentTypeIds |-> <<symbol.argumentTypeIds[i]>>]
  \o << <<Conventions[symbol.callingConvention]>>, <<symbol.virtualAddress>> >>

(* All writes of one call: header, types, functions.  The keys of the maps
   are not written. *)
Writes(input) ==
  HeaderWrites(input.header)
  \o << <<Len(input.types)>> >>
  \o FlattenSeq([i \in DOMAIN input.types |-> TypeWrites(input.types[i].symbol)])
  \o << <<Len(input.functions)>> >>
  \o FlattenSeq([i \in DOMAIN input.functions |->
                   FunctionWrites(input.functions[i].symbol)])

Image(input) == FlattenSeq(Writes(input))

-----------------------------------------------------------------------------
Chunks == UNION {{Writes(input)[i] : i \in DOMAIN Writes(input)} : input \in Inputs}

TheWriter == INSTANCE Writer

Init ==
  /\ TheWriter!Init
  /\ todo = << >>
  /\ pc = "idle"
  /\ result = "none"
  /\ inputs = << >>

(* SerializeToFile begins.  USYM::Serialize has called Setup, so neither the
   target name nor the object is missing. *)
SerializeToFile(input) ==
  /\ pc = "idle"
  /\ Len(inputs) < MaxCalls
  /\ todo' = Writes(input)
  /\ inputs' = Append(inputs, input)
  /\ pc' = "writing"
  /\ UNCHANGED <<writerVars, result>>

WriteNext ==
  /\ todo # << >>
  /\ TheWriter!WriteImpl(Head(todo))
  /\ todo' = Tail(todo)
  /\ UNCHANGED <<pc, result, inputs>>

(* All three parts are in the buffer: save it. *)
WriteToFile ==
  /\ pc = "writing" /\ todo = << >>
  /\ \/ TheWriter!WriteToFile /\ result' = "kOk"
     \/ UNCHANGED writerVars /\ result' = "kFileCreationFailed"
  /\ pc' = "idle"
  /\ UNCHANGED <<todo, inputs>>

Next ==
  \/ \E input \in Inputs : SerializeToFile(input)
  \/ WriteNext
  \/ WriteToFile

Spec == Init /\ [][Next]_vars

-----------------------------------------------------------------------------
Latest == inputs[Len(inputs)]

(* Between calls the bytes in the Writer end with the image of the last call,
   whole and in order, whatever the buffer's size was and however often it
   grew on the way; a file reported as written holds the beginning of the
   Writer's bytes and one byte more.  (The Writer is never reset, so images
   of earlier calls come first.) *)
BufferEndsWithImage ==
  (pc = "idle" /\ inputs # << >>) =>
    LET image == Image(Latest) IN
      /\ SubSeq(data, position - Len(image) + 1, position) = image
      /\ IsPrefix(SubSeq(file, 1, Len(file) - 1), SubSeq(data, 1, position))

Symbols(map) == [i \in DOMAIN map |-> map[i].symbol]

(* An image can be read back: no image of other symbols is the same, or only
   longer or shorter.  The counts in front of the lists and the terminators
   of the names (SerializeTypeSymbols, SerializeFunctionSymbols) make the end
   of each part known, so bytes that follow cannot be mistaken for symbols. *)
ImagesAreUnambiguous ==
  inputs # << >> =>
    \A other \in Inputs :
      IsPrefix(Image(other), Image(Latest)) =>
        /\ other.header = Latest.header
        /\ Symbols(other.types) = Symbols(Latest.types)
        /\ Symbols(other.functions) = Symbols(Latest.functions)
=============================================================================
