------------------------- MODULE MCBinarySerializer -------------------------
(***************************************************************************)
(* Small symbols for TLC.  Names and numbers share the bytes 1 to 3, so    *)
(* that a name cut short, or a list of the wrong length, looks like other  *)
(* symbols.                                                                *)
(***************************************************************************)
EXTENDS BinarySerializer

Header == [originalFormat |-> 0, architecture |-> 1]

Field(name, type) ==
  [EmptyField(name) EXCEPT !.id = 1, !.underlyingTypeId = type]

Type(id, name, fields) ==
  [EmptyType(name) EXCEPT !.id = id, !.type = "kStruct", !.length = 1,
                          !.fieldCount = 1, !.fields = fields]

Function(name, args) ==
  [EmptyFunction(name) EXCEPT !.id = 1, !.argumentTypeIds = args,
                              !.callingConvention = "kNearFast"]

Entry(key, symbol) == [key |-> key, symbol |-> symbol]

(* Types of all names with no field, an unnamed or a named one, functions with
   and without a name and arguments, nothing, and several of each. *)
MCInputs ==
  LET Input(types, functions) ==
        [header |-> Header, types |-> types, functions |-> functions]
      pair == <<Entry(1, Type(1, << >>, << >>)),
                Entry(2, [Type(2, <<1>>, << >>) EXCEPT !.typedefSource = 1])>>
  IN  {Input(<<Entry(1, Type(1, name, fields))>>, << >>) :
         name \in {<< >>, <<1>>, <<1, 1, 1>>},
         fields \in {<< >>, <<Field(<< >>, 1)>>, <<Field(<<1>>, 1)>>}}
      \cup {Input(<< >>, <<Entry(1, Function(name, args))>>) :
               name \in {<< >>, <<1>>}, args \in {<< >>, <<1, 1>>}}
      \cup {Input(<< >>, << >>), Input(pair, <<Entry(1, Function(<<1>>, <<1>>))>>)}
=============================================================================
