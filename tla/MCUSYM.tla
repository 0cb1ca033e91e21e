------------------------------- MODULE MCUSYM -------------------------------
(***************************************************************************)
(* Small USYM contents for TLC.  AllSmall: every map of three types drawn  *)
(* from base types, a structure with one or two fields, a typedef and the  *)
(* placeholder of a type that could not be created, with one function over *)
(* them; id 9 is never a key, so a reference to it dangles.  The purge may *)
(* visit the ids in any order, so the second base type and the structure   *)
(* of two fields are offered to one id only.  Cascade: two equal base      *)
(* types, each in a structure of its own.  Unnamed: two unnamed structures *)
(* whose field types cancel out of the hash.                               *)
(***************************************************************************)
EXTENDS USYM

Field(name, type, offset) ==
  [EmptyField("") EXCEPT !.id = 7, !.name = name, !.underlyingTypeId = type,
                         !.offset = offset]

Base(id, name) ==
  [EmptyType("") EXCEPT !.id = id, !.type = "kBase", !.name = name, !.length = 4]

Struct(id, name, fields) ==
  [EmptyType("") EXCEPT !.id = id, !.type = "kStruct", !.name = name,
     !.length = 4 * Len(fields), !.fieldCount = Len(fields), !.fields = fields]

Typedef(id, source) ==
  [EmptyType("") EXCEPT !.id = id, !.type = "kTypedef", !.name = "T",
                        !.length = 4, !.typedefSource = source]

Function(id, ret, args) ==
  [EmptyFunction("") EXCEPT !.id = id, !.returnTypeId = ret,
     !.argumentCount = Len(args), !.argumentTypeIds = args]

-----------------------------------------------------------------------------
SmallIds == 1..3
Targets == SmallIds \cup {9}

SymbolsFor(id) ==
  {Base(id, "int32_t"), EmptyType("")}
  \cup (IF id = 2 THEN {Base(id, "float")} ELSE {})
  \cup {Struct(id, "S", <<Field("a", t, 0)>>) : t \in Targets \ {id}}
  \cup (IF id = 3 THEN {Struct(id, "S", <<Field("a", t, 0), Field("b", t, 4)>>) : t \in {1, 2}}
                  ELSE {})
  \cup {Typedef(id, t) : t \in Targets \ {id}}

SmallTypeMaps ==
  {m \in [SmallIds -> UNION {SymbolsFor(id) : id \in SmallIds}] :
     \A id \in SmallIds : m[id] \in SymbolsFor(id)}

Resolving == [f \in {5} |-> Function(5, 1, <<2, 3>>)]
Dangling  == [f \in {5} |-> Function(5, 9, <<3>>)]

AllSmall ==
  {[types |-> m, functions |-> Resolving] : m \in SmallTypeMaps}
  \cup {[types |-> m, functions |-> Dangling] :
          m \in {n \in SmallTypeMaps : n[1].type = "kBase"}}

Cascade ==
  [types |-> [id \in 1..5 |->
     CASE id \in {1, 2} -> Base(id, "int32_t")
       [] id = 3 -> Struct(3, "S", <<Field("a", 1, 0)>>)
       [] id = 4 -> Struct(4, "S", <<Field("a", 2, 0)>>)
       [] id = 5 -> Typedef(5, 4)],
   functions |-> [f \in {5} |-> Function(5, 3, <<4, 2>>)]]

SmallAndCascade == AllSmall \cup {Cascade}

Unnamed ==
  {[types |-> [id \in 1..4 |->
     CASE id = 1 -> Base(1, "int32_t")
       [] id = 2 -> Base(2, "float")
       [] id = 3 -> Struct(3, "unnamed-tag", <<Field("a", 1, 0), Field("b", 1, 4)>>)
       [] id = 4 -> Struct(4, "unnamed-tag", <<Field("x", 2, 0), Field("y", 2, 4)>>)],
    functions |-> [f \in {5} |-> Function(5, 3, <<4>>)]]}
=============================================================================
