------------------------------- MODULE Dedup --------------------------------
(***************************************************************************)
(* What removing duplicate types promises, in one step: every type is      *)
(* represented by one type of its hash, the same for all types of that     *)
(* hash; every reference is replaced by the representative of the type it  *)
(* named; the representatives are what is left.  Nothing is said about     *)
(* which type of a hash becomes the representative.                        *)
(***************************************************************************)
EXTENDS UsymFormat

CONSTANT Contents  \* the symbols a processor can hand over

VARIABLES types, functions

IsRepresentation(rep) ==
  /\ \A t \in DOMAIN types : Hash(types[rep[t]]) = Hash(types[t])
  /\ \A s, t \in DOMAIN types :
       Hash(types[s]) = Hash(types[t]) => rep[s] = rep[t]

Init ==
  \E c \in Contents : types = c.types /\ functions = c.functions

RemoveDuplicates ==
  \E rep \in [DOMAIN types -> DOMAIN types] :
    /\ IsRepresentation(rep)
    /\ types' = [t \in {rep[s] : s \in DOMAIN types} |->
                   RedirectType(rep, types[t])]
    /\ functions' = [f \in DOMAIN functions |->
                       RedirectFunction(rep, functions[f])]

Spec == Init /\ [][RemoveDuplicates]_<<types, functions>>
=============================================================================
