------------------------------- MODULE KeyMap -------------------------------
(***************************************************************************)
(* What RETree promises: a map in which the first value inserted under a   *)
(* key stays, and which answers a lookup with that value or with nothing.  *)
(***************************************************************************)
CONSTANTS Keys, Values, Null

VARIABLES map, answer

Init == map = [k \in {} |-> Null] /\ answer = Null

Insert ==
  /\ \E key \in Keys \ DOMAIN map, value \in Values :
       map' = [k \in DOMAIN map \cup {key} |-> IF k = key THEN value ELSE map[k]]
  /\ UNCHANGED answer

Lookup ==
  /\ \E key \in Keys : answer' = IF key \in DOMAIN map THEN map[key] ELSE Null
  /\ UNCHANGED map

Spec == Init /\ [][Insert \/ Lookup]_<<map, answer>>
=============================================================================
