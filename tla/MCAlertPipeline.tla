--------------------------- MODULE MCAlertPipeline ---------------------------
(* Instances of AlertPipeline for TLC. *)
EXTENDS AlertPipeline, TLC

\* A night that spans midnight where the user lives, but not in UTC.
Night == {[start |-> 1, end |-> 0, offset |-> 1]}

\* The sentinel "always quiet" too.
NightAndAlways == Night \cup {[start |-> 0, end |-> 0, offset |-> 0]}

EvalSymmetry == Permutations(Evals)
=============================================================================
