--------------------------- MODULE ReviewPromise ----------------------------
(***************************************************************************)
(* What the review console promises of a row of review_decisions: it is     *)
(* written once, and whoever is told of it is told what was written.        *)
(***************************************************************************)
CONSTANTS Values,  \* what may be decided
          Nothing  \* no row, or not told yet

VARIABLES
    row,   \* the decision recorded
    told   \* what each caller was last told had been decided

vars == <<row, told>>

Init == row = Nothing /\ told \in [DOMAIN told -> {Nothing}]

\* Any number of callers learn of the row at a time: by an answer, by an artifact.
TellSome == \E X \in SUBSET DOMAIN told :
              told' = [x \in DOMAIN told |-> IF x \in X THEN row' ELSE told[x]]

Record == row = Nothing /\ row' \in Values /\ TellSome

Tell == row # Nothing /\ UNCHANGED row /\ TellSome

Next == Record \/ Tell

Spec == Init /\ [][Next]_vars
=============================================================================
