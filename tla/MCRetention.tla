---------------------------- MODULE MCRetention -----------------------------
(* Instances of Retention for TLC. *)
EXTENDS Retention

CONSTANTS p1, p2, c1, c2, r1, r2, r3, r4, k1, k2

\* r1, its repetition r3 and r2, with another reason, are about p1; r4 about p2.
MCTargetOf == [r \in Requests |-> IF r = r4 THEN p2 ELSE p1]
MCFormOf   == [r \in Requests |-> IF r = r2 THEN "other" ELSE "form"]

\* Bound: a second request races with one reconciler only, and with no enforcement.
Apart == \A r \in Requests \cap {r2} : handler[r].at # "new" =>
           (\A k \in Reconcilers \cap {k2} : worker[k].at = "idle") /\ \A j \in Jobs : age[j] = 0

\* Bound: r4 begins when r1 has ended, only p1 grows old, and no replacement
\* gets as far as its workflow.
ByTurns ==
    /\ handler[r4].at # "new" => handler[r1].at \in {"answered", "refused"}
    /\ \A j \in Jobs : object[j] # "other" /\ age[j] = IF j = p1 THEN age[p1] ELSE 0
    /\ \A j \in Jobs \ Exceptions : run[j] = "none"
=============================================================================
