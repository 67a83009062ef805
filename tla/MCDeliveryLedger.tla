-------------------------- MODULE MCDeliveryLedger --------------------------
(* Instances of DeliveryLedger for TLC. *)
EXTENDS DeliveryLedger

CONSTANTS o1, o2, r1, r2, r3, r4, k1, hook, s3

\* r1 and its retry r2 are one submission; r3 comes under the same key but
\* differs and names no destination; r4 is for another operation.
MCOpOf        == [r \in Requests |-> IF r = r4 THEN o2 ELSE o1]
MCFingerprint == [r \in Requests |-> IF r = r3 THEN "other" ELSE "same"]
MCDestsOf     == [r \in Requests |-> IF r = r3 THEN {} ELSE Destinations]

=============================================================================
