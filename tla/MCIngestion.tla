---------------------------- MODULE MCIngestion ----------------------------
(* Instances of Ingestion for TLC. *)
EXTENDS Ingestion

CONSTANTS s1, s2, s3, s4, k1, k2, e1, e2

\* s1 and its retry s2 are one submission under one key; s3 carries the same
\* document under another key; s4 another document under the first key.
MCContentOf == [s \in Submissions |-> IF s = s4 THEN "other" ELSE "document"]
MCKeyOf     == [s \in Submissions |-> IF s = s3 THEN k2 ELSE k1]

\* The same with s3 under no key.
MCKeyOrNone == [s \in Submissions |-> IF s = s3 THEN NoKey ELSE k1]

\* Bound: the third submission races only with the other two, on fresh jobs.
ThirdIsFresh ==
    (\E s \in Submissions \cap {s4} : client[s].at # "new") =>
        (\A j \in Jobs : age[j] = 0) /\ (\A e \in Reconcilers : phase[e] = "idle")
=============================================================================
