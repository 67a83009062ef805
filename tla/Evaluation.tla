------------------------------ MODULE Evaluation ------------------------------
(***************************************************************************)
(* The evaluation service, for the one request a run sends it when it ends: *)
(* POST /track-run, with MLflow and the object store as its providers.      *)
(*                                                                         *)
(* The workflow asks up to MaxAttempts times.  An attempt whose answer is   *)
(* lost goes on in the service, and the thread that talks to MLflow goes on  *)
(* when the attempt itself times out.  All attempts have the same           *)
(* evaluation id, which is a digest of the request: their receipts have one *)
(* key, and a run in MLflow is found again by the id among its tags.        *)
(***************************************************************************)
EXTENDS Naturals, FiniteSets, Bags

CONSTANTS
    MaxAttempts,  \* maximum_attempts of the workflow's retry policy
    RetryMax      \* evaluation_retry_max

VARIABLES
    told,      \* how the activity ended: "tracked", "untracked" or "failed"
    last,      \* the attempt sent last
    heard,     \* the workflow still waits for its answer
    handler,   \* where the handler of each attempt is
    result,    \* the providers that succeeded
    thread,    \* where the MLflow thread of each attempt is
    turn,      \* which of its tries it is at
    own,       \* what the MLflow run that it is making has been given
    runs,      \* the runs with the id that are made, by what each was given
    raced,     \* a thread found no run while another was making one
    receipts   \* receipt.json in each bucket, {} if it is not there or names no success

Attempts  == 1 .. MaxAttempts
Turns     == 1 .. RetryMax + 1
Providers == {"mlflow", "artifact_store"}
Buckets   == {"evaluation", "delivery"}

Values == {"values", "tags"}

\* The runs a search for the id finds.
Tagged == runs (+) SetToBag({own[a] : a \in {b \in Attempts : "tags" \in own[b]}})

Init ==
    /\ told = "none" /\ last = 0 /\ heard = FALSE
    /\ handler = [a \in Attempts |-> "unsent"]
    /\ result = [a \in Attempts |-> {}]
    /\ thread = [a \in Attempts |-> "idle"]
    /\ turn = [a \in Attempts |-> 1]
    /\ own = [a \in Attempts |-> {}] /\ runs = EmptyBag
    /\ raced = FALSE
    /\ receipts = [b \in Buckets |-> {}]

-----------------------------------------------------------------------------
(* The activity *)

Send ==
    /\ told = "none" /\ ~ heard /\ last < MaxAttempts
    /\ last' = last + 1 /\ heard' = TRUE
    /\ handler' = [handler EXCEPT ![last + 1] = "arrived"]
    /\ UNCHANGED <<told, result, thread, turn, own, runs, raced, receipts>>

\* Attempt a has failed, for the workflow if it still waits for it.
Fails(a) ==
    IF heard /\ last = a
    THEN heard' = FALSE /\ told' = (IF a = MaxAttempts THEN "failed" ELSE told)
    ELSE UNCHANGED <<heard, told>>

\* Attempt a answers with the providers that succeeded.
Answers(a, providers) ==
    IF heard /\ last = a
    THEN heard' = FALSE /\ told' = (IF providers = {} THEN "untracked" ELSE "tracked")
    ELSE UNCHANGED <<heard, told>>

\* The answer is lost or comes after the 30 seconds of the activity.
GiveUp ==
    /\ heard /\ Fails(last)
    /\ UNCHANGED <<last, handler, result, thread, turn, own, runs, raced, receipts>>

-----------------------------------------------------------------------------
(* The MLflow thread *)

\* Mutant: a run is tagged when it is started.
GivenTagsFirst(t) == IF t = "log" THEN "tags" ELSE "values"

\* A run is given its parameters and metrics, then its tags.
Given(t) == IF t = "log" THEN "values" ELSE "tags"

\* Nobody works on the run any more; without the id it is never found again.
Leave(a, run) ==
    /\ own' = [own EXCEPT ![a] = {}]
    /\ runs' = IF "tags" \in run THEN runs (+) SetToBag({run}) ELSE runs

\* A run that carries the id is taken for this one.
Search(a) ==
    /\ thread[a] = "search"
    /\ thread' = [thread EXCEPT ![a] = IF Tagged # EmptyBag THEN "done" ELSE "log"]
    /\ raced' = \/ raced
                \/ Tagged = EmptyBag /\ (\E b \in Attempts \ {a} : thread[b] \in {"log", "tag"})
    /\ UNCHANGED <<told, last, heard, handler, result, turn, own, runs, receipts>>

Log(a) ==
    /\ thread[a] \in {"log", "tag"}
    /\ LET run == own[a] \cup {Given(thread[a])} IN
       IF thread[a] = "log"
       THEN /\ thread' = [thread EXCEPT ![a] = "tag"]
            /\ own' = [own EXCEPT ![a] = run]
            /\ UNCHANGED runs
       ELSE /\ thread' = [thread EXCEPT ![a] = "done"]
            /\ Leave(a, run)
    /\ UNCHANGED <<told, last, heard, handler, result, turn, raced, receipts>>

\* A call to MLflow fails, with or without its effect.  The handler, if it is
\* still there, tries again with a run of its own.
Trips(a) ==
    /\ thread[a] \in {"search", "log", "tag"}
    /\ \/ Leave(a, own[a])
       \/ thread[a] # "search" /\ Leave(a, own[a] \cup {Given(thread[a])})
    /\ IF handler[a] = "tracking" /\ turn[a] <= RetryMax
       THEN /\ turn' = [turn EXCEPT ![a] = @ + 1]
            /\ thread' = [thread EXCEPT ![a] = "search"]
       ELSE /\ thread' = [thread EXCEPT ![a] = "failed"]
            /\ UNCHANGED turn
    /\ UNCHANGED <<told, last, heard, handler, result, raced, receipts>>

-----------------------------------------------------------------------------
(* The handler *)

\* The receipt a request sees: the first that can be read.
Seen == {receipts[b] : b \in Buckets}

\* A receipt of success is the answer; otherwise a free slot is needed.
Check(a) ==
    /\ handler[a] = "arrived"
    /\ \/ /\ \E seen \in Seen \ {{}} : Answers(a, seen)
          /\ handler' = [handler EXCEPT ![a] = "over"]
          /\ UNCHANGED thread
       \/ /\ Fails(a)
          /\ handler' = [handler EXCEPT ![a] = "over"]
          /\ UNCHANGED thread
       \/ /\ handler' = [handler EXCEPT ![a] = "tracking"]
          /\ thread' = [thread EXCEPT ![a] = "search"]
          /\ UNCHANGED <<heard, told>>
    /\ UNCHANGED <<last, result, turn, own, runs, raced, receipts>>

\* The 60 seconds of the request are over; the thread is not stopped.
TimeOut(a) ==
    /\ handler[a] = "tracking"
    /\ handler' = [handler EXCEPT ![a] = "over"]
    /\ Fails(a)
    /\ UNCHANGED <<last, result, thread, turn, own, runs, raced, receipts>>

\* metrics.json is written or not.
ArtifactResults == {{}, {"artifact_store"}}

\* Both providers are through.
Gather(a) ==
    /\ handler[a] = "tracking" /\ thread[a] \in {"done", "failed"}
    /\ handler' = [handler EXCEPT ![a] = "judged"]
    /\ thread' = [thread EXCEPT ![a] = "idle"]
    /\ turn' = [turn EXCEPT ![a] = 1]
    /\ \E stored \in ArtifactResults :
         result' = [result EXCEPT ![a] =
             stored \cup (IF thread[a] = "done" THEN {"mlflow"} ELSE {})]
    /\ UNCHANGED <<told, last, heard, own, runs, raced, receipts>>

\* The receipt is written, to the other bucket if the first refuses it, and
\* then once more with its own place in it.
Persist(a) ==
    /\ handler[a] = "judged"
    /\ \/ /\ \E b \in Buckets : /\ receipts' = [receipts EXCEPT ![b] = result[a]]
                             /\ handler' = [handler EXCEPT ![a] = b]
          /\ UNCHANGED <<heard, told>>
       \/ /\ handler' = [handler EXCEPT ![a] = "over"]
          /\ Fails(a)
          /\ UNCHANGED receipts
    /\ UNCHANGED <<last, result, thread, turn, own, runs, raced>>

Complete(a) ==
    /\ handler[a] \in Buckets
    /\ handler' = [handler EXCEPT ![a] = "over"]
    /\ \/ /\ receipts' = [receipts EXCEPT ![handler[a]] = result[a]]
          /\ Answers(a, result[a])
       \/ Fails(a) /\ UNCHANGED receipts
    /\ UNCHANGED <<last, result, thread, turn, own, runs, raced>>

\* The service stops with everything in it.
Restart ==
    /\ \E a \in Attempts : handler[a] \notin {"unsent", "over"} \/ thread[a] \in {"search", "log", "tag"}
    /\ handler' = [a \in Attempts |-> IF handler[a] = "unsent" THEN "unsent" ELSE "over"]
    /\ thread' = [a \in Attempts |-> "idle"]
    /\ own' = [a \in Attempts |-> {}]
    /\ runs' = Tagged
    /\ Fails(last)
    /\ UNCHANGED <<last, result, turn, raced, receipts>>

-----------------------------------------------------------------------------
Attempt(a) ==
    \/ Search(a) \/ Log(a) \/ Trips(a)
    \/ Check(a) \/ TimeOut(a) \/ Gather(a) \/ Persist(a) \/ Complete(a)

Service == (\E a \in Attempts : Attempt(a)) \/ GiveUp \/ Restart

-----------------------------------------------------------------------------
(* Properties *)

TypeOK ==
    /\ told \in {"none", "tracked", "untracked", "failed"}
    /\ last \in 0 .. MaxAttempts /\ heard \in BOOLEAN /\ raced \in BOOLEAN
    /\ handler \in [Attempts -> {"unsent", "arrived", "tracking", "judged", "over"} \cup Buckets]
    /\ result \in [Attempts -> SUBSET Providers]
    /\ thread \in [Attempts -> {"idle", "search", "log", "tag", "done", "failed"}]
    /\ turn \in [Attempts -> Turns]
    /\ own \in [Attempts -> SUBSET Values] /\ IsABag(runs) /\ BagToSet(runs) \subseteq SUBSET Values
    /\ receipts \in [Buckets -> SUBSET Providers]

\* What an attempt finds and takes for its own run has all its values, however
\* often the calls failed half-way; a receipt that names a run names such a
\* one; and there are two of them only if two threads were at it at once.
TrackedIsTrue ==
    /\ BagToSet(Tagged) \subseteq {Values}
    /\ (\E b \in Buckets : "mlflow" \in receipts[b]) => Tagged # EmptyBag
    /\ BagCardinality(Tagged) > 1 => raced
=============================================================================
