-------------------------- MODULE EvaluatedPipeline --------------------------
(***************************************************************************)
(* DocumentPipeline with the evaluation service it asks, when a run ends, to *)
(* track how it ended.  The activity is best effort: the run goes on when it *)
(* is over, whatever came of it, and what the service does afterwards for a  *)
(* request that was given up is nothing to the run.                         *)
(***************************************************************************)
EXTENDS DocumentPipeline

CONSTANTS MaxAttempts, RetryMax

ASSUME EvaluationAssumption == MaxAttempts \in Nat \ {0} /\ RetryMax \in Nat

VARIABLES told, last, heard, handler, result, thread, turn, own, runs, raced, receipts

Tracking == INSTANCE Evaluation

evaluation == <<told, last, heard, handler, result, thread, turn, own, runs, raced, receipts>>
evaluated  == <<vars, evaluation>>

EInit == Init /\ Tracking!Init

\* Bound: the service is followed for a run of the present code that failed in
\* preprocessing; of any other only that the activity ends.  The service is not
\* told how far a run came, other than in what it stores.
Followed == markers = Patches /\ page = 0 /\ cause = "other"

Track ==
    /\ at = "evaluate" /\ Followed
    /\ Tracking!Send
    /\ UNCHANGED vars

\* The run goes on when the activity is over.
EWorkflow ==
    \/ /\ WorkflowStep
       /\ at = "evaluate" /\ Followed => told # "none"
       /\ UNCHANGED evaluation
    \/ Track

Surroundings ==
    /\ ExecutionTimeout \/ Expire \/ LandTask \/ LandException \/ LandDelivery \/ Decide \/ LedgerStep
    /\ UNCHANGED evaluation

Evaluating == Tracking!Service /\ UNCHANGED vars

ENext == EWorkflow \/ Surroundings \/ Evaluating

\* As in DocumentPipeline; of the evaluation service nothing is expected, since
\* an activity that waits for it ends by its own timeout.
ESpec ==
    /\ EInit /\ [][ENext]_evaluated
    /\ WF_evaluated(EWorkflow)
    /\ WF_evaluated(Expire /\ UNCHANGED evaluation)
    /\ WF_evaluated(ExecutionTimeout /\ UNCHANGED evaluation)
    /\ WF_evaluated(Tracking!GiveUp /\ UNCHANGED vars)

-----------------------------------------------------------------------------
(* Properties *)

\* What an evaluation finds, and what its receipts say, is so: see Evaluation.
TrackedIsTrue == Tracking!TypeOK /\ Tracking!TrackedIsTrue
=============================================================================
