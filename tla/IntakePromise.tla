---------------------------- MODULE IntakePromise ----------------------------
(***************************************************************************)
(* What the intake promises those who submit documents, without tables,    *)
(* leases or reconcilers: a key is bound once and for all,              *)
(* a job is processed at most once and only after its document is durable, *)
(* a failed job was never processed and stays failed.                      *)
(***************************************************************************)
CONSTANTS Jobs, Keys, NoJob

VARIABLES
    bound,    \* the job each key stands for
    stage,    \* how far each job has come
    settled   \* the jobs reported as queued

vars == <<bound, stage, settled>>

Stages == {"none", "registered", "durable", "processing", "failed"}

Init ==
    /\ bound = [k \in Keys |-> NoJob]
    /\ stage = [j \in Jobs |-> "none"]
    /\ settled = {}

\* A key gets its job, and keeps it.
BindAt(k, j) ==
    /\ bound[k] = NoJob
    /\ bound' = [bound EXCEPT ![k] = j]

\* A new job, under a new key or under none.
Register(j) ==
    /\ stage[j] = "none"
    /\ stage' = [stage EXCEPT ![j] = "registered"]
    /\ UNCHANGED bound \/ \E k \in Keys : BindAt(k, j)
    /\ UNCHANGED settled

\* A key of its own for a job there is.
Bind(k, j) ==
    /\ stage[j] # "none"
    /\ BindAt(k, j)
    /\ UNCHANGED <<stage, settled>>

Persist(j) ==
    /\ stage[j] = "registered"
    /\ stage' = [stage EXCEPT ![j] = "durable"]
    /\ UNCHANGED <<bound, settled>>

Fail(j) ==
    /\ stage[j] = "registered"
    /\ stage' = [stage EXCEPT ![j] = "failed"]
    /\ UNCHANGED <<bound, settled>>

Process(j) ==
    /\ stage[j] = "durable"
    /\ stage' = [stage EXCEPT ![j] = "processing"]
    /\ UNCHANGED <<bound, settled>>

Settle(j) ==
    /\ stage[j] = "processing"
    /\ settled' = settled \cup {j}
    /\ UNCHANGED <<bound, stage>>

Next ==
    \E j \in Jobs :
      \/ Register(j) \/ Persist(j) \/ Fail(j) \/ Process(j) \/ Settle(j)
      \/ \E k \in Keys : Bind(k, j)

Spec == Init /\ [][Next]_vars
=============================================================================
