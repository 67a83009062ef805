----------------------------- MODULE Retention ------------------------------
(***************************************************************************)
(* scripts/enforce_retention.py --apply beside the reprocessing of OCR      *)
(* exceptions: under locks that keep everyone else out of the database, it  *)
(* deletes the raw objects of expired jobs that nothing holds, later also    *)
(* what the pipeline made of them, then forgets the objects and the jobs in *)
(* one transaction.  It may die before that, and what it deleted stays      *)
(* deleted.  Audit events, which nothing here reads, are left out.          *)
(***************************************************************************)
EXTENDS Reprocessing, FiniteSets

CONSTANT MaxFaults  \* bound: enforcements that die, objects that are damaged

ASSUME RetentionAssumption == MaxFaults \in Nat

VARIABLES
    emptied,    \* the jobs whose artifacts of the pipeline are deleted
    age,        \* 1 past RAW_ARTIFACT_RETENTION_DAYS, 2 past DERIVED_...
    sweep,      \* the enforcement: what it has selected and what is left to delete
    faults,     \* how many of these there were
    torn        \* the jobs that kept the name of an object one of them deleted

retention == <<emptied, age, sweep, faults, torn>>
vars      == <<reprocessing, retention>>

Off == [at |-> "off", left |-> {}, drop |-> {}, raw |-> {}, expired |-> {}]

TypeOK ==
    /\ ReprocessingTypeOK
    /\ emptied \subseteq Jobs
    /\ age \in [Jobs -> 0 .. 2]
    /\ sweep \in [at : {"off", "deleting"}, left : SUBSET Jobs, drop : SUBSET Jobs,
                  raw : SUBSET Jobs, expired : SUBSET Jobs]
    /\ faults \in 0 .. MaxFaults
    /\ torn \in SUBSET Jobs

Init ==
    /\ ReprocessingInit
    /\ emptied = {}
    /\ age = [j \in Jobs |-> 0]
    /\ sweep = Off
    /\ faults = 0
    /\ torn = {}

-----------------------------------------------------------------------------
\* retention_holds: both jobs of a request that is not settled, and a job with a
\* delivery that is pending.
Held(j) ==
    \/ \E p \in Jobs : Active(p) /\ j \in {p, request[p].child}
    \/ operation[j] = "pending"

\* The locks are ACCESS EXCLUSIVE, until the transaction ends.
Locked == sweep.at # "off"

\* A replacement is younger than the job it replaces.
Older(j) ==
    /\ Exists(j)
    /\ age[j] < 2
    /\ job[j].source # None => age[j] < age[job[j].source]
    /\ age' = [age EXCEPT ![j] = @ + 1]
    /\ UNCHANGED <<reprocessing, emptied, sweep, faults, torn>>

Begin ==
    /\ ~ Locked
    /\ LET raw     == {j \in Jobs : Exists(j) /\ age[j] >= 1 /\ job[j].named /\ ~ Held(j)}
           expired == {j \in Jobs : Exists(j) /\ age[j] = 2 /\ ~ Held(j)}
       IN  /\ raw \cup expired # {}
           /\ sweep' = [at |-> "deleting", left |-> raw, drop |-> expired, raw |-> raw,
                        expired |-> expired]
    /\ UNCHANGED <<reprocessing, emptied, age, faults, torn>>

Delete(j) ==
    /\ j \in sweep.left
    /\ object' = [object EXCEPT ![j] = "none"]
    /\ sweep' = [sweep EXCEPT !.left = @ \ {j}]
    /\ UNCHANGED <<job, born, request, pipeline, service, emptied, age, faults, torn>>

\* The artifacts under the prefix of an expired job, in every bucket.  The
\* workflows that run here are those of held jobs: none stores anything after.
DeletePrefix(j) ==
    /\ sweep.left = {} /\ j \in sweep.drop
    /\ emptied' = emptied \cup {j}
    /\ sweep' = [sweep EXCEPT !.drop = @ \ {j}]
    /\ UNCHANGED <<reprocessing, age, faults, torn>>

\* A request goes with either of its jobs, a delivery with its job.
Commit ==
    /\ Locked /\ sweep.left = {} /\ sweep.drop = {}
    /\ job' = [j \in Jobs |->
                 IF j \in sweep.expired THEN [job[j] EXCEPT !.status = "gone", !.named = FALSE]
                 ELSE IF j \in sweep.raw THEN [job[j] EXCEPT !.named = FALSE] ELSE job[j]]
    /\ request' = [p \in Jobs |-> IF {p, request[p].child} \cap sweep.expired # {}
                                  THEN Absent ELSE request[p]]
    /\ operation' = [j \in Jobs |-> IF j \in sweep.expired THEN "none" ELSE operation[j]]
    /\ torn' = torn \ sweep.raw
    /\ sweep' = Off
    /\ UNCHANGED <<object, born, run, service, emptied, age, faults>>

\* The process dies, or an object cannot be deleted: the transaction is undone.
Abort ==
    /\ Locked
    /\ faults < MaxFaults
    /\ faults' = faults + 1
    /\ torn' = torn \cup (sweep.raw \ sweep.left)
    /\ sweep' = Off
    /\ UNCHANGED <<reprocessing, emptied, age>>

\* The object of a job that ended as an exception is damaged or replaced.
Damage(j) ==
    /\ j \in Exceptions /\ object[j] = "document"
    /\ faults < MaxFaults
    /\ faults' = faults + 1
    /\ object' = [object EXCEPT ![j] = "other"]
    /\ UNCHANGED <<job, born, request, pipeline, service, emptied, age, sweep, torn>>

-----------------------------------------------------------------------------
\* Mutant: no lock is taken, as in a dry run.
ReprocessUnlocked == (DatabaseStep \/ OtherStep) /\ UNCHANGED retention

Reprocess == ((~ Locked /\ DatabaseStep) \/ OtherStep) /\ UNCHANGED retention

Enforce == Begin \/ (\E j \in Jobs : Delete(j) \/ DeletePrefix(j)) \/ Commit

Next == Reprocess \/ Enforce \/ Abort \/ \E j \in Jobs : Older(j) \/ Damage(j)

Spec == Init /\ [][Next]_vars

\* One replica of the reconciler is restarted whenever it dies, and what it reads
\* gets through again and again; the requests are looked at in turn, by
\* last_checked_at.  Workflows end by their deadlines, and an enforcement that is
\* not killed ends.
Survivor == CHOOSE k \in Reconcilers : TRUE

FairSpec ==
    /\ Spec
    /\ LET k == Survivor
       IN  /\ WF_vars(((~ Locked /\ List(k)) \/ Rest(k)) /\ UNCHANGED retention)
           /\ SF_vars((Copy(k) \/ (~ Locked /\ (Reject(k) \/ Recover(k)))) /\ UNCHANGED retention)
           /\ SF_vars(~ Locked /\ Settle(k) /\ UNCHANGED retention)
           /\ \A p \in Exceptions : SF_vars(~ Locked /\ Judge(k, p) /\ UNCHANGED retention)
    /\ \A j \in Jobs \ Exceptions :
         /\ WF_vars((Start(j) \/ EndRun(j)) /\ UNCHANGED retention)
         /\ SF_vars(~ Locked /\ MarkQueued(j) /\ UNCHANGED retention)
    /\ WF_vars(Enforce /\ Locked)

-----------------------------------------------------------------------------
(* Safety *)

\* A replacement of p is forgotten, before p or with it.
Forgotten(p) == \E j \in Jobs : job[j].source = p /\ job[j].status = "gone"

\* A request is settled by what became of its replacement, and agrees with it
\* afterwards, although several reconcilers settle it from what they read before.
\* (One that waits to write while retention forgets the replacement before its
\* parent might settle another request for that parent.)
ResolutionIsTrue ==
    \A p \in Jobs : ~ Forgotten(p) =>
      LET c == request[p].child
      IN  /\ request[p].status = "resolved" => run[c] = "delivered"
          /\ request[p].status = "needs_attention" =>
               job[c].status = "FAILED" \/ run[c] \in Ended \ {"delivered"}

\* A replacement that waits for its source can have it: the source registered with it
\* is still there, unless an enforcement that died had deleted it before.
SourceSurvives ==
    \A p \in Jobs :
      Active(p) /\ Received(request[p].child) /\ object[request[p].child] = "none"
        => object[p] # "none" \/ p \in torn

\* What a request or a pending delivery holds is neither deleted nor forgotten.
HeldIsKept ==
    [][\A j \in Jobs : Held(j) =>
         /\ object[j] # "none" => object'[j] # "none"
         /\ j \notin emptied => j \notin emptied'
         /\ job[j].status # "gone" => job'[j].status # "gone"]_vars

-----------------------------------------------------------------------------
(* Liveness *)

\* A replacement whose object and whose source are gone.
Lost(c) == Received(c) /\ object[c] = "none" /\ object[job[c].source] = "none"

\* Every request is settled, whatever handlers and reconcilers died, unless a
\* replacement has lost its source.
Resolves == \A p \in Exceptions : Active(p) ~> ~ Active(p) \/ \E c \in Jobs : Lost(c)

\* The README says more: that of one request keeps no other from being settled.
ResolvesAlone == \A p \in Exceptions : Active(p) ~> ~ Active(p) \/ Lost(request[p].child)
=============================================================================
