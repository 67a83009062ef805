------------------------------ MODULE Ingestion ------------------------------
(***************************************************************************)
(* The ingestion service: POST /documents, the tables ingestion_jobs,      *)
(* ingestion_idempotency_requests and ingestion_dispatch_outbox, the raw   *)
(* bucket, and the reconciler every replica runs.                          *)
(*                                                                         *)
(* A submission looks its idempotency key up, looks for a recent job with  *)
(* the same content, registers a job, uploads the document, records it     *)
(* with an outbox row, leases the row, starts the workflow and marks the   *)
(* job queued.  It may die between any two of these, and the reconciler    *)
(* finishes or fails what it left.  Every transaction and every call to    *)
(* the object store or Temporal is a step; a call is on the wire until it  *)
(* lands, at any later time or never, whatever became of its sender.       *)
(*                                                                         *)
(* The id of a job is a fresh UUID: here, the submission that creates it.  *)
(* Tenants share nothing, so a content is a (tenant, SHA-256) and a key a  *)
(* (tenant, Idempotency-Key).                                              *)
(***************************************************************************)
EXTENDS Naturals, FiniteSets

CONSTANTS
    Submissions,   \* POST /documents requests; a retry is another element
    Reconcilers,   \* background tasks, one per replica of the service
    Keys,          \* idempotency keys
    NoKey,         \* a submission without a key
    NoJob,
    ContentOf,     \* the document a submission carries
    KeyOf,         \* the key it carries, or NoKey
    MaxFaults      \* bound of the model: failures met by reconcilers and dispatch

ASSUME IngestionAssumption ==
    /\ Submissions \cap Reconcilers = {}
    /\ NoJob \notin Submissions
    /\ NoKey \notin Keys
    /\ IsFiniteSet(Submissions)
    /\ KeyOf \in [Submissions -> Keys \cup {NoKey}]
    /\ DOMAIN ContentOf = Submissions
    /\ MaxFaults \in Nat

VARIABLES
    status,   \* ingestion_jobs.status
    made,     \* ingestion_jobs.created_at, as the order of creation
    age,      \* how old each job is, see Ages
    keyed,    \* ingestion_idempotency_requests: the job each key is bound to
    outbox,   \* ingestion_dispatch_outbox
    object,   \* the raw bucket
    runs,     \* Temporal executions started under each job's workflow id
    puts,     \* uploads on the wire
    starts,   \* start_workflow calls on the wire
    client,   \* where each submission's handler is, or what it answered
    phase,    \* where each dispatch is
    held,     \* the outbox lease it works under
    check,    \* the upload each reconciler is looking into
    faults    \* failures so far

jobs     == <<status, made, age, keyed>>
external == <<object, runs, puts, starts>>
dispatch == <<phase, held>>
vars     == <<status, made, age, keyed, outbox, object, runs, puts, starts,
              client, phase, held, check, faults>>

Jobs      == Submissions
Executors == Submissions \cup Reconcilers

-----------------------------------------------------------------------------
(* Types *)

Statuses == {"absent", "RECEIVED", "STORED", "QUEUED", "FAILED"}

\* 1: two minutes old, reconciled; 2: fifteen minutes, given up when nothing is
\* stored; 3: beyond the window in which it is a duplicate of equal content.
Ages == 0 .. 3

\* `due` is next_attempt_at <= NOW(), `live` is lease_until > NOW(); `token`
\* is the number of the claim the lease_token was drawn for, 0 for NULL.
Row == [state : {"none", "pending", "dispatched"}, due : BOOLEAN,
        attempts : Nat, token : Nat, live : BOOLEAN]

Lease   == [job : Jobs, token : Nat \ {0}]
NoLease == [job |-> NoJob, token |-> 0]

Working  == {"new", "unseen", "matched", "fresh", "clash", "created", "uploading",
             "stored", "recorded", "dispatching"}
Served   == {"replay", "duplicate", "accepted"}
Refused  == {"key_conflict", "upload_failed", "error"}

\* The handler's place, the job it is about and, once Served, the status told.
Handler  == [at : Working \cup Served \cup Refused, job : Jobs \cup {NoJob}, told : Statuses]

\* `old` is the age_seconds > 900 of the row as it was listed.
Check    == [at : {"listed", "missing", "present", "damaged", "verified"},
             job : Jobs, old : BOOLEAN]
NoCheck  == [at |-> "idle", job |-> NoJob, old |-> FALSE]

\* Type invariant: tables, objects, handlers and calls have their shape, and a
\* dispatch holds a lease from its claim to its end.
TypeOK ==
    /\ status \in [Jobs -> Statuses]
    /\ made \in [Jobs -> Nat]
    /\ age \in [Jobs -> Ages]
    /\ keyed \in [Keys -> Jobs \cup {NoJob}]
    /\ outbox \in [Jobs -> Row]
    /\ object \in [Jobs -> {"none", "intact", "corrupt"}]
    /\ runs \in [Jobs -> Nat]
    /\ puts \subseteq Jobs
    /\ starts \subseteq Jobs
    /\ client \in [Submissions -> Handler]
    /\ phase \in [Executors -> {"idle", "claimed", "starting", "started", "failing"}]
    /\ held \in [Executors -> Lease \cup {NoLease}]
    /\ check \in [Reconcilers -> Check \cup {NoCheck}]
    /\ faults \in 0 .. MaxFaults
    /\ \A e \in Executors : phase[e] = "idle" <=> held[e] = NoLease

-----------------------------------------------------------------------------
(* Reading and writing the tables *)

Exists(j)  == status[j] # "absent"
Recent(c)  == {j \in Jobs : Exists(j) /\ ContentOf[j] = c /\ age[j] < 3}
Live(c)    == {j \in Recent(c) : status[j] # "FAILED"}
Newest(js) == {j \in js : \A i \in js : made[i] <= made[j]}

\* The job a key is bound to; NoJob for no binding and for no key.
Bound(k) == IF k = NoKey THEN NoJob ELSE keyed[k]

Bind(k, j) == keyed' = IF k = NoKey THEN keyed ELSE [keyed EXCEPT ![k] = j]

NoRow == [state |-> "none", due |-> FALSE, attempts |-> 0, token |-> 0, live |-> FALSE]
NewRow == [NoRow EXCEPT !.state = "pending", !.due = TRUE]

\* Mutant: the artifact is recorded whatever became of the job.
StoreAlways(j) ==
    /\ status' = [status EXCEPT ![j] = "STORED"]
    /\ outbox' = [outbox EXCEPT ![j] = IF @.state = "none" THEN NewRow ELSE @]

\* update_artifact: STORED and the outbox row in one transaction, if RECEIVED.
Store(j) ==
    IF status[j] = "RECEIVED"
    THEN /\ status' = [status EXCEPT ![j] = "STORED"]
         /\ outbox' = [outbox EXCEPT ![j] = IF @.state = "none" THEN NewRow ELSE @]
    ELSE UNCHANGED <<status, outbox>>

\* Mutant: a lease is never taken over.
ClaimableUnleased(j) == outbox[j].state = "pending" /\ outbox[j].due /\ outbox[j].token = 0

Claimable(j) ==
    /\ outbox[j].state = "pending"
    /\ outbox[j].due
    /\ ~ outbox[j].live

\* Mutant: the fence does not look at the token.
FencedByState(e) == outbox[held[e].job].state = "pending"

\* The lease of executor e is still the row's: the expiry is not looked at.
Fenced(e) ==
    LET row == outbox[held[e].job]
    IN  row.state = "pending" /\ row.token = held[e].token

-----------------------------------------------------------------------------
Init ==
    /\ status = [j \in Jobs |-> "absent"]
    /\ made = [j \in Jobs |-> 0]
    /\ age = [j \in Jobs |-> 0]
    /\ keyed = [k \in Keys |-> NoJob]
    /\ outbox = [j \in Jobs |-> NoRow]
    /\ object = [j \in Jobs |-> "none"]
    /\ runs = [j \in Jobs |-> 0]
    /\ puts = {}
    /\ starts = {}
    /\ client = [s \in Submissions |-> [at |-> "new", job |-> NoJob, told |-> "absent"]]
    /\ phase = [e \in Executors |-> "idle"]
    /\ held = [e \in Executors |-> NoLease]
    /\ check = [e \in Reconcilers |-> NoCheck]
    /\ faults = 0

\* A failure: the model admits MaxFaults of them.
Fault == faults < MaxFaults /\ faults' = faults + 1

-----------------------------------------------------------------------------
(* A submission, up to the registration of its job *)

Go(s, at) == client' = [client EXCEPT ![s].at = at]

Tell(s, kind, j) ==
    client' = [client EXCEPT ![s] = [at |-> kind, job |-> j, told |-> status[j]]]

\* The answer under a key that is bound: its job, or 409 for other content.
TellBound(s, kind) ==
    LET j == Bound(KeyOf[s])
    IN  IF ContentOf[j] = ContentOf[s] THEN Tell(s, kind, j) ELSE Go(s, "key_conflict")

\* The first look at the key, and the one after a unique violation.
LookupKey(s) ==
    /\ client[s].at \in {"new", "clash"}
    /\ IF Bound(KeyOf[s]) # NoJob THEN TellBound(s, "replay") ELSE Go(s, "unseen")
    /\ UNCHANGED <<jobs, outbox, external, dispatch, check, faults>>

\* The newest recent job of equal content, unless that one failed.
FindRecent(s) ==
    /\ client[s].at = "unseen"
    /\ \/ /\ \A match \in Newest(Recent(ContentOf[s])) : status[match] = "FAILED"
          /\ Go(s, "fresh")
       \/ \E match \in Newest(Recent(ContentOf[s])) :
            /\ status[match] # "FAILED"
            /\ IF KeyOf[s] = NoKey
               THEN Tell(s, "duplicate", match)
               ELSE client' = [client EXCEPT ![s] = [@ EXCEPT !.at = "matched", !.job = match]]
    /\ UNCHANGED <<jobs, outbox, external, dispatch, check, faults>>

\* Mutant: the match is answered, not the job the key turns out to be bound to.
BindKeyToMatch(s) ==
    /\ client[s].at = "matched"
    /\ IF Bound(KeyOf[s]) = NoJob THEN Bind(KeyOf[s], client[s].job) ELSE UNCHANGED keyed
    /\ Tell(s, "duplicate", client[s].job)
    /\ UNCHANGED <<status, made, age, outbox, external, dispatch, check, faults>>

\* bind_idempotency: the first binding of a key stands, and is what is answered.
BindKey(s) ==
    /\ client[s].at = "matched"
    /\ IF Bound(KeyOf[s]) = NoJob
       THEN Bind(KeyOf[s], client[s].job) /\ Tell(s, "duplicate", client[s].job)
       ELSE UNCHANGED keyed /\ TellBound(s, "duplicate")
    /\ UNCHANGED <<status, made, age, outbox, external, dispatch, check, faults>>

\* INSERT of the job and its key.
Register(s) ==
    /\ status' = [status EXCEPT ![s] = "RECEIVED"]
    /\ made' = [made EXCEPT ![s] = Cardinality({j \in Jobs : Exists(j)}) + 1]
    /\ Bind(KeyOf[s], s)
    /\ client' = [client EXCEPT ![s] = [@ EXCEPT !.at = "created", !.job = s]]

\* Mutant: what FindRecent saw is taken for granted.
CreateJobUnlocked(s) ==
    /\ client[s].at = "fresh"
    /\ IF Bound(KeyOf[s]) # NoJob
       THEN Go(s, "clash") /\ UNCHANGED <<status, made, keyed>>
       ELSE Register(s)
    /\ UNCHANGED <<age, outbox, external, dispatch, check, faults>>

\* create_job: under the lock of the content, look for a live job again; a key
\* bound since then violates its primary key and undoes everything.
CreateJob(s) ==
    /\ client[s].at = "fresh"
    /\ \/ /\ Bound(KeyOf[s]) # NoJob
          /\ Go(s, "clash")
          /\ UNCHANGED <<status, made, keyed>>
       \/ /\ Bound(KeyOf[s]) = NoJob
          /\ \E j \in Newest(Live(ContentOf[s])) : Bind(KeyOf[s], j) /\ Tell(s, "duplicate", j)
          /\ UNCHANGED <<status, made>>
       \/ /\ Bound(KeyOf[s]) = NoJob
          /\ Live(ContentOf[s]) = {}
          /\ Register(s)
    /\ UNCHANGED <<age, outbox, external, dispatch, check, faults>>

-----------------------------------------------------------------------------
(* A submission that created its job: upload, record, dispatch, answer *)

PutObject(s) ==
    /\ client[s].at = "created"
    /\ puts' = puts \cup {s}
    /\ Go(s, "uploading")
    /\ UNCHANGED <<jobs, outbox, object, runs, starts, dispatch, check, faults>>

Uploaded(s) ==
    /\ client[s].at = "uploading"
    /\ object[s] # "none"
    /\ Go(s, "stored")
    /\ UNCHANGED <<jobs, outbox, external, dispatch, check, faults>>

\* 503: a PUT that timed out may have been committed, or yet be.
UploadFails(s) ==
    /\ client[s].at = "uploading"
    /\ Go(s, "upload_failed")
    /\ UNCHANGED <<jobs, outbox, external, dispatch, check, faults>>

RecordArtifact(s) ==
    /\ client[s].at = "stored"
    /\ Store(s)
    /\ Go(s, "recorded")
    /\ UNCHANGED <<made, age, keyed, external, dispatch, check, faults>>

\* claim_dispatch of its own job found nothing to lease, or skipped a locked row.
NothingToDispatch(s) ==
    /\ client[s].at = "recorded"
    /\ Go(s, "dispatching")
    /\ UNCHANGED <<jobs, outbox, external, dispatch, check, faults>>

\* 200 with the status the job has by now.
Accept(s) ==
    /\ client[s].at = "dispatching"
    /\ phase[s] = "idle"
    /\ Tell(s, "accepted", s)
    /\ UNCHANGED <<jobs, outbox, external, dispatch, check, faults>>

\* Mutant: the lease of a finished dispatch is remembered.
ReleaseKeepsLease(e) ==
    /\ phase' = [phase EXCEPT ![e] = "idle"]
    /\ UNCHANGED held

Release(e) ==
    /\ phase' = [phase EXCEPT ![e] = "idle"]
    /\ held' = [held EXCEPT ![e] = NoLease]

\* The process dies or a call fails the handler: 500, or no answer at all.
CrashSubmission(s) ==
    /\ client[s].at \in Working
    /\ Go(s, "error")
    /\ Release(s)
    /\ UNCHANGED <<jobs, outbox, external, check, faults>>

-----------------------------------------------------------------------------
(* Dispatch, by a submission of its own job or by a reconciler of any *)

MayClaim(e, j) ==
    /\ phase[e] = "idle"
    /\ IF e \in Submissions THEN client[e].at = "recorded" /\ j = e ELSE check[e] = NoCheck

Claim(e, j) ==
    /\ MayClaim(e, j)
    /\ Claimable(j)
    /\ LET n == outbox[j].attempts + 1
       IN  /\ outbox' = [outbox EXCEPT ![j] = [@ EXCEPT !.attempts = n, !.token = n, !.live = TRUE]]
           /\ held' = [held EXCEPT ![e] = [job |-> j, token |-> n]]
    /\ phase' = [phase EXCEPT ![e] = "claimed"]
    /\ IF e \in Submissions THEN Go(e, "dispatching") ELSE UNCHANGED client
    /\ UNCHANGED <<jobs, external, check, faults>>

StartWorkflow(e) ==
    /\ phase[e] = "claimed"
    /\ starts' = starts \cup {held[e].job}
    /\ phase' = [phase EXCEPT ![e] = "starting"]
    /\ UNCHANGED <<jobs, outbox, object, runs, puts, client, held, check, faults>>

\* A handle, or WorkflowAlreadyStartedError with the run there is.
Started(e) ==
    /\ phase[e] = "starting"
    /\ runs[held[e].job] > 0
    /\ phase' = [phase EXCEPT ![e] = "started"]
    /\ UNCHANGED <<jobs, outbox, external, client, held, check, faults>>

\* mark_queued of a stored job under a lease that still stands.
Queue(e) ==
    LET j == held[e].job
    IN  /\ status' = [status EXCEPT ![j] = "QUEUED"]
        /\ outbox' = [outbox EXCEPT ![j] = [@ EXCEPT !.state = "dispatched", !.live = FALSE]]
        /\ UNCHANGED <<made, age, keyed>>

Queueable(e) == Fenced(e) /\ status[held[e].job] \in {"STORED", "QUEUED"}

MarkQueued(e) ==
    /\ phase[e] = "started"
    /\ Queueable(e)
    /\ Queue(e)
    /\ Release(e)
    /\ UNCHANGED <<external, client, check, faults>>

\* "Dispatch lease was superseded", or the job has no stored artifact.
MarkQueuedRefused(e) ==
    /\ phase[e] = "started"
    /\ ~ Queueable(e)
    /\ phase' = [phase EXCEPT ![e] = "failing"]
    /\ UNCHANGED <<jobs, outbox, external, client, held, check, faults>>

\* Temporal or the database fails: the step took effect or it did not.
DispatchFails(e) ==
    /\ Fault
    /\ phase[e] \in {"claimed", "starting", "started"}
    /\ \/ UNCHANGED <<jobs, outbox>>
       \/ phase[e] = "started" /\ Queueable(e) /\ Queue(e)
    /\ phase' = [phase EXCEPT ![e] = "failing"]
    /\ UNCHANGED <<external, client, held, check>>

\* The row is due again after a backoff, if the lease still stands.
ReleaseDispatch(e) ==
    /\ phase[e] = "failing"
    /\ outbox' = IF Fenced(e)
                 THEN [outbox EXCEPT ![held[e].job] =
                         [@ EXCEPT !.live = FALSE, !.token = 0, !.due = FALSE]]
                 ELSE outbox
    /\ Release(e)
    /\ UNCHANGED <<jobs, external, client, check, faults>>

-----------------------------------------------------------------------------
(* The reconciler's check of incomplete uploads, one listed row after another *)

ListUpload(e, j) ==
    /\ check[e] = NoCheck
    /\ phase[e] = "idle"
    /\ status[j] = "RECEIVED"
    /\ age[j] >= 1
    /\ check' = [check EXCEPT ![e] = [at |-> "listed", job |-> j, old |-> age[j] >= 2]]
    /\ UNCHANGED <<jobs, outbox, external, client, dispatch, faults>>

\* HEAD of the raw object: a missing one is waited for, or given up.
HeadObject(e) ==
    /\ check[e].at = "listed"
    /\ check' = [check EXCEPT ![e] =
                   IF object[check[e].job] # "none" THEN [@ EXCEPT !.at = "present"]
                   ELSE IF check[e].old THEN [@ EXCEPT !.at = "missing"]
                   ELSE NoCheck]
    /\ UNCHANGED <<jobs, outbox, external, client, dispatch, faults>>

\* Mutant: the object is not compared with the registered size and checksum.
VerifyNothing(e) ==
    /\ check[e].at = "present"
    /\ check' = [check EXCEPT ![e].at = "verified"]
    /\ UNCHANGED <<jobs, outbox, external, client, dispatch, faults>>

VerifyArtifact(e) ==
    /\ check[e].at = "present"
    /\ check' = [check EXCEPT ![e].at =
                   IF object[check[e].job] = "intact" THEN "verified" ELSE "damaged"]
    /\ UNCHANGED <<jobs, outbox, external, client, dispatch, faults>>

MarkFailed(e) ==
    /\ check[e].at \in {"missing", "damaged"}
    /\ status' = [status EXCEPT ![check[e].job] = IF @ = "RECEIVED" THEN "FAILED" ELSE @]
    /\ check' = [check EXCEPT ![e] = NoCheck]
    /\ UNCHANGED <<made, age, keyed, outbox, external, client, dispatch, faults>>

RecoverArtifact(e) ==
    /\ check[e].at = "verified"
    /\ Store(check[e].job)
    /\ check' = [check EXCEPT ![e] = NoCheck]
    /\ UNCHANGED <<made, age, keyed, external, client, dispatch, faults>>

\* A storage or database error ends the pass, and the process may die.
CrashReconciler(e) ==
    /\ Fault
    /\ check[e] # NoCheck \/ phase[e] # "idle"
    /\ check' = [check EXCEPT ![e] = NoCheck]
    /\ Release(e)
    /\ UNCHANGED <<jobs, outbox, external, client>>

-----------------------------------------------------------------------------
(* Time, the object store and Temporal *)

GetsOlder(j) ==
    /\ Exists(j)
    /\ age[j] < 3
    /\ age' = [age EXCEPT ![j] = @ + 1]
    /\ UNCHANGED <<status, made, keyed, outbox, external, client, dispatch, check, faults>>

\* A lease that expires under a reconciler that is still at it counts as a
\* fault; one of a submission may be left by a crash at any time.
LeaseExpires(j) ==
    /\ outbox[j].live
    /\ outbox' = [outbox EXCEPT ![j] = [@ EXCEPT !.live = FALSE]]
    /\ IF \E e \in Reconcilers : held[e] = [job |-> j, token |-> outbox[j].token]
       THEN Fault ELSE UNCHANGED faults
    /\ UNCHANGED <<jobs, external, client, dispatch, check>>

OutboxDue(j) ==
    /\ outbox[j].state = "pending"
    /\ ~ outbox[j].due
    /\ outbox' = [outbox EXCEPT ![j] = [@ EXCEPT !.due = TRUE]]
    /\ UNCHANGED <<jobs, external, client, dispatch, check, faults>>

\* The object store commits the upload; what it keeps may be damaged.
LandPut(j) ==
    /\ puts' = puts \ {j}
    /\ \E kept \in {"intact", "corrupt"} : object' = [object EXCEPT ![j] = kept]
    /\ UNCHANGED <<jobs, outbox, runs, starts, client, dispatch, check, faults>>

\* Mutant: WorkflowIDReusePolicy.ALLOW_DUPLICATE.
LandStartAgain(j) ==
    /\ starts' = starts \ {j}
    /\ runs' = [runs EXCEPT ![j] = @ + 1]
    /\ UNCHANGED <<jobs, outbox, object, puts, client, dispatch, check, faults>>

\* Temporal starts the workflow id once: REJECT_DUPLICATE.
LandStart(j) ==
    /\ starts' = starts \ {j}
    /\ runs' = [runs EXCEPT ![j] = IF @ = 0 THEN 1 ELSE @]
    /\ UNCHANGED <<jobs, outbox, object, puts, client, dispatch, check, faults>>

-----------------------------------------------------------------------------
SubmissionStep(s) ==
    \/ LookupKey(s) \/ FindRecent(s) \/ BindKey(s) \/ CreateJob(s)
    \/ PutObject(s) \/ Uploaded(s) \/ UploadFails(s) \/ RecordArtifact(s)
    \/ NothingToDispatch(s) \/ Accept(s)

DispatchStep(e) ==
    StartWorkflow(e) \/ Started(e) \/ MarkQueued(e) \/ MarkQueuedRefused(e) \/ ReleaseDispatch(e)

CheckStep(e) == HeadObject(e) \/ VerifyArtifact(e) \/ MarkFailed(e) \/ RecoverArtifact(e)

Time(j) == GetsOlder(j) \/ LeaseExpires(j) \/ OutboxDue(j)

Next ==
    \/ \E s \in Submissions : SubmissionStep(s) \/ CrashSubmission(s)
    \/ \E e \in Executors : DispatchStep(e) \/ DispatchFails(e) \/ \E j \in Jobs : Claim(e, j)
    \/ \E e \in Reconcilers : CheckStep(e) \/ CrashReconciler(e) \/ \E j \in Jobs : ListUpload(e, j)
    \/ \E j \in Jobs : Time(j)
    \/ \E j \in puts : LandPut(j)
    \/ \E j \in starts : LandStart(j)

Spec == Init /\ [][Next]_vars

\* A reconciler is restarted with its process; its loop alternates between a
\* pass over the incomplete uploads and the due rows of the outbox, so neither
\* starves the other.  Time passes, and Temporal answers unless a fault says
\* otherwise.  Submissions and their uploads promise nothing.
FairSpec ==
    /\ Spec
    /\ \A e \in Reconcilers :
         /\ WF_vars(DispatchStep(e))
         /\ WF_vars(CheckStep(e))
         /\ \A j \in Jobs : SF_vars(ListUpload(e, j)) /\ SF_vars(Claim(e, j))
    /\ \A j \in Jobs :
         /\ WF_vars(GetsOlder(j))
         /\ WF_vars(LeaseExpires(j))
         /\ WF_vars(OutboxDue(j))
         /\ WF_vars(j \in starts /\ LandStart(j))

-----------------------------------------------------------------------------
(* Safety *)

\* The lock of create_job: however many equal documents are submitted at once,
\* at most one job of a content is inside the window and not failed.
OneLiveJob ==
    \A i, j \in Jobs : (i # j /\ ContentOf[i] = ContentOf[j])
                         => ~ (i \in Live(ContentOf[i]) /\ j \in Live(ContentOf[j]))

\* A key means one job: every 200 given under it, by whichever of the five
\* paths through the handler, names the same job, one of the caller's content.
KeyMeansOneJob ==
    \A s \in Submissions :
      client[s].at \in Served =>
        /\ ContentOf[client[s].job] = ContentOf[s]
        /\ KeyOf[s] # NoKey => client[s].job = keyed[KeyOf[s]]

\* A workflow runs only for a job whose artifact was stored and recorded, once;
\* a job is queued exactly when its outbox row is done, and only after the
\* workflow started; a failed job has no outbox row and never ran.
WorkflowBackedByArtifact ==
    \A j \in Jobs :
      /\ runs[j] <= 1
      /\ runs[j] > 0 => status[j] \in {"STORED", "QUEUED"}
      /\ status[j] \in {"STORED", "QUEUED"} => object[j] # "none"
      /\ status[j] = "STORED" <=> outbox[j].state = "pending"
      /\ status[j] = "QUEUED" <=> outbox[j].state = "dispatched"
      /\ status[j] = "QUEUED" => runs[j] = 1

-----------------------------------------------------------------------------
(* Action properties *)

\* A dispatcher whose lease was superseded changes neither the job nor the
\* row when it acknowledges, is refused or gives up.
StaleDispatcherIsHarmless ==
    [][ \A e \in Executors :
          (/\ phase[e] \in {"started", "failing"} /\ phase'[e] # phase[e]
           /\ outbox[held[e].job].token # held[e].token)
             => UNCHANGED <<status, outbox>> ]_vars

\* A job found interrupted is recorded only with the bytes it was registered
\* with: damaged ones get past only in the hands of the submission whose
\* upload the store had acknowledged.
RecoveredIsVerified ==
    [][ \A j \in Jobs :
          (status[j] = "RECEIVED" /\ status'[j] = "STORED" /\ object[j] = "corrupt")
             => client[j].at = "stored" ]_vars

-----------------------------------------------------------------------------
(* What the service promises a caller: see IntakePromise. *)

Promise == INSTANCE IntakePromise WITH
    bound   <- keyed,
    stage   <- [j \in Jobs |-> IF status[j] = "absent" THEN "none"
                               ELSE IF status[j] = "RECEIVED" THEN "registered"
                               ELSE IF status[j] = "FAILED" THEN "failed"
                               ELSE IF runs[j] = 0 THEN "durable"
                               ELSE "processing"],
    settled <- {j \in Jobs : status[j] = "QUEUED"}

\* The handlers, the reconciler and their crashes implement the promise.
ImplementsPromise == Promise!Spec

-----------------------------------------------------------------------------
(* Liveness *)

\* A registered job is queued or failed, and one whose artifact is recorded is
\* queued, without any caller coming back.
Settles ==
    \A j \in Jobs :
      /\ status[j] = "RECEIVED" ~> status[j] \in {"QUEUED", "FAILED"}
      /\ status[j] = "STORED" ~> status[j] = "QUEUED"

-----------------------------------------------------------------------------
(* What the public contract says of a 503: infra/api/PUBLIC_API.md:180-187, *)
(* a retry with the same Idempotency-Key is safe.                           *)

\* A retry of a failed upload that is answered 200 with its job under way does
\* not see the job fail for want of the upload.
RetryAfter503IsServed ==
    \A s, t \in Submissions :
      (/\ s # t /\ KeyOf[s] = KeyOf[t] /\ KeyOf[s] # NoKey
       /\ client[s].at = "upload_failed"
       /\ client[t].at = "replay" /\ client[t].told # "FAILED"
       /\ object[client[t].job] = "none")
         => status[client[t].job] # "FAILED"
=============================================================================
