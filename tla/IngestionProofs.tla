--------------------------- MODULE IngestionProofs ---------------------------
(***************************************************************************)
(* Theorems of Ingestion, for any submissions, keys, contents, replicas and *)
(* number of faults: its invariants, what late and interrupted workers      *)
(* cannot do, and that handlers, reconcilers and their crashes implement    *)
(* IntakePromise.                                                          *)
(***************************************************************************)
EXTENDS Ingestion, FiniteSetTheorems, TLAPS

-----------------------------------------------------------------------------
(* Type correctness *)

\* A duplicate that awaits the binding of its key is a job.
MatchKnown ==
    \A s \in Submissions : client[s].at = "matched" => client[s].job \in Jobs

TypeInv == TypeOK /\ MatchKnown

\* A handler that goes on to another place keeps its shape.
LEMMA GoType ==
    ASSUME TypeInv, NEW s \in Submissions,
           NEW at \in (Working \cup Served \cup Refused) \ {"matched"}, Go(s, at)
    PROVE  client' \in [Submissions -> Handler] /\ MatchKnown'
<1>1. client \in [Submissions -> Handler] /\ client' = [client EXCEPT ![s].at = at]
  BY Zenon DEF TypeInv, TypeOK, Go
<1>2. client' = [client EXCEPT ![s] = [client[s] EXCEPT !.at = at]]
  BY <1>1
<1>3. [client[s] EXCEPT !.at = at] \in Handler
  BY <1>1 DEF Handler
<1>4. client' \in [Submissions -> Handler]
  BY <1>1, <1>2, <1>3
<1>5. MatchKnown'
  BY <1>1, <1>2, <1>3 DEF MatchKnown, TypeInv, Handler
<1> QED BY <1>4, <1>5

\* An answer has the shape of a handler's state.
LEMMA TellType ==
    ASSUME TypeInv, NEW s \in Submissions, NEW kind \in Served, NEW j \in Jobs, Tell(s, kind, j)
    PROVE  client' \in [Submissions -> Handler] /\ MatchKnown'
<1> DEFINE answer == [at |-> kind, job |-> j, told |-> status[j]]
<1>1. client \in [Submissions -> Handler] /\ client' = [client EXCEPT ![s] = answer]
  BY Zenon DEF TypeInv, TypeOK, Tell
<1>2. answer \in Handler /\ answer.at # "matched"
  BY DEF Handler, TypeInv, TypeOK, Served
<1>3. client' \in [Submissions -> Handler]
  BY <1>1, <1>2
<1>4. MatchKnown'
  BY <1>1, <1>2 DEF MatchKnown, TypeInv
<1> QED BY <1>3, <1>4

\* So has the answer under a bound key.
LEMMA TellBoundType ==
    ASSUME TypeInv, NEW s \in Submissions, NEW kind \in Served,
           Bound(KeyOf[s]) # NoJob, TellBound(s, kind)
    PROVE  client' \in [Submissions -> Handler] /\ MatchKnown'
<1> DEFINE j == Bound(KeyOf[s])
<1>1. j \in Jobs
  BY IngestionAssumption DEF TypeInv, TypeOK, Bound
<1>2. CASE Tell(s, kind, j)
  BY <1>1, <1>2, TellType
<1>3. CASE Go(s, "key_conflict")
  BY <1>3, GoType DEF Refused
<1> QED BY <1>2, <1>3 DEF TellBound

\* A binding gives a key a job.
LEMMA BindType ==
    ASSUME TypeInv, NEW s \in Submissions, NEW j \in Jobs, Bind(KeyOf[s], j)
    PROVE  keyed' \in [Keys -> Jobs \cup {NoJob}]
<1>1. keyed \in [Keys -> Jobs \cup {NoJob}] /\ KeyOf[s] \in Keys \cup {NoKey}
  BY IngestionAssumption DEF TypeInv, TypeOK
<1>2. CASE KeyOf[s] = NoKey
  BY <1>1, <1>2 DEF Bind
<1>3. CASE KeyOf[s] # NoKey
  BY <1>1, <1>3 DEF Bind
<1> QED BY <1>2, <1>3

\* Recording an artifact keeps the shape of jobs and outbox.
LEMMA StoreType ==
    ASSUME TypeInv, NEW j \in Jobs, Store(j)
    PROVE  status' \in [Jobs -> Statuses] /\ outbox' \in [Jobs -> Row]
<1>1. NewRow \in Row
  BY DEF NewRow, NoRow, Row
<1>2. status \in [Jobs -> Statuses] /\ outbox \in [Jobs -> Row] /\ "STORED" \in Statuses
  BY DEF TypeInv, TypeOK, Statuses
<1>3. CASE status[j] = "RECEIVED"
  <2>1. /\ status' = [status EXCEPT ![j] = "STORED"]
        /\ outbox' = [outbox EXCEPT ![j] = IF outbox[j].state = "none" THEN NewRow ELSE outbox[j]]
    BY <1>3 DEF Store
  <2> QED BY <1>1, <1>2, <2>1
<1>4. CASE status[j] # "RECEIVED"
  BY <1>2, <1>4 DEF Store
<1> QED BY <1>3, <1>4

\* So does marking a job queued.
LEMMA QueueType ==
    ASSUME TypeInv, NEW e \in Executors, held[e] \in Lease, Queue(e)
    PROVE  /\ status' \in [Jobs -> Statuses] /\ outbox' \in [Jobs -> Row]
           /\ UNCHANGED <<made, age, keyed>>
<1> DEFINE j == held[e].job
<1>1. j \in Jobs /\ status \in [Jobs -> Statuses] /\ outbox \in [Jobs -> Row]
  BY DEF TypeInv, TypeOK, Lease
<1>2. /\ status' = [status EXCEPT ![j] = "QUEUED"]
      /\ outbox' = [outbox EXCEPT ![j] = [outbox[j] EXCEPT !.state = "dispatched", !.live = FALSE]]
      /\ UNCHANGED <<made, age, keyed>>
  BY DEF Queue
<1>3. [outbox[j] EXCEPT !.state = "dispatched", !.live = FALSE] \in Row
  BY <1>1 DEF Row
<1>4. "QUEUED" \in Statuses
  BY DEF Statuses
<1> QED BY <1>1, <1>2, <1>3, <1>4

\* The end of a dispatch.
LEMMA ReleaseType ==
    ASSUME TypeInv, NEW e \in Executors, Release(e)
    PROVE  /\ phase' \in [Executors -> {"idle", "claimed", "starting", "started", "failing"}]
           /\ held' \in [Executors -> Lease \cup {NoLease}]
           /\ \A x \in Executors : phase'[x] = "idle" <=> held'[x] = NoLease
BY DEF TypeInv, TypeOK, Release

\* The next step of a dispatch.
LEMMA PhaseType ==
    ASSUME TypeInv, NEW e \in Executors, phase[e] # "idle",
           NEW p \in {"claimed", "starting", "started", "failing"},
           phase' = [phase EXCEPT ![e] = p], UNCHANGED held
    PROVE  /\ phase' \in [Executors -> {"idle", "claimed", "starting", "started", "failing"}]
           /\ \A x \in Executors : phase'[x] = "idle" <=> held'[x] = NoLease
BY DEF TypeInv, TypeOK

\* A dispatch under way holds a lease.
LEMMA BusyHoldsLease ==
    ASSUME TypeInv, NEW e \in Executors, phase[e] # "idle"
    PROVE  held[e] \in Lease
BY DEF TypeInv, TypeOK

LEMMA InitType == Init => TypeInv
<1> SUFFICES ASSUME Init PROVE TypeInv
  OBVIOUS
<1>1. NoRow \in Row /\ 0 \in Ages /\ 0 \in 0 .. MaxFaults
  BY IngestionAssumption DEF NoRow, Row, Ages
<1>2. [at |-> "new", job |-> NoJob, told |-> "absent"] \in Handler
  BY DEF Handler, Working, Statuses
<1>3. "absent" \in Statuses
  BY DEF Statuses
<1> QED BY <1>1, <1>2, <1>3 DEF Init, TypeInv, TypeOK, MatchKnown

\* What a step of a submission's handler leaves alone when it only talks.
LEMMA TalkType ==
    ASSUME TypeInv, client' \in [Submissions -> Handler], MatchKnown',
           UNCHANGED <<jobs, outbox, external, dispatch, check, faults>>
    PROVE  TypeInv'
BY DEF TypeInv, TypeOK, jobs, external, dispatch

LEMMA SubmissionType ==
    ASSUME TypeInv, NEW s \in Submissions, SubmissionStep(s)
    PROVE  TypeInv'
<1> USE DEF Jobs
<1>1. CASE LookupKey(s)
  <2>1. CASE Bound(KeyOf[s]) # NoJob
    <3>1. client' \in [Submissions -> Handler] /\ MatchKnown'
      BY <1>1, <2>1, TellBoundType DEF LookupKey, Served
    <3> QED BY <1>1, <3>1, TalkType DEF LookupKey
  <2>2. CASE Bound(KeyOf[s]) = NoJob
    <3>1. client' \in [Submissions -> Handler] /\ MatchKnown'
      BY <1>1, <2>2, GoType DEF LookupKey, Working
    <3> QED BY <1>1, <3>1, TalkType DEF LookupKey
  <2> QED BY <2>1, <2>2
<1>2. CASE FindRecent(s)
  <2>1. CASE Go(s, "fresh")
    <3>1. client' \in [Submissions -> Handler] /\ MatchKnown'
      BY <2>1, GoType DEF Working
    <3> QED BY <1>2, <3>1, TalkType DEF FindRecent
  <2>2. ASSUME NEW match \in Newest(Recent(ContentOf[s])), KeyOf[s] = NoKey,
               Tell(s, "duplicate", match)
        PROVE  TypeInv'
    <3>1. match \in Jobs
      BY <2>2 DEF Newest, Recent
    <3>2. client' \in [Submissions -> Handler] /\ MatchKnown'
      BY <2>2, <3>1, TellType DEF Served
    <3> QED BY <1>2, <3>2, TalkType DEF FindRecent
  <2>3. ASSUME NEW match \in Newest(Recent(ContentOf[s])),
               client' = [client EXCEPT ![s] = [client[s] EXCEPT !.at = "matched", !.job = match]]
        PROVE  TypeInv'
    <3>1. match \in Jobs /\ client \in [Submissions -> Handler]
      BY <2>3 DEF Newest, Recent, TypeInv, TypeOK
    <3>2. [client[s] EXCEPT !.at = "matched", !.job = match] \in Handler
      BY <3>1 DEF Handler, Working
    <3>3. client' \in [Submissions -> Handler]
      BY <2>3, <3>1, <3>2
    <3>4. MatchKnown'
      BY <2>3, <3>1 DEF MatchKnown, TypeInv, Handler
    <3> QED BY <1>2, <3>3, <3>4, TalkType DEF FindRecent
  <2>4. \/ Go(s, "fresh")
        \/ \E match \in Newest(Recent(ContentOf[s])) :
             \/ KeyOf[s] = NoKey /\ Tell(s, "duplicate", match)
             \/ client' = [client EXCEPT ![s] =
                              [client[s] EXCEPT !.at = "matched", !.job = match]]
    BY <1>2, Zenon DEF FindRecent
  <2> QED BY <2>1, <2>2, <2>3, <2>4
<1>3. CASE BindKey(s)
  <2>1. client[s].job \in Jobs
    BY <1>3 DEF BindKey, TypeInv, MatchKnown
  <2>2. CASE Bound(KeyOf[s]) = NoJob
    <3>1. keyed' \in [Keys -> Jobs \cup {NoJob}]
      BY <1>3, <2>1, <2>2, BindType DEF BindKey
    <3>2. client' \in [Submissions -> Handler] /\ MatchKnown'
      BY <1>3, <2>1, <2>2, TellType DEF BindKey, Served
    <3> QED BY <1>3, <3>1, <3>2 DEF BindKey, TypeInv, TypeOK, external, dispatch
  <2>3. CASE Bound(KeyOf[s]) # NoJob
    <3>1. client' \in [Submissions -> Handler] /\ MatchKnown'
      BY <1>3, <2>3, TellBoundType DEF BindKey, Served
    <3> QED BY <1>3, <2>3, <3>1 DEF BindKey, TypeInv, TypeOK, external, dispatch
  <2> QED BY <2>2, <2>3
<1>4. CASE CreateJob(s)
  <2>1. CASE Go(s, "clash") /\ UNCHANGED <<status, made, keyed>>
    <3>1. client' \in [Submissions -> Handler] /\ MatchKnown'
      BY <2>1, GoType DEF Working
    <3> QED BY <1>4, <2>1, <3>1 DEF CreateJob, TypeInv, TypeOK, external, dispatch
  <2>2. ASSUME NEW j \in Newest(Live(ContentOf[s])), Bind(KeyOf[s], j),
               Tell(s, "duplicate", j), UNCHANGED <<status, made>>
        PROVE  TypeInv'
    <3>1. j \in Jobs
      BY <2>2 DEF Newest, Live, Recent
    <3>2. keyed' \in [Keys -> Jobs \cup {NoJob}]
      BY <2>2, <3>1, BindType
    <3>3. client' \in [Submissions -> Handler] /\ MatchKnown'
      BY <2>2, <3>1, TellType DEF Served
    <3> QED BY <1>4, <2>2, <3>2, <3>3 DEF CreateJob, TypeInv, TypeOK, external, dispatch
  <2>3. CASE Register(s)
    <3> DEFINE there == {j \in Jobs : Exists(j)}
               place == [client[s] EXCEPT !.at = "created", !.job = s]
    <3>1. there \subseteq Submissions /\ IsFiniteSet(Submissions)
      BY IngestionAssumption
    <3>2. Cardinality(there) \in Nat
      BY <3>1, FS_Subset, FS_CardinalityType
    <3>3. /\ status' = [status EXCEPT ![s] = "RECEIVED"]
          /\ made' = [made EXCEPT ![s] = Cardinality(there) + 1]
          /\ Bind(KeyOf[s], s)
          /\ client' = [client EXCEPT ![s] = place]
      BY <2>3, Zenon DEF Register
    <3> HIDE DEF there
    <3>4. status' \in [Jobs -> Statuses] /\ made' \in [Jobs -> Nat]
      BY <3>2, <3>3 DEF TypeInv, TypeOK, Statuses
    <3>5. keyed' \in [Keys -> Jobs \cup {NoJob}]
      BY <3>3, BindType
    <3>6. client \in [Submissions -> Handler]
      BY DEF TypeInv, TypeOK
    <3>7. place \in Handler /\ place.at # "matched"
      BY <3>6 DEF Handler, Working
    <3>8. client' \in [Submissions -> Handler]
      BY <3>3, <3>6, <3>7
    <3>9. MatchKnown'
      BY <3>3, <3>6, <3>7 DEF MatchKnown, TypeInv
    <3> QED BY <1>4, <3>4, <3>5, <3>8, <3>9 DEF CreateJob, TypeInv, TypeOK, external, dispatch
  <2> QED BY <1>4, <2>1, <2>2, <2>3 DEF CreateJob
<1>5. CASE PutObject(s)
  <2>1. client' \in [Submissions -> Handler] /\ MatchKnown'
    BY <1>5, GoType DEF PutObject, Working
  <2> QED BY <1>5, <2>1 DEF PutObject, TypeInv, TypeOK, jobs, dispatch
<1>6. CASE RecordArtifact(s)
  <2>1. client' \in [Submissions -> Handler] /\ MatchKnown'
    BY <1>6, GoType DEF RecordArtifact, Working
  <2>2. status' \in [Jobs -> Statuses] /\ outbox' \in [Jobs -> Row]
    BY <1>6, StoreType DEF RecordArtifact
  <2> QED BY <1>6, <2>1, <2>2 DEF RecordArtifact, TypeInv, TypeOK, external, dispatch
<1>7. CASE Uploaded(s) \/ UploadFails(s) \/ NothingToDispatch(s)
  <2>1. client' \in [Submissions -> Handler] /\ MatchKnown'
    BY <1>7, GoType DEF Uploaded, UploadFails, NothingToDispatch, Working, Refused
  <2> QED BY <1>7, <2>1, TalkType DEF Uploaded, UploadFails, NothingToDispatch
<1>8. CASE Accept(s)
  <2>1. client' \in [Submissions -> Handler] /\ MatchKnown'
    BY <1>8, TellType DEF Accept, Served
  <2> QED BY <1>8, <2>1, TalkType DEF Accept
<1> QED BY <1>1, <1>2, <1>3, <1>4, <1>5, <1>6, <1>7, <1>8 DEF SubmissionStep

LEMMA DispatchType ==
    ASSUME TypeInv, NEW e \in Executors,
           \/ DispatchStep(e) \/ DispatchFails(e) \/ \E j \in Jobs : Claim(e, j)
    PROVE  TypeInv'
<1>1. CASE StartWorkflow(e)
  <2>1. held[e] \in Lease
    BY <1>1, BusyHoldsLease DEF StartWorkflow
  <2>2. starts' \subseteq Jobs
    BY <1>1, <2>1 DEF StartWorkflow, TypeInv, TypeOK, Lease
  <2>3. /\ phase' \in [Executors -> {"idle", "claimed", "starting", "started", "failing"}]
        /\ \A x \in Executors : phase'[x] = "idle" <=> held'[x] = NoLease
    BY <1>1, PhaseType DEF StartWorkflow
  <2> QED BY <1>1, <2>2, <2>3 DEF StartWorkflow, TypeInv, TypeOK, MatchKnown, jobs
<1>2. CASE Started(e) \/ MarkQueuedRefused(e)
  <2>1. /\ phase' \in [Executors -> {"idle", "claimed", "starting", "started", "failing"}]
        /\ \A x \in Executors : phase'[x] = "idle" <=> held'[x] = NoLease
    BY <1>2, PhaseType DEF Started, MarkQueuedRefused
  <2> QED BY <1>2, <2>1 DEF Started, MarkQueuedRefused, TypeInv, TypeOK, MatchKnown, jobs, external
<1>3. CASE MarkQueued(e)
  <2>1. /\ status' \in [Jobs -> Statuses] /\ outbox' \in [Jobs -> Row]
        /\ UNCHANGED <<made, age, keyed>>
    BY <1>3, BusyHoldsLease, QueueType DEF MarkQueued
  <2>2. /\ phase' \in [Executors -> {"idle", "claimed", "starting", "started", "failing"}]
        /\ held' \in [Executors -> Lease \cup {NoLease}]
        /\ \A x \in Executors : phase'[x] = "idle" <=> held'[x] = NoLease
    BY <1>3, ReleaseType DEF MarkQueued
  <2> QED BY <1>3, <2>1, <2>2 DEF MarkQueued, TypeInv, TypeOK, MatchKnown, external
<1>4. CASE DispatchFails(e)
  <2>1. phase[e] # "idle" /\ held[e] \in Lease
    BY <1>4, BusyHoldsLease DEF DispatchFails
  <2>2. /\ status' \in [Jobs -> Statuses] /\ outbox' \in [Jobs -> Row]
        /\ UNCHANGED <<made, age, keyed>>
    <3>1. CASE Queue(e)
      BY <2>1, <3>1, QueueType
    <3>2. CASE UNCHANGED <<jobs, outbox>>
      BY <3>2 DEF TypeInv, TypeOK, jobs
    <3> QED BY <1>4, <3>1, <3>2 DEF DispatchFails
  <2>3. /\ phase' \in [Executors -> {"idle", "claimed", "starting", "started", "failing"}]
        /\ \A x \in Executors : phase'[x] = "idle" <=> held'[x] = NoLease
    BY <1>4, <2>1, PhaseType DEF DispatchFails
  <2>4. faults' \in 0 .. MaxFaults
    BY <1>4, IngestionAssumption DEF DispatchFails, Fault, TypeInv, TypeOK
  <2> QED BY <1>4, <2>2, <2>3, <2>4 DEF DispatchFails, TypeInv, TypeOK, MatchKnown, external
<1>5. CASE ReleaseDispatch(e)
  <2> DEFINE j == held[e].job
             row == [outbox[j] EXCEPT !.live = FALSE, !.token = 0, !.due = FALSE]
  <2>1. j \in Jobs /\ outbox \in [Jobs -> Row]
    BY <1>5, BusyHoldsLease DEF ReleaseDispatch, TypeInv, TypeOK, Lease
  <2>2. row \in Row
    <3>1. outbox[j] \in Row
      BY <2>1
    <3>2. [outbox[j] EXCEPT !.live = FALSE, !.token = 0] \in Row
      BY <3>1 DEF Row
    <3>3. row = [[outbox[j] EXCEPT !.live = FALSE, !.token = 0] EXCEPT !.due = FALSE]
      BY Zenon
    <3> QED BY <3>2, <3>3 DEF Row
  <2>3. outbox' = [outbox EXCEPT ![j] = row] \/ outbox' = outbox
    BY <1>5, Zenon DEF ReleaseDispatch
  <2>4. outbox' \in [Jobs -> Row]
    BY <2>1, <2>2, <2>3
  <2>5. /\ phase' \in [Executors -> {"idle", "claimed", "starting", "started", "failing"}]
        /\ held' \in [Executors -> Lease \cup {NoLease}]
        /\ \A x \in Executors : phase'[x] = "idle" <=> held'[x] = NoLease
    BY <1>5, ReleaseType DEF ReleaseDispatch
  <2> QED BY <1>5, <2>4, <2>5 DEF ReleaseDispatch, TypeInv, TypeOK, MatchKnown, jobs, external
<1>6. ASSUME NEW j \in Jobs, Claim(e, j)
      PROVE  TypeInv'
  <2> DEFINE n == outbox[j].attempts + 1
             row == [outbox[j] EXCEPT !.attempts = n, !.token = n, !.live = TRUE]
             lease == [job |-> j, token |-> n]
  <2>1. outbox[j] \in Row /\ n \in Nat \ {0}
    BY DEF TypeInv, TypeOK, Row
  <2>2. row \in Row /\ lease \in Lease
    BY <2>1 DEF Row, Lease
  <2>3. lease # NoLease
    BY <2>1 DEF NoLease
  <2>4. /\ outbox' = [outbox EXCEPT ![j] = row]
        /\ held' = [held EXCEPT ![e] = lease]
        /\ phase' = [phase EXCEPT ![e] = "claimed"]
        /\ UNCHANGED <<jobs, external, check, faults>>
    BY <1>6, Zenon DEF Claim
  <2> HIDE DEF row, lease
  <2>5. outbox' \in [Jobs -> Row] /\ held' \in [Executors -> Lease \cup {NoLease}]
    BY <2>2, <2>4 DEF TypeInv, TypeOK
  <2>6. /\ phase' \in [Executors -> {"idle", "claimed", "starting", "started", "failing"}]
        /\ \A x \in Executors : phase'[x] = "idle" <=> held'[x] = NoLease
    BY <2>3, <2>4 DEF TypeInv, TypeOK
  <2>7. client' \in [Submissions -> Handler] /\ MatchKnown'
    <3>1. CASE e \in Submissions
      <4>1. Go(e, "dispatching")
        BY <1>6, <3>1 DEF Claim
      <4> QED BY <3>1, <4>1, GoType DEF Working
    <3>2. CASE e \notin Submissions
      BY <1>6, <3>2 DEF Claim, TypeInv, TypeOK, MatchKnown
    <3> QED BY <3>1, <3>2
  <2> QED BY <2>4, <2>5, <2>6, <2>7 DEF TypeInv, TypeOK, jobs, external
<1> QED BY <1>1, <1>2, <1>3, <1>4, <1>5, <1>6 DEF DispatchStep

LEMMA CheckType ==
    ASSUME TypeInv, NEW e \in Reconcilers,
           \/ CheckStep(e) \/ CrashReconciler(e) \/ \E j \in Jobs : ListUpload(e, j)
    PROVE  TypeInv'
<1>1. check[e] \in Check \cup {NoCheck} /\ check \in [Reconcilers -> Check \cup {NoCheck}]
  BY DEF TypeInv, TypeOK
<1>2. CASE HeadObject(e)
  <2>1. check[e] \in Check
    BY <1>1, <1>2 DEF HeadObject, NoCheck
  <2>2. /\ [check[e] EXCEPT !.at = "present"] \in Check
        /\ [check[e] EXCEPT !.at = "missing"] \in Check
    BY <2>1 DEF Check
  <2>3. \/ check' = [check EXCEPT ![e] = [check[e] EXCEPT !.at = "present"]]
        \/ check' = [check EXCEPT ![e] = [check[e] EXCEPT !.at = "missing"]]
        \/ check' = [check EXCEPT ![e] = NoCheck]
    BY <1>2, Zenon DEF HeadObject
  <2>4. check' \in [Reconcilers -> Check \cup {NoCheck}]
    BY <1>1, <2>2, <2>3
  <2> QED BY <1>2, <2>4 DEF HeadObject, TypeInv, TypeOK, MatchKnown, jobs, external, dispatch
<1>3. CASE VerifyArtifact(e)
  <2>1. check[e] \in Check
    BY <1>1, <1>3 DEF VerifyArtifact, NoCheck
  <2>2. PICK at \in {"verified", "damaged"} : check' = [check EXCEPT ![e].at = at]
    BY <1>3, Zenon DEF VerifyArtifact
  <2>3. check' = [check EXCEPT ![e] = [check[e] EXCEPT !.at = at]]
    BY <2>2
  <2>4. [check[e] EXCEPT !.at = at] \in Check
    BY <2>1 DEF Check
  <2>5. check' \in [Reconcilers -> Check \cup {NoCheck}]
    BY <1>1, <2>3, <2>4
  <2> QED BY <1>3, <2>5 DEF VerifyArtifact, TypeInv, TypeOK, MatchKnown, jobs, external, dispatch
<1>4. CASE MarkFailed(e)
  <2>1. status' \in [Jobs -> Statuses]
    BY <1>4 DEF MarkFailed, TypeInv, TypeOK, Statuses
  <2>2. check' \in [Reconcilers -> Check \cup {NoCheck}]
    BY <1>1, <1>4 DEF MarkFailed
  <2> QED BY <1>4, <2>1, <2>2 DEF MarkFailed, TypeInv, TypeOK, MatchKnown, external, dispatch
<1>5. CASE RecoverArtifact(e)
  <2>1. check[e].job \in Jobs
    BY <1>1, <1>5 DEF RecoverArtifact, NoCheck, Check
  <2>2. status' \in [Jobs -> Statuses] /\ outbox' \in [Jobs -> Row]
    BY <1>5, <2>1, StoreType DEF RecoverArtifact
  <2>3. check' \in [Reconcilers -> Check \cup {NoCheck}]
    BY <1>1, <1>5 DEF RecoverArtifact
  <2> QED BY <1>5, <2>2, <2>3 DEF RecoverArtifact, TypeInv, TypeOK, MatchKnown, external, dispatch
<1>6. CASE CrashReconciler(e)
  <2>1. /\ phase' \in [Executors -> {"idle", "claimed", "starting", "started", "failing"}]
        /\ held' \in [Executors -> Lease \cup {NoLease}]
        /\ \A x \in Executors : phase'[x] = "idle" <=> held'[x] = NoLease
    BY <1>6, ReleaseType DEF CrashReconciler, Executors
  <2>2. check' \in [Reconcilers -> Check \cup {NoCheck}] /\ faults' \in 0 .. MaxFaults
    BY <1>1, <1>6, IngestionAssumption DEF CrashReconciler, Fault, TypeInv, TypeOK
  <2> QED BY <1>6, <2>1, <2>2 DEF CrashReconciler, TypeInv, TypeOK, MatchKnown, jobs, external
<1>7. ASSUME NEW j \in Jobs, ListUpload(e, j)
      PROVE  TypeInv'
  <2> DEFINE listed == [at |-> "listed", job |-> j, old |-> age[j] >= 2]
  <2>1. listed \in Check
    BY DEF Check
  <2>2. check' = [check EXCEPT ![e] = listed]
    BY <1>7, Zenon DEF ListUpload
  <2>3. check' \in [Reconcilers -> Check \cup {NoCheck}]
    BY <1>1, <2>1, <2>2
  <2> QED BY <1>7, <2>3 DEF ListUpload, TypeInv, TypeOK, MatchKnown, jobs, external, dispatch
<1> QED BY <1>2, <1>3, <1>4, <1>5, <1>6, <1>7 DEF CheckStep

LEMMA WorldType ==
    ASSUME TypeInv, NEW j \in Jobs,
           Time(j) \/ LandPut(j) \/ LandStart(j)
    PROVE  TypeInv'
<1>1. outbox \in [Jobs -> Row] /\ outbox[j] \in Row
  BY DEF TypeInv, TypeOK
<1>2. CASE GetsOlder(j)
  <2>1. age' \in [Jobs -> Ages]
    BY <1>2 DEF GetsOlder, TypeInv, TypeOK, Ages
  <2> QED BY <1>2, <2>1 DEF GetsOlder, TypeInv, TypeOK, MatchKnown, external, dispatch
<1>3. CASE LeaseExpires(j)
  <2>1. [outbox[j] EXCEPT !.live = FALSE] \in Row
    BY <1>1 DEF Row
  <2>2. outbox' = [outbox EXCEPT ![j] = [outbox[j] EXCEPT !.live = FALSE]]
    BY <1>3, Zenon DEF LeaseExpires
  <2>3. outbox' \in [Jobs -> Row]
    BY <1>1, <2>1, <2>2
  <2>4. faults' \in 0 .. MaxFaults
    BY <1>3, IngestionAssumption DEF LeaseExpires, Fault, TypeInv, TypeOK
  <2> QED BY <1>3, <2>3, <2>4 DEF LeaseExpires, TypeInv, TypeOK, MatchKnown, jobs, external, dispatch
<1>4. CASE OutboxDue(j)
  <2>1. [outbox[j] EXCEPT !.due = TRUE] \in Row
    BY <1>1 DEF Row
  <2>2. outbox' = [outbox EXCEPT ![j] = [outbox[j] EXCEPT !.due = TRUE]]
    BY <1>4, Zenon DEF OutboxDue
  <2>3. outbox' \in [Jobs -> Row]
    BY <1>1, <2>1, <2>2
  <2> QED BY <1>4, <2>3 DEF OutboxDue, TypeInv, TypeOK, MatchKnown, jobs, external, dispatch
<1>5. CASE LandPut(j)
  BY <1>5 DEF LandPut, TypeInv, TypeOK, MatchKnown, jobs, dispatch
<1>6. CASE LandStart(j)
  BY <1>6 DEF LandStart, TypeInv, TypeOK, MatchKnown, jobs, dispatch
<1> QED BY <1>2, <1>3, <1>4, <1>5, <1>6 DEF Time

LEMMA CrashType ==
    ASSUME TypeInv, NEW s \in Submissions, CrashSubmission(s)
    PROVE  TypeInv'
<1>1. client' \in [Submissions -> Handler] /\ MatchKnown'
  BY GoType DEF CrashSubmission, Refused
<1>2. /\ phase' \in [Executors -> {"idle", "claimed", "starting", "started", "failing"}]
      /\ held' \in [Executors -> Lease \cup {NoLease}]
      /\ \A x \in Executors : phase'[x] = "idle" <=> held'[x] = NoLease
  BY ReleaseType DEF CrashSubmission, Executors
<1> QED BY <1>1, <1>2 DEF CrashSubmission, TypeInv, TypeOK, jobs, external

LEMMA TypeStep == TypeInv /\ [Next]_vars => TypeInv'
<1> SUFFICES ASSUME TypeInv, [Next]_vars PROVE TypeInv'
  OBVIOUS
<1>1. CASE UNCHANGED vars
  BY <1>1 DEF vars, TypeInv, TypeOK, MatchKnown
<1>2. CASE Next
  <2>1. puts \subseteq Jobs /\ starts \subseteq Jobs
    BY DEF TypeInv, TypeOK
  <2> QED BY <1>2, <2>1, SubmissionType, DispatchType, CheckType, WorldType, CrashType DEF Next
<1> QED BY <1>1, <1>2

\* Tables, objects, handlers and calls keep their shape, and a dispatch holds a
\* lease from its claim to its end: main.py:133-222 and 475-662.
THEOREM TypeCorrect == Spec => []TypeOK
<1>1. Init => TypeInv
  BY InitType
<1>2. TypeInv /\ [Next]_vars => TypeInv'
  BY TypeStep
<1>3. TypeInv => TypeOK
  BY DEF TypeInv
<1> QED BY <1>1, <1>2, <1>3, PTL DEF Spec

-----------------------------------------------------------------------------
(* The invariant behind WorkflowBackedByArtifact *)

Recorded(j) == status[j] \in {"STORED", "QUEUED"}
Early       == {"new", "unseen", "matched", "fresh", "clash"}

\* Whoever is about to start a workflow, or has just done so, does it for a
\* recorded job; whoever is about to record one has seen its object; and a
\* submission that has not registered its job has none.
RunInv ==
    /\ WorkflowBackedByArtifact
    /\ \A j \in starts : Recorded(j)
    /\ \A e \in Executors : phase[e] # "idle" => Recorded(held[e].job)
    /\ \A e \in Executors : phase[e] = "started" => runs[held[e].job] > 0
    /\ \A s \in Submissions : client[s].at \in Early => status[s] = "absent"
    /\ \A s \in Submissions : client[s].at = "stored" => object[s] # "none"
    /\ \A e \in Reconcilers :
         check[e].at \in {"present", "damaged", "verified"} => object[check[e].job] # "none"

LEMMA InitRun == Init => RunInv
BY DEF Init, RunInv, WorkflowBackedByArtifact, NoRow, Recorded, Jobs, NoCheck

\* Where a handler is after it went on, or answered.
LEMMA GoMoves ==
    ASSUME TypeInv, NEW s \in Submissions, NEW at, Go(s, at)
    PROVE  client'[s].at = at /\ \A t \in Submissions : t # s => client'[t] = client[t]
<1>1. client \in [Submissions -> Handler] /\ client' = [client EXCEPT ![s].at = at]
  BY Zenon DEF TypeInv, TypeOK, Go
<1>2. client' = [client EXCEPT ![s] = [client[s] EXCEPT !.at = at]]
  BY <1>1
<1> QED BY <1>1, <1>2 DEF Handler

LEMMA TellMoves ==
    ASSUME TypeInv, NEW s \in Submissions, NEW kind, NEW j, Tell(s, kind, j)
    PROVE  client'[s].at = kind /\ \A t \in Submissions : t # s => client'[t] = client[t]
<1>1. client \in [Submissions -> Handler]
  BY DEF TypeInv, TypeOK
<1>2. client' = [client EXCEPT ![s] = [at |-> kind, job |-> j, told |-> status[j]]]
  BY Zenon DEF Tell
<1> QED BY <1>1, <1>2

LEMMA TellBoundMoves ==
    ASSUME TypeInv, NEW s \in Submissions, NEW kind, TellBound(s, kind)
    PROVE  /\ client'[s].at \in {kind, "key_conflict"}
           /\ \A t \in Submissions : t # s => client'[t] = client[t]
<1>1. \/ Tell(s, kind, Bound(KeyOf[s]))
      \/ Go(s, "key_conflict")
  BY Zenon DEF TellBound
<1> QED BY <1>1, GoMoves, TellMoves

\* A handler that leaves tables, objects and dispatches alone disturbs nothing,
\* when it does not go back and has its upload before it calls it stored.
LEMMA TalkRun ==
    ASSUME TypeInv, RunInv, NEW s \in Submissions,
           UNCHANGED <<status, outbox, external, dispatch, check>>,
           \A t \in Submissions : t # s => client'[t] = client[t],
           client'[s].at \in Early => client[s].at \in Early,
           client'[s].at = "stored" => object[s] # "none"
    PROVE  RunInv'
<1>1. WorkflowBackedByArtifact'
  BY DEF RunInv, WorkflowBackedByArtifact, external
<1> QED BY <1>1 DEF RunInv, Recorded, external, dispatch

\* What recording an artifact does to the invariant.
LEMMA StoreRun ==
    ASSUME TypeInv, RunInv, NEW j \in Jobs, Store(j), object[j] # "none",
           UNCHANGED <<object, runs>>
    PROVE  /\ WorkflowBackedByArtifact'
           /\ \A i \in Jobs : Recorded(i) => Recorded(i)'
           /\ \A i \in Jobs : status[i] = "absent" => status'[i] = "absent"
<1>1. status \in [Jobs -> Statuses] /\ outbox \in [Jobs -> Row]
  BY DEF TypeInv, TypeOK
<1>2. CASE status[j] # "RECEIVED"
  <2>1. UNCHANGED <<status, outbox>>
    BY <1>2 DEF Store
  <2> QED BY <2>1 DEF RunInv, WorkflowBackedByArtifact, Recorded
<1>3. CASE status[j] = "RECEIVED"
  <2>1. outbox[j].state = "none" /\ runs[j] = 0
    BY <1>1, <1>3 DEF RunInv, WorkflowBackedByArtifact, Row, TypeInv, TypeOK
  <2>2. /\ status' = [status EXCEPT ![j] = "STORED"]
        /\ outbox' = [outbox EXCEPT ![j] = NewRow]
    BY <1>3, <2>1 DEF Store
  <2>3. NewRow.state = "pending"
    BY DEF NewRow, NoRow
  <2>4. WorkflowBackedByArtifact'
    <3> SUFFICES ASSUME NEW i \in Jobs
                 PROVE  /\ runs'[i] <= 1
                        /\ runs'[i] > 0 => status'[i] \in {"STORED", "QUEUED"}
                        /\ status'[i] \in {"STORED", "QUEUED"} => object'[i] # "none"
                        /\ status'[i] = "STORED" <=> outbox'[i].state = "pending"
                        /\ status'[i] = "QUEUED" <=> outbox'[i].state = "dispatched"
                        /\ status'[i] = "QUEUED" => runs'[i] = 1
      BY DEF WorkflowBackedByArtifact
    <3>1. CASE i = j
      BY <1>1, <2>1, <2>2, <2>3, <3>1
    <3>2. CASE i # j
      BY <1>1, <2>2, <3>2 DEF RunInv, WorkflowBackedByArtifact
    <3> QED BY <3>1, <3>2
  <2>5. \A i \in Jobs : Recorded(i) => Recorded(i)'
    BY <1>1, <2>2 DEF Recorded
  <2>6. \A i \in Jobs : status[i] = "absent" => status'[i] = "absent"
    BY <1>1, <1>3, <2>2
  <2> QED BY <2>4, <2>5, <2>6
<1> QED BY <1>2, <1>3

LEMMA SubmissionRun ==
    ASSUME TypeInv, RunInv, NEW s \in Submissions, SubmissionStep(s)
    PROVE  RunInv'
<1> USE DEF Jobs
<1>1. CASE LookupKey(s)
  <2>1. \/ TellBound(s, "replay") \/ Go(s, "unseen")
    BY <1>1, Zenon DEF LookupKey
  <2>2. /\ client'[s].at \in {"replay", "key_conflict", "unseen"}
        /\ \A t \in Submissions : t # s => client'[t] = client[t]
    BY <2>1, TellBoundMoves, GoMoves
  <2> QED BY <1>1, <2>2, TalkRun DEF LookupKey, Early, jobs
<1>2. CASE FindRecent(s)
  <2>1. \/ Go(s, "fresh")
        \/ \E match \in Newest(Recent(ContentOf[s])) :
             \/ Tell(s, "duplicate", match)
             \/ client' = [client EXCEPT ![s] =
                              [client[s] EXCEPT !.at = "matched", !.job = match]]
    BY <1>2, Zenon DEF FindRecent
  <2>2. client \in [Submissions -> Handler]
    BY DEF TypeInv, TypeOK
  <2>3. ASSUME NEW match,
               client' = [client EXCEPT ![s] = [client[s] EXCEPT !.at = "matched", !.job = match]]
        PROVE  client'[s].at = "matched" /\ \A t \in Submissions : t # s => client'[t] = client[t]
    BY <2>2, <2>3 DEF Handler
  <2>4. /\ client'[s].at \in {"fresh", "duplicate", "matched"}
        /\ \A t \in Submissions : t # s => client'[t] = client[t]
    BY <2>1, <2>3, TellMoves, GoMoves
  <2> QED BY <1>2, <2>4, TalkRun DEF FindRecent, Early, jobs
<1>3. CASE BindKey(s)
  <2>1. Tell(s, "duplicate", client[s].job) \/ TellBound(s, "duplicate")
    BY <1>3, Zenon DEF BindKey
  <2>2. /\ client'[s].at \in {"duplicate", "key_conflict"}
        /\ \A t \in Submissions : t # s => client'[t] = client[t]
    BY <2>1, TellBoundMoves, TellMoves
  <2> QED BY <1>3, <2>2, TalkRun DEF BindKey, Early
<1>4. CASE CreateJob(s)
  <2>1. CASE /\ Go(s, "clash") \/ \E j \in Newest(Live(ContentOf[s])) : Tell(s, "duplicate", j)
             /\ UNCHANGED status
    <3>1. /\ client'[s].at \in {"clash", "duplicate"}
          /\ \A t \in Submissions : t # s => client'[t] = client[t]
      BY <2>1, TellMoves, GoMoves
    <3> QED BY <1>4, <2>1, <3>1, TalkRun DEF CreateJob, Early
  <2>2. CASE Register(s)
    <3>1. status \in [Jobs -> Statuses] /\ outbox \in [Jobs -> Row] /\ client \in [Submissions -> Handler]
      BY DEF TypeInv, TypeOK
    <3>2. status[s] = "absent"
      BY <1>4 DEF CreateJob, RunInv, Early
    <3>3. /\ status' = [status EXCEPT ![s] = "RECEIVED"]
          /\ client' = [client EXCEPT ![s] = [client[s] EXCEPT !.at = "created", !.job = s]]
          /\ UNCHANGED <<outbox, external, dispatch, check>>
      BY <1>4, <2>2, Zenon DEF Register, CreateJob
    <3>4. WorkflowBackedByArtifact'
      BY <3>1, <3>2, <3>3 DEF RunInv, WorkflowBackedByArtifact, external
    <3>5. \A i \in Jobs : Recorded(i) => Recorded(i)'
      BY <3>1, <3>2, <3>3 DEF Recorded
    <3>6. \A t \in Submissions : t # s => status'[t] = status[t] /\ client'[t] = client[t]
      BY <3>1, <3>3
    <3>7. client'[s].at = "created"
      BY <3>1, <3>3 DEF Handler
    <3>8. \A e \in Executors : phase[e] # "idle" => held[e].job \in Jobs
      BY BusyHoldsLease DEF Lease
    <3> QED BY <3>3, <3>4, <3>5, <3>6, <3>7, <3>8 DEF RunInv, TypeInv, TypeOK, Early, external, dispatch
  <2> QED BY <1>4, <2>1, <2>2 DEF CreateJob
<1>5. CASE PutObject(s)
  <2>1. /\ client'[s].at = "uploading"
        /\ \A t \in Submissions : t # s => client'[t] = client[t]
    BY <1>5, GoMoves DEF PutObject
  <2> QED BY <1>5, <2>1 DEF PutObject, RunInv, WorkflowBackedByArtifact, Recorded, Early, jobs, dispatch
<1>6. CASE RecordArtifact(s)
  <2>1. object[s] # "none" /\ UNCHANGED <<external, dispatch, check>>
    BY <1>6 DEF RecordArtifact, RunInv
  <2>2. /\ WorkflowBackedByArtifact'
        /\ \A i \in Jobs : Recorded(i) => Recorded(i)'
        /\ \A i \in Jobs : status[i] = "absent" => status'[i] = "absent"
    BY <1>6, <2>1, StoreRun DEF RecordArtifact, external
  <2>3. /\ client'[s].at = "recorded"
        /\ \A t \in Submissions : t # s => client'[t] = client[t]
    BY <1>6, GoMoves DEF RecordArtifact
  <2>4. \A e \in Executors : phase[e] # "idle" => held[e].job \in Jobs
    BY BusyHoldsLease DEF Lease
  <2> QED BY <2>1, <2>2, <2>3, <2>4 DEF RunInv, TypeInv, TypeOK, Early, external, dispatch
<1>7. CASE Uploaded(s)
  BY <1>7, GoMoves, TalkRun DEF Uploaded, Early, jobs
<1>8. CASE UploadFails(s) \/ NothingToDispatch(s)
  <2>1. /\ client'[s].at \in {"upload_failed", "dispatching"}
        /\ \A t \in Submissions : t # s => client'[t] = client[t]
    BY <1>8, GoMoves DEF UploadFails, NothingToDispatch
  <2> QED BY <1>8, <2>1, TalkRun DEF UploadFails, NothingToDispatch, Early, jobs
<1>9. CASE Accept(s)
  BY <1>9, TellMoves, TalkRun DEF Accept, Early, jobs
<1> QED BY <1>1, <1>2, <1>3, <1>4, <1>5, <1>6, <1>7, <1>8, <1>9 DEF SubmissionStep

\* What marking a job queued does to the invariant.
LEMMA QueueRun ==
    ASSUME TypeInv, RunInv, NEW e \in Executors, phase[e] = "started", Queueable(e), Queue(e),
           UNCHANGED <<object, runs>>
    PROVE  /\ WorkflowBackedByArtifact'
           /\ \A i \in Jobs : Recorded(i) => Recorded(i)'
           /\ \A i \in Jobs : status[i] = "absent" => status'[i] = "absent"
<1> DEFINE j == held[e].job
<1>1. status \in [Jobs -> Statuses] /\ outbox \in [Jobs -> Row] /\ j \in Jobs /\ runs[j] \in Nat
  BY BusyHoldsLease DEF TypeInv, TypeOK, Lease
<1>2. status[j] \in {"STORED", "QUEUED"} /\ runs[j] > 0
  BY DEF Queueable, RunInv
<1>3. object[j] # "none" /\ runs[j] = 1
  BY <1>1, <1>2 DEF RunInv, WorkflowBackedByArtifact
<1>4. /\ status' = [status EXCEPT ![j] = "QUEUED"]
      /\ outbox' = [outbox EXCEPT ![j] = [outbox[j] EXCEPT !.state = "dispatched", !.live = FALSE]]
  BY Zenon DEF Queue
<1> HIDE DEF j
<1>5. outbox'[j].state = "dispatched" /\ \A i \in Jobs : i # j => outbox'[i] = outbox[i]
  BY <1>1, <1>4 DEF Row
<1>6. status'[j] = "QUEUED" /\ \A i \in Jobs : i # j => status'[i] = status[i]
  BY <1>1, <1>4
<1>7. WorkflowBackedByArtifact'
  BY <1>1, <1>3, <1>5, <1>6 DEF RunInv, WorkflowBackedByArtifact
<1>8. \A i \in Jobs : Recorded(i) => Recorded(i)'
  BY <1>6 DEF Recorded
<1>9. \A i \in Jobs : status[i] = "absent" => status'[i] = "absent"
  BY <1>2, <1>6
<1> QED BY <1>7, <1>8, <1>9

\* A dispatch that goes on, or ends, with at most its job marked queued.
LEMMA PhaseRun ==
    ASSUME TypeInv, RunInv, NEW e \in Executors, WorkflowBackedByArtifact',
           \A i \in Jobs : Recorded(i) => Recorded(i)',
           \A i \in Jobs : status[i] = "absent" => status'[i] = "absent",
           UNCHANGED <<external, client, check>>,
           \A x \in Executors : x # e => phase'[x] = phase[x] /\ held'[x] = held[x],
           phase'[e] # "idle" => phase[e] # "idle" /\ held'[e] = held[e],
           phase'[e] = "started" => runs[held[e].job] > 0
    PROVE  RunInv'
<1>1. \A x \in Executors : phase[x] # "idle" => held[x].job \in Jobs
  BY BusyHoldsLease DEF Lease
<1>2. starts \subseteq Jobs
  BY DEF TypeInv, TypeOK
<1>3. \A x \in Executors : phase'[x] # "idle" => Recorded(held[x].job)'
  BY <1>1 DEF RunInv, Recorded
<1>4. \A x \in Executors : phase'[x] = "started" => runs'[held'[x].job] > 0
  BY DEF RunInv, external
<1>5. \A j \in starts' : Recorded(j)'
  BY <1>2 DEF RunInv, external
<1> QED BY <1>3, <1>4, <1>5 DEF RunInv, Jobs, external

LEMMA DispatchRun ==
    ASSUME TypeInv, RunInv, NEW e \in Executors,
           \/ DispatchStep(e) \/ DispatchFails(e) \/ \E j \in Jobs : Claim(e, j)
    PROVE  RunInv'
<1>1. /\ phase \in [Executors -> {"idle", "claimed", "starting", "started", "failing"}]
      /\ held \in [Executors -> Lease \cup {NoLease}]
      /\ status \in [Jobs -> Statuses] /\ outbox \in [Jobs -> Row]
  BY DEF TypeInv, TypeOK
<1>2. ASSUME UNCHANGED <<status, outbox, object, runs>>
      PROVE  /\ WorkflowBackedByArtifact'
             /\ \A i \in Jobs : Recorded(i) => Recorded(i)'
             /\ \A i \in Jobs : status[i] = "absent" => status'[i] = "absent"
  BY <1>2 DEF RunInv, WorkflowBackedByArtifact, Recorded
<1>3. CASE StartWorkflow(e)
  BY <1>1, <1>3 DEF StartWorkflow, RunInv, WorkflowBackedByArtifact, Recorded, jobs
<1>4. CASE Started(e) \/ MarkQueuedRefused(e)
  <2>1. UNCHANGED <<status, outbox, object, runs>>
    BY <1>4 DEF Started, MarkQueuedRefused, jobs, external
  <2>2. /\ UNCHANGED <<external, client, check, held>>
        /\ phase[e] # "idle"
        /\ phase'[e] = "started" => runs[held[e].job] > 0
        /\ \A x \in Executors : x # e => phase'[x] = phase[x]
    BY <1>1, <1>4 DEF Started, MarkQueuedRefused
  <2> QED BY <1>2, <2>1, <2>2, PhaseRun
<1>5. CASE MarkQueued(e)
  <2>1. /\ WorkflowBackedByArtifact'
        /\ \A i \in Jobs : Recorded(i) => Recorded(i)'
        /\ \A i \in Jobs : status[i] = "absent" => status'[i] = "absent"
    BY <1>5, QueueRun DEF MarkQueued, external
  <2>2. /\ UNCHANGED <<external, client, check>>
        /\ phase'[e] = "idle"
        /\ \A x \in Executors : x # e => phase'[x] = phase[x] /\ held'[x] = held[x]
    BY <1>1, <1>5 DEF MarkQueued, Release
  <2> QED BY <2>1, <2>2, PhaseRun
<1>6. CASE DispatchFails(e)
  <2>1. /\ WorkflowBackedByArtifact'
        /\ \A i \in Jobs : Recorded(i) => Recorded(i)'
        /\ \A i \in Jobs : status[i] = "absent" => status'[i] = "absent"
    <3>1. CASE UNCHANGED <<jobs, outbox>>
      BY <1>2, <1>6, <3>1 DEF DispatchFails, jobs, external
    <3>2. CASE phase[e] = "started" /\ Queueable(e) /\ Queue(e)
      BY <1>6, <3>2, QueueRun DEF DispatchFails, external
    <3> QED BY <1>6, <3>1, <3>2 DEF DispatchFails
  <2>2. /\ UNCHANGED <<external, client, check, held>>
        /\ phase[e] # "idle" /\ phase'[e] = "failing"
        /\ \A x \in Executors : x # e => phase'[x] = phase[x]
    BY <1>1, <1>6 DEF DispatchFails
  <2> QED BY <2>1, <2>2, PhaseRun
<1>7. CASE ReleaseDispatch(e)
  <2> DEFINE j == held[e].job
             row == [outbox[j] EXCEPT !.live = FALSE, !.token = 0, !.due = FALSE]
  <2>1. \A i \in Jobs : outbox'[i].state = outbox[i].state
    <3>1. outbox' = [outbox EXCEPT ![j] = row] \/ outbox' = outbox
      BY <1>7, Zenon DEF ReleaseDispatch
    <3>2. j \in Jobs => row.state = outbox[j].state
      BY <1>1 DEF Row
    <3> QED BY <1>1, <3>1, <3>2
  <2>2. UNCHANGED <<status, object, runs>>
    BY <1>7 DEF ReleaseDispatch, jobs, external
  <2>3. /\ WorkflowBackedByArtifact'
        /\ \A i \in Jobs : Recorded(i) => Recorded(i)'
        /\ \A i \in Jobs : status[i] = "absent" => status'[i] = "absent"
    BY <2>1, <2>2 DEF RunInv, WorkflowBackedByArtifact, Recorded
  <2>4. /\ UNCHANGED <<external, client, check>>
        /\ phase'[e] = "idle"
        /\ \A x \in Executors : x # e => phase'[x] = phase[x] /\ held'[x] = held[x]
    BY <1>1, <1>7 DEF ReleaseDispatch, Release
  <2> QED BY <2>3, <2>4, PhaseRun
<1>8. ASSUME NEW j \in Jobs, Claim(e, j)
      PROVE  RunInv'
  <2> DEFINE n == outbox[j].attempts + 1
             row == [outbox[j] EXCEPT !.attempts = n, !.token = n, !.live = TRUE]
  <2>1. /\ outbox' = [outbox EXCEPT ![j] = row]
        /\ held' = [held EXCEPT ![e] = [job |-> j, token |-> n]]
        /\ phase' = [phase EXCEPT ![e] = "claimed"]
        /\ UNCHANGED <<status, external, check>>
    BY <1>8, Zenon DEF Claim, jobs
  <2>2. Recorded(j)
    BY <1>8 DEF Claim, Claimable, RunInv, WorkflowBackedByArtifact, Recorded
  <2>3. row.state = outbox[j].state
    BY <1>1 DEF Row
  <2> HIDE DEF row, n
  <2>4. \A i \in Jobs : outbox'[i].state = outbox[i].state
    BY <1>1, <2>1, <2>3
  <2>5. WorkflowBackedByArtifact'
    BY <2>1, <2>4 DEF RunInv, WorkflowBackedByArtifact, external
  <2>6. \A x \in Executors : phase'[x] # "idle" => Recorded(held[x].job)'
    BY <1>1, <2>1, <2>2 DEF RunInv, Recorded
  <2>7. \A x \in Executors : phase'[x] = "started" => runs'[held'[x].job] > 0
    BY <1>1, <2>1 DEF RunInv, external
  <2>8. \A t \in Submissions : client'[t].at = client[t].at \/ client'[t].at = "dispatching"
    <3>1. CASE e \in Submissions
      BY <1>8, <3>1, GoMoves DEF Claim
    <3>2. CASE e \notin Submissions
      BY <1>8, <3>2 DEF Claim
    <3> QED BY <3>1, <3>2
  <2> QED BY <2>1, <2>5, <2>6, <2>7, <2>8 DEF RunInv, Recorded, Early, external
<1> QED BY <1>3, <1>4, <1>5, <1>6, <1>7, <1>8 DEF DispatchStep

LEMMA CheckRun ==
    ASSUME TypeInv, RunInv, NEW e \in Reconcilers,
           \/ CheckStep(e) \/ CrashReconciler(e) \/ \E j \in Jobs : ListUpload(e, j)
    PROVE  RunInv'
<1>1. /\ check \in [Reconcilers -> Check \cup {NoCheck}]
      /\ check[e] \in Check \cup {NoCheck}
      /\ status \in [Jobs -> Statuses]
      /\ phase \in [Executors -> {"idle", "claimed", "starting", "started", "failing"}]
      /\ held \in [Executors -> Lease \cup {NoLease}]
  BY DEF TypeInv, TypeOK
<1>2. ASSUME UNCHANGED <<status, outbox, external, client, dispatch>>,
             \A x \in Reconcilers : x # e => check'[x] = check[x],
             check'[e].at \in {"present", "damaged", "verified"} => object[check'[e].job] # "none"
      PROVE  RunInv'
  <2>1. WorkflowBackedByArtifact'
    BY <1>2 DEF RunInv, WorkflowBackedByArtifact, external
  <2> QED BY <1>2, <2>1 DEF RunInv, Recorded, external, dispatch
<1>3. CASE HeadObject(e)
  <2>1. \/ /\ object[check[e].job] # "none"
           /\ check' = [check EXCEPT ![e] = [check[e] EXCEPT !.at = "present"]]
        \/ check' = [check EXCEPT ![e] = [check[e] EXCEPT !.at = "missing"]]
        \/ check' = [check EXCEPT ![e] = NoCheck]
    BY <1>3, Zenon DEF HeadObject
  <2>2. check[e] \in Check
    BY <1>1, <1>3 DEF HeadObject, NoCheck
  <2>3. /\ \A x \in Reconcilers : x # e => check'[x] = check[x]
        /\ check'[e].at \in {"present", "damaged", "verified"} => object[check'[e].job] # "none"
    BY <1>1, <2>1, <2>2 DEF Check, NoCheck
  <2> QED BY <1>2, <1>3, <2>3 DEF HeadObject, jobs
<1>4. CASE VerifyArtifact(e)
  <2>1. check[e] \in Check /\ object[check[e].job] # "none"
    BY <1>1, <1>4 DEF VerifyArtifact, NoCheck, RunInv
  <2>2. PICK at \in {"verified", "damaged"} : check' = [check EXCEPT ![e].at = at]
    BY <1>4, Zenon DEF VerifyArtifact
  <2>3. check' = [check EXCEPT ![e] = [check[e] EXCEPT !.at = at]]
    BY <2>2
  <2>4. /\ \A x \in Reconcilers : x # e => check'[x] = check[x]
        /\ check'[e].job = check[e].job
    BY <1>1, <2>1, <2>3 DEF Check
  <2> QED BY <1>2, <1>4, <2>1, <2>4 DEF VerifyArtifact, jobs
<1>5. CASE MarkFailed(e)
  <2> DEFINE j == check[e].job
  <2>1. /\ \A i \in Jobs : \/ status'[i] = status[i]
                           \/ status[i] = "RECEIVED" /\ status'[i] = "FAILED"
        /\ check' = [check EXCEPT ![e] = NoCheck]
        /\ UNCHANGED <<outbox, external, client, dispatch>>
    BY <1>1, <1>5 DEF MarkFailed
  <2>2. WorkflowBackedByArtifact'
    BY <2>1 DEF RunInv, WorkflowBackedByArtifact, external
  <2>3. \A i \in Jobs : Recorded(i) => Recorded(i)'
    BY <2>1 DEF Recorded
  <2>4. \A x \in Executors : phase[x] # "idle" => held[x].job \in Jobs
    BY BusyHoldsLease DEF Lease
  <2>5. \A x \in Reconcilers : check'[x] = check[x] \/ check'[x].at = "idle"
    BY <1>1, <2>1 DEF NoCheck
  <2> QED BY <2>1, <2>2, <2>3, <2>4, <2>5 DEF RunInv, TypeInv, TypeOK, Jobs, external, dispatch
<1>6. CASE RecoverArtifact(e)
  <2>1. check[e].job \in Jobs /\ object[check[e].job] # "none"
    BY <1>1, <1>6 DEF RecoverArtifact, NoCheck, Check, RunInv
  <2>2. /\ WorkflowBackedByArtifact'
        /\ \A i \in Jobs : Recorded(i) => Recorded(i)'
        /\ \A i \in Jobs : status[i] = "absent" => status'[i] = "absent"
    BY <1>6, <2>1, StoreRun DEF RecoverArtifact, external
  <2>3. \A x \in Executors : phase[x] # "idle" => held[x].job \in Jobs
    BY BusyHoldsLease DEF Lease
  <2>4. \A x \in Reconcilers : check'[x] = check[x] \/ check'[x].at = "idle"
    BY <1>1, <1>6 DEF RecoverArtifact, NoCheck
  <2> QED BY <1>6, <2>2, <2>3, <2>4 DEF RecoverArtifact, RunInv, TypeInv, TypeOK, Jobs, external, dispatch
<1>7. CASE CrashReconciler(e)
  <2>1. e \in Executors
    BY DEF Executors
  <2>2. /\ check' = [check EXCEPT ![e] = NoCheck]
        /\ Release(e)
        /\ UNCHANGED <<status, outbox, external, client>>
    BY <1>7 DEF CrashReconciler, jobs
  <2>3. \A x \in Executors : phase'[x] = "idle" \/ (phase'[x] = phase[x] /\ held'[x] = held[x])
    BY <1>1, <2>2, <2>1 DEF Release
  <2>4. \A x \in Reconcilers : check'[x] = check[x] \/ check'[x] = NoCheck
    BY <1>1, <2>2
  <2>5. WorkflowBackedByArtifact'
    BY <2>2 DEF RunInv, WorkflowBackedByArtifact, external
  <2> QED BY <2>2, <2>3, <2>4, <2>5 DEF RunInv, Recorded, external, NoCheck
<1>8. ASSUME NEW j \in Jobs, ListUpload(e, j)
      PROVE  RunInv'
  <2>1. check' = [check EXCEPT ![e] = [at |-> "listed", job |-> j, old |-> age[j] >= 2]]
    BY <1>8, Zenon DEF ListUpload
  <2>2. /\ \A x \in Reconcilers : x # e => check'[x] = check[x]
        /\ check'[e].at = "listed"
    BY <1>1, <2>1
  <2> QED BY <1>2, <1>8, <2>2 DEF ListUpload, jobs
<1> QED BY <1>3, <1>4, <1>5, <1>6, <1>7, <1>8 DEF CheckStep

LEMMA WorldRun ==
    ASSUME TypeInv, RunInv, NEW j \in Jobs,
           Time(j) \/ (j \in puts /\ LandPut(j)) \/ (j \in starts /\ LandStart(j))
    PROVE  RunInv'
<1>1. outbox \in [Jobs -> Row] /\ object \in [Jobs -> {"none", "intact", "corrupt"}]
      /\ runs \in [Jobs -> Nat] /\ starts \subseteq Jobs
  BY DEF TypeInv, TypeOK
<1>2. CASE Time(j)
  <2>1. UNCHANGED <<status, external, client, dispatch, check>>
    BY <1>2 DEF Time, GetsOlder, LeaseExpires, OutboxDue, jobs
  <2>2. \A i \in Jobs : outbox'[i].state = outbox[i].state
    BY <1>1, <1>2 DEF Time, GetsOlder, LeaseExpires, OutboxDue, Row
  <2>3. WorkflowBackedByArtifact'
    BY <2>1, <2>2 DEF RunInv, WorkflowBackedByArtifact, external
  <2> QED BY <2>1, <2>3 DEF RunInv, Recorded, external, dispatch
<1>3. CASE LandPut(j)
  <2>1. /\ UNCHANGED <<status, outbox, runs, starts, client, dispatch, check>>
        /\ \A i \in Jobs : object[i] # "none" => object'[i] # "none"
    BY <1>1, <1>3 DEF LandPut, jobs
  <2>2. WorkflowBackedByArtifact'
    BY <2>1 DEF RunInv, WorkflowBackedByArtifact
  <2>3. \A e \in Reconcilers : check[e].at \in {"present", "damaged", "verified"} => check[e].job \in Jobs
    BY DEF TypeInv, TypeOK, Check, NoCheck
  <2> QED BY <2>1, <2>2, <2>3 DEF RunInv, Recorded, Jobs, dispatch
<1>4. CASE j \in starts /\ LandStart(j)
  <2>1. Recorded(j)
    BY <1>4 DEF RunInv
  <2>2. /\ UNCHANGED <<status, outbox, object, client, dispatch, check>>
        /\ starts' \subseteq starts
        /\ runs' = [runs EXCEPT ![j] = IF runs[j] = 0 THEN 1 ELSE runs[j]]
    BY <1>4 DEF LandStart, jobs
  <2>3. WorkflowBackedByArtifact'
    BY <1>1, <2>1, <2>2 DEF RunInv, WorkflowBackedByArtifact, Recorded
  <2>4. \A i \in Jobs : runs[i] > 0 => runs'[i] > 0
    BY <1>1, <2>2
  <2>5. \A e \in Executors : phase[e] # "idle" => held[e].job \in Jobs
    BY BusyHoldsLease DEF Lease
  <2> QED BY <2>2, <2>3, <2>4, <2>5 DEF RunInv, Recorded, dispatch
<1> QED BY <1>2, <1>3, <1>4

LEMMA CrashRun ==
    ASSUME TypeInv, RunInv, NEW s \in Submissions, CrashSubmission(s)
    PROVE  RunInv'
<1>1. /\ client'[s].at = "error"
      /\ \A t \in Submissions : t # s => client'[t] = client[t]
  BY GoMoves DEF CrashSubmission
<1>2. Release(s) /\ s \in Executors /\ UNCHANGED <<status, outbox, external, check>>
  BY DEF CrashSubmission, Executors, jobs
<1>3. /\ phase \in [Executors -> {"idle", "claimed", "starting", "started", "failing"}]
      /\ held \in [Executors -> Lease \cup {NoLease}]
  BY DEF TypeInv, TypeOK
<1>4. \A x \in Executors : phase'[x] = "idle" \/ (phase'[x] = phase[x] /\ held'[x] = held[x])
  BY <1>2, <1>3 DEF Release
<1>5. WorkflowBackedByArtifact'
  BY <1>2 DEF RunInv, WorkflowBackedByArtifact, external
<1> QED BY <1>1, <1>2, <1>4, <1>5 DEF RunInv, Recorded, Early, external

LEMMA RunStep == TypeInv /\ RunInv /\ [Next]_vars => RunInv'
<1> SUFFICES ASSUME TypeInv, RunInv, [Next]_vars PROVE RunInv'
  OBVIOUS
<1>1. CASE UNCHANGED vars
  BY <1>1 DEF vars, RunInv, WorkflowBackedByArtifact, Recorded
<1>2. CASE Next
  <2>1. puts \subseteq Jobs /\ starts \subseteq Jobs
    BY DEF TypeInv, TypeOK
  <2> QED BY <1>2, <2>1, SubmissionRun, DispatchRun, CheckRun, WorldRun, CrashRun DEF Next
<1> QED BY <1>1, <1>2

\* The inductive invariant of the intake.
THEOREM IntakeInvariant == Spec => [](TypeInv /\ RunInv)
<1>1. Init => TypeInv /\ RunInv
  BY InitType, InitRun
<1>2. TypeInv /\ RunInv /\ [Next]_vars => TypeInv' /\ RunInv'
  BY TypeStep, RunStep
<1> QED BY <1>1, <1>2, PTL DEF Spec

\* Whatever fails between a submission and the reconcilers, a workflow runs at
\* most once and only for a job whose artifact was recorded, and a job is queued
\* exactly when its outbox row is done: repository.py:280-346, main.py:133-199.
THEOREM WorkflowBackedByArtifactHolds == Spec => []WorkflowBackedByArtifact
<1>1. RunInv => WorkflowBackedByArtifact
  BY DEF RunInv
<1> QED BY <1>1, IntakeInvariant, PTL


-----------------------------------------------------------------------------
(* One live job of a content *)

IsLive(j) == status[j] \notin {"absent", "FAILED"} /\ age[j] < 3

LEMMA LiveMeaning == OneLiveJob <=>
    \A i, j \in Jobs : (i # j /\ ContentOf[i] = ContentOf[j]) => ~ (IsLive(i) /\ IsLive(j))
BY DEF OneLiveJob, Live, Recent, Exists, IsLive

\* What adds no live job keeps the property.
LEMMA NoNewLive ==
    ASSUME OneLiveJob, \A i \in Jobs : IsLive(i)' => IsLive(i)
    PROVE  OneLiveJob'
BY DEF OneLiveJob, Live, Recent, Exists, IsLive

LEMMA StoreLive ==
    ASSUME TypeInv, NEW j \in Jobs, Store(j), UNCHANGED age
    PROVE  \A i \in Jobs : IsLive(i)' => IsLive(i)
BY DEF Store, IsLive, TypeInv, TypeOK

LEMMA QueueLive ==
    ASSUME TypeInv, NEW e \in Executors, phase[e] = "started", Queueable(e), Queue(e)
    PROVE  \A i \in Jobs : IsLive(i)' => IsLive(i)
<1> DEFINE j == held[e].job
<1>1. /\ status' = [status EXCEPT ![j] = "QUEUED"] /\ UNCHANGED age
      /\ status[j] \in {"STORED", "QUEUED"}
  BY Zenon DEF Queue, Queueable
<1>2. status \in [Jobs -> Statuses]
  BY DEF TypeInv, TypeOK
<1> QED BY <1>1, <1>2 DEF IsLive

\* A registration finds no live job of its content, under the content's lock.
LEMMA CreateLive ==
    ASSUME TypeInv, OneLiveJob, NEW s \in Submissions, CreateJob(s)
    PROVE  OneLiveJob'
<1>1. status \in [Jobs -> Statuses] /\ s \in Jobs
  BY DEF TypeInv, TypeOK, Jobs
<1>2. CASE UNCHANGED status
  BY <1>2, NoNewLive DEF CreateJob, IsLive
<1>3. CASE Live(ContentOf[s]) = {} /\ Register(s)
  <2>1. \A i \in Jobs : i # s => (IsLive(i)' <=> IsLive(i))
    BY <1>1, <1>3 DEF Register, IsLive, CreateJob
  <2>2. \A i \in Jobs : ContentOf[i] = ContentOf[s] => ~ IsLive(i)
    BY <1>3 DEF Live, Recent, Exists, IsLive
  <2>3. \A i, j \in Jobs : (i # j /\ ContentOf[i] = ContentOf[j]) => ~ (IsLive(i) /\ IsLive(j))'
    BY <2>1, <2>2, LiveMeaning
  <2> QED BY <2>3 DEF OneLiveJob, Live, Recent, Exists, IsLive
<1> QED BY <1>2, <1>3 DEF CreateJob

LEMMA LiveStep == TypeInv /\ OneLiveJob /\ [Next]_vars => OneLiveJob'
<1> SUFFICES ASSUME TypeInv, OneLiveJob, [Next]_vars PROVE OneLiveJob'
  OBVIOUS
<1>1. ASSUME UNCHANGED <<status, age>> PROVE OneLiveJob'
  BY <1>1, NoNewLive DEF IsLive
<1>2. CASE UNCHANGED vars
  BY <1>1, <1>2 DEF vars
<1>3. ASSUME NEW s \in Submissions, SubmissionStep(s) \/ CrashSubmission(s) PROVE OneLiveJob'
  <2>1. CASE CreateJob(s)
    BY <2>1, CreateLive
  <2>2. CASE RecordArtifact(s)
    BY <2>2, StoreLive, NoNewLive DEF RecordArtifact, Jobs
  <2>3. CASE ~ CreateJob(s) /\ ~ RecordArtifact(s)
    BY <1>1, <1>3, <2>3 DEF SubmissionStep, LookupKey, FindRecent, BindKey, PutObject, Uploaded,
       UploadFails, NothingToDispatch, Accept, CrashSubmission, jobs
  <2> QED BY <2>1, <2>2, <2>3
<1>4. ASSUME NEW e \in Executors,
             DispatchStep(e) \/ DispatchFails(e) \/ \E j \in Jobs : Claim(e, j)
      PROVE  OneLiveJob'
  <2>1. CASE phase[e] = "started" /\ Queueable(e) /\ Queue(e)
    BY <2>1, QueueLive, NoNewLive
  <2>2. CASE UNCHANGED <<status, age>>
    BY <1>1, <2>2
  <2> QED BY <1>4, <2>1, <2>2 DEF DispatchStep, StartWorkflow, Started, MarkQueued,
             MarkQueuedRefused, ReleaseDispatch, DispatchFails, Claim, jobs
<1>5. ASSUME NEW e \in Reconcilers,
             CheckStep(e) \/ CrashReconciler(e) \/ \E j \in Jobs : ListUpload(e, j)
      PROVE  OneLiveJob'
  <2>1. CASE MarkFailed(e)
    <3>1. \A i \in Jobs : IsLive(i)' => IsLive(i)
      BY <2>1 DEF MarkFailed, IsLive, TypeInv, TypeOK
    <3> QED BY <3>1, NoNewLive
  <2>2. CASE RecoverArtifact(e)
    <3>1. check[e].job \in Jobs
      BY <2>2 DEF RecoverArtifact, TypeInv, TypeOK, Check, NoCheck
    <3> QED BY <2>2, <3>1, StoreLive, NoNewLive DEF RecoverArtifact
  <2>3. CASE UNCHANGED <<status, age>>
    BY <1>1, <2>3
  <2> QED BY <1>5, <2>1, <2>2, <2>3 DEF CheckStep, HeadObject, VerifyArtifact, CrashReconciler,
             ListUpload, jobs
<1>6. ASSUME NEW j \in Jobs, Time(j) \/ LandPut(j) \/ LandStart(j) PROVE OneLiveJob'
  <2>1. CASE GetsOlder(j)
    <3>1. \A i \in Jobs : IsLive(i)' => IsLive(i)
      BY <2>1 DEF GetsOlder, IsLive, TypeInv, TypeOK, Ages
    <3> QED BY <3>1, NoNewLive
  <2> QED BY <1>1, <1>6, <2>1 DEF Time, LeaseExpires, OutboxDue, LandPut, LandStart, jobs
<1>7. puts \subseteq Jobs /\ starts \subseteq Jobs
  BY DEF TypeInv, TypeOK
<1> QED BY <1>2, <1>3, <1>4, <1>5, <1>6, <1>7 DEF Next

\* OneLiveJob for any number of submissions: create_job looks again under the
\* advisory lock of the content, a failed job is never revived, and a job only
\* gets older.
THEOREM OneLiveJobHolds == Spec => []OneLiveJob
<1>1. Init => OneLiveJob
  BY DEF Init, OneLiveJob, Live, Recent, Exists
<1>2. TypeInv /\ OneLiveJob /\ [Next]_vars => OneLiveJob'
  BY LiveStep
<1> QED BY <1>1, <1>2, IntakeInvariant, PTL DEF Spec

-----------------------------------------------------------------------------
(* A key means one job *)

\* The submission created the job it is about.
Owning == {"created", "uploading", "stored", "recorded", "dispatching"}

\* What the handler of s knows: a match is of its content, its key is bound to
\* the job it created, and what it answered is as KeyMeansOneJob says.
KeyOk(s) ==
    /\ client[s].at \in Served \cup {"matched"} =>
         client[s].job \in Jobs /\ ContentOf[client[s].job] = ContentOf[s]
    /\ (client[s].at \in Served /\ KeyOf[s] # NoKey) => client[s].job = keyed[KeyOf[s]]
    /\ (client[s].at \in Owning /\ KeyOf[s] # NoKey) => s = keyed[KeyOf[s]]

KeyInv == \A s \in Submissions : KeyOk(s)

\* A step of one submission that binds at most an unbound key.
LEMMA KeyKept ==
    ASSUME TypeInv, KeyInv, NEW s \in Submissions,
           \A k \in Keys : keyed[k] # NoJob => keyed'[k] = keyed[k],
           \A t \in Submissions : t # s => client'[t] = client[t],
           KeyOk(s)'
    PROVE  KeyInv'
<1> SUFFICES ASSUME NEW t \in Submissions, t # s PROVE KeyOk(t)'
  BY DEF KeyInv
<1>1. client'[t] = client[t] /\ KeyOk(t)
  BY DEF KeyInv
<1>2. KeyOf[t] # NoKey => KeyOf[t] \in Keys
  BY IngestionAssumption
<1>3. NoJob \notin Jobs /\ t \in Jobs
  BY IngestionAssumption DEF Jobs
<1> QED BY <1>1, <1>2, <1>3 DEF KeyOk

\* A handler that goes on without an answer.
LEMMA GoKey ==
    ASSUME TypeInv, KeyInv, NEW s \in Submissions, NEW at, Go(s, at), UNCHANGED keyed,
           at \notin Served \cup {"matched"},
           at \in Owning => client[s].at \in Owning
    PROVE  KeyInv'
<1>1. client'[s].at = at /\ \A t \in Submissions : t # s => client'[t] = client[t]
  BY GoMoves
<1>2. KeyOk(s)'
  BY <1>1 DEF KeyOk, KeyInv
<1> QED BY <1>1, <1>2, KeyKept

\* An answer, under a key that is bound to the job or is none.
LEMMA TellKey ==
    ASSUME TypeInv, KeyInv, NEW s \in Submissions, NEW kind \in Served, NEW j \in Jobs,
           Tell(s, kind, j), ContentOf[j] = ContentOf[s],
           \A k \in Keys : keyed[k] # NoJob => keyed'[k] = keyed[k],
           KeyOf[s] # NoKey => keyed'[KeyOf[s]] = j
    PROVE  KeyInv'
<1>1. client \in [Submissions -> Handler]
      /\ client' = [client EXCEPT ![s] = [at |-> kind, job |-> j, told |-> status[j]]]
  BY Zenon DEF TypeInv, TypeOK, Tell
<1>2. /\ client'[s].at = kind /\ client'[s].job = j
      /\ \A t \in Submissions : t # s => client'[t] = client[t]
  BY <1>1
<1>3. KeyOk(s)'
  BY <1>2 DEF KeyOk, Served, Owning
<1> QED BY <1>2, <1>3, KeyKept

LEMMA TellBoundKey ==
    ASSUME TypeInv, KeyInv, NEW s \in Submissions, NEW kind \in Served,
           Bound(KeyOf[s]) # NoJob, TellBound(s, kind), UNCHANGED keyed
    PROVE  KeyInv'
<1> DEFINE j == Bound(KeyOf[s])
<1>1. j \in Jobs /\ KeyOf[s] # NoKey /\ j = keyed[KeyOf[s]]
  BY IngestionAssumption DEF TypeInv, TypeOK, Bound
<1>2. CASE ContentOf[j] = ContentOf[s] /\ Tell(s, kind, j)
  BY <1>1, <1>2, TellKey
<1>3. CASE Go(s, "key_conflict")
  BY <1>3, GoKey DEF Served, Owning
<1> QED BY <1>2, <1>3 DEF TellBound

\* The first binding of a key stands.
LEMMA BindKeeps ==
    ASSUME TypeInv, NEW s \in Submissions, NEW j, Bound(KeyOf[s]) = NoJob, Bind(KeyOf[s], j)
    PROVE  /\ \A k \in Keys : keyed[k] # NoJob => keyed'[k] = keyed[k]
           /\ KeyOf[s] # NoKey => keyed'[KeyOf[s]] = j
BY IngestionAssumption DEF Bind, Bound, TypeInv, TypeOK

LEMMA MatchKey ==
    ASSUME TypeInv, KeyInv, NEW s \in Submissions, FindRecent(s)
    PROVE  KeyInv'
<1>1. UNCHANGED keyed
  BY DEF FindRecent, jobs
<1>2. CASE Go(s, "fresh")
  BY <1>1, <1>2, GoKey DEF Served, Owning
<1>3. ASSUME NEW j \in Newest(Recent(ContentOf[s])), KeyOf[s] = NoKey, Tell(s, "duplicate", j)
      PROVE  KeyInv'
  BY <1>1, <1>3, TellKey DEF Newest, Recent, Served
<1>4. ASSUME NEW j \in Newest(Recent(ContentOf[s])),
             client' = [client EXCEPT ![s] = [@ EXCEPT !.at = "matched", !.job = j]]
      PROVE  KeyInv'
  <2>1. client \in [Submissions -> Handler] /\ j \in Jobs /\ ContentOf[j] = ContentOf[s]
    BY DEF TypeInv, TypeOK, Newest, Recent
  <2>2. client' = [client EXCEPT ![s] = [client[s] EXCEPT !.at = "matched", !.job = j]]
    BY <1>4
  <2>3. /\ client'[s].at = "matched" /\ client'[s].job = j
        /\ \A t \in Submissions : t # s => client'[t] = client[t]
    BY <2>1, <2>2 DEF Handler
  <2>4. KeyOk(s)'
    BY <2>1, <2>3 DEF KeyOk, Served, Owning
  <2> QED BY <1>1, <2>3, <2>4, KeyKept
<1> QED BY <1>2, <1>3, <1>4 DEF FindRecent

LEMMA CreateKey ==
    ASSUME TypeInv, KeyInv, NEW s \in Submissions, CreateJob(s)
    PROVE  KeyInv'
<1>1. CASE Go(s, "clash") /\ UNCHANGED keyed
  BY <1>1, GoKey DEF Served, Owning
<1>2. ASSUME NEW j \in Newest(Live(ContentOf[s])), Bound(KeyOf[s]) = NoJob,
             Bind(KeyOf[s], j), Tell(s, "duplicate", j)
      PROVE  KeyInv'
  BY <1>2, BindKeeps, TellKey DEF Newest, Live, Recent, Served
<1>3. CASE Bound(KeyOf[s]) = NoJob /\ Register(s)
  <2>1. client \in [Submissions -> Handler]
        /\ client' = [client EXCEPT ![s] = [client[s] EXCEPT !.at = "created", !.job = s]]
    BY <1>3 DEF TypeInv, TypeOK, Register
  <2>2. /\ client'[s].at = "created"
        /\ \A t \in Submissions : t # s => client'[t] = client[t]
    BY <2>1 DEF Handler
  <2>3. Bind(KeyOf[s], s)
    BY <1>3 DEF Register
  <2>4. KeyOk(s)'
    BY <1>3, <2>2, <2>3, BindKeeps DEF KeyOk, Served
  <2> QED BY <1>3, <2>2, <2>3, <2>4, BindKeeps, KeyKept
<1> QED BY <1>1, <1>2, <1>3 DEF CreateJob

LEMMA SubmissionKey ==
    ASSUME TypeInv, KeyInv, NEW s \in Submissions, SubmissionStep(s) \/ CrashSubmission(s)
    PROVE  KeyInv'
<1>1. CASE LookupKey(s)
  <2>1. CASE Bound(KeyOf[s]) # NoJob
    BY <1>1, <2>1, TellBoundKey DEF LookupKey, jobs, Served
  <2>2. CASE Bound(KeyOf[s]) = NoJob
    BY <1>1, <2>2, GoKey DEF LookupKey, jobs, Served, Owning
  <2> QED BY <2>1, <2>2
<1>2. CASE FindRecent(s)
  BY <1>2, MatchKey
<1>3. CASE BindKey(s)
  <2>1. CASE Bound(KeyOf[s]) = NoJob
    <3>1. /\ client[s].job \in Jobs /\ ContentOf[client[s].job] = ContentOf[s]
          /\ Bind(KeyOf[s], client[s].job) /\ Tell(s, "duplicate", client[s].job)
      BY <1>3, <2>1 DEF BindKey, KeyInv, KeyOk
    <3> QED BY <2>1, <3>1, BindKeeps, TellKey DEF Served
  <2>2. CASE Bound(KeyOf[s]) # NoJob
    BY <1>3, <2>2, TellBoundKey DEF BindKey, Served
  <2> QED BY <2>1, <2>2
<1>4. CASE CreateJob(s)
  BY <1>4, CreateKey
<1>5. CASE PutObject(s) \/ Uploaded(s) \/ UploadFails(s) \/ RecordArtifact(s)
           \/ NothingToDispatch(s) \/ CrashSubmission(s)
  BY <1>5, GoKey DEF PutObject, Uploaded, UploadFails, RecordArtifact, NothingToDispatch,
     CrashSubmission, jobs, Served, Owning
<1>6. CASE Accept(s)
  <2>1. keyed' = keyed /\ Tell(s, "accepted", s) /\ client[s].at \in Owning
    BY <1>6 DEF Accept, jobs, Owning
  <2> QED BY <2>1, TellKey DEF KeyInv, KeyOk, Served, Jobs
<1> QED BY <1>1, <1>2, <1>3, <1>4, <1>5, <1>6 DEF SubmissionStep

LEMMA KeyStep == TypeInv /\ KeyInv /\ [Next]_vars => KeyInv'
<1> SUFFICES ASSUME TypeInv, KeyInv, [Next]_vars PROVE KeyInv'
  OBVIOUS
<1>1. ASSUME UNCHANGED <<client, keyed>> PROVE KeyInv'
  BY <1>1 DEF KeyInv, KeyOk
<1>2. CASE UNCHANGED vars
  BY <1>1, <1>2 DEF vars
<1>3. ASSUME NEW e \in Executors,
             DispatchStep(e) \/ DispatchFails(e) \/ \E j \in Jobs : Claim(e, j)
      PROVE  KeyInv'
  <2>1. ASSUME NEW j \in Jobs, Claim(e, j) PROVE KeyInv'
    <3>1. CASE e \in Submissions
      BY <2>1, <3>1, GoKey DEF Claim, MayClaim, jobs, Served, Owning
    <3>2. CASE e \notin Submissions
      BY <1>1, <2>1, <3>2 DEF Claim, jobs
    <3> QED BY <3>1, <3>2
  <2>2. CASE DispatchStep(e) \/ DispatchFails(e)
    BY <1>1, <2>2 DEF DispatchStep, StartWorkflow, Started, MarkQueued, MarkQueuedRefused,
       ReleaseDispatch, DispatchFails, Queue, jobs
  <2> QED BY <1>3, <2>1, <2>2
<1>4. ASSUME NEW e \in Reconcilers,
             CheckStep(e) \/ CrashReconciler(e) \/ \E j \in Jobs : ListUpload(e, j)
      PROVE  KeyInv'
  BY <1>1, <1>4 DEF CheckStep, HeadObject, VerifyArtifact, MarkFailed, RecoverArtifact,
     CrashReconciler, ListUpload, jobs
<1>5. ASSUME NEW j \in Jobs, Time(j) \/ LandPut(j) \/ LandStart(j) PROVE KeyInv'
  BY <1>1, <1>5 DEF Time, GetsOlder, LeaseExpires, OutboxDue, LandPut, LandStart, jobs
<1>6. puts \subseteq Jobs /\ starts \subseteq Jobs
  BY DEF TypeInv, TypeOK
<1> QED BY <1>2, <1>3, <1>4, <1>5, <1>6, SubmissionKey DEF Next

\* KeyMeansOneJob for any keys and contents: a binding is written once and the
\* job it names is what every path of the handler answers: repository.py:165-232.
THEOREM KeyMeansOneJobHolds == Spec => []KeyMeansOneJob
<1>1. Init => KeyInv
  BY DEF Init, KeyInv, KeyOk, Served, Owning
<1>2. TypeInv /\ KeyInv /\ [Next]_vars => KeyInv'
  BY KeyStep
<1>3. KeyInv => KeyMeansOneJob
  BY DEF KeyInv, KeyOk, KeyMeansOneJob
<1> QED BY <1>1, <1>2, <1>3, IntakeInvariant, PTL DEF Spec

-----------------------------------------------------------------------------
(* Steps *)

\* The steps that leave the tables alone, whoever takes them.
Quiet ==
    \/ \E s \in Submissions : \/ LookupKey(s) \/ FindRecent(s) \/ PutObject(s) \/ Uploaded(s)
                              \/ UploadFails(s) \/ NothingToDispatch(s) \/ Accept(s)
                              \/ CrashSubmission(s)
    \/ \E e \in Executors : \/ StartWorkflow(e) \/ Started(e) \/ MarkQueuedRefused(e)
                            \/ ReleaseDispatch(e) \/ \E j \in Jobs : Claim(e, j)
    \/ \E e \in Reconcilers : \/ HeadObject(e) \/ VerifyArtifact(e) \/ CrashReconciler(e)
                              \/ \E j \in Jobs : ListUpload(e, j)
    \/ \E j \in Jobs : Time(j)
    \/ \E j \in puts : LandPut(j)

\* A step is quiet or one of those that change a job, a key or a workflow.
LEMMA NextCases ==
    ASSUME [Next]_vars
    PROVE  \/ Quiet \/ UNCHANGED vars
           \/ \E s \in Submissions : BindKey(s) \/ CreateJob(s) \/ RecordArtifact(s)
           \/ \E e \in Executors : MarkQueued(e) \/ DispatchFails(e)
           \/ \E e \in Reconcilers : MarkFailed(e) \/ RecoverArtifact(e)
           \/ \E j \in starts : LandStart(j)
BY DEF Next, Quiet, SubmissionStep, DispatchStep, CheckStep

-----------------------------------------------------------------------------
(* Superseded dispatchers *)

\* Only the lease on record marks a job queued, or gives its row back.
LEMMA StaleStep ==
    ASSUME TypeInv, [Next]_vars, NEW e \in Executors,
           phase[e] \in {"started", "failing"}, phase'[e] # phase[e],
           outbox[held[e].job].token # held[e].token
    PROVE  UNCHANGED <<status, outbox>>
<1> USE DEF jobs, external, dispatch
<1>0. DOMAIN phase = Executors /\ ~ Fenced(e)
  BY DEF TypeInv, TypeOK, Fenced
<1>1. ASSUME NEW s \in Submissions, SubmissionStep(s) PROVE UNCHANGED phase
  BY <1>1
  DEF SubmissionStep, LookupKey, FindRecent, BindKey, CreateJob, PutObject, Uploaded, UploadFails,
      RecordArtifact, NothingToDispatch, Accept
<1>2. ASSUME NEW s \in Submissions, CrashSubmission(s) PROVE UNCHANGED <<status, outbox>>
  BY <1>2 DEF CrashSubmission
<1>3. ASSUME NEW d \in Executors, d # e,
             \/ DispatchStep(d) \/ DispatchFails(d) \/ \E j \in Jobs : Claim(d, j)
      PROVE  phase'[e] = phase[e]
  BY <1>0, <1>3
  DEF DispatchStep, StartWorkflow, Started, MarkQueued, MarkQueuedRefused, ReleaseDispatch,
      DispatchFails, Claim, Release
<1>4. CASE DispatchStep(e) \/ DispatchFails(e)
  BY <1>0, <1>4
  DEF DispatchStep, StartWorkflow, Started, MarkQueued, MarkQueuedRefused, ReleaseDispatch,
      DispatchFails, Queueable
<1>5. ~ \E j \in Jobs : Claim(e, j)
  BY DEF Claim, MayClaim
<1>6. ASSUME NEW d \in Reconcilers, CheckStep(d) \/ \E j \in Jobs : ListUpload(d, j)
      PROVE  UNCHANGED phase
  BY <1>6 DEF CheckStep, HeadObject, VerifyArtifact, MarkFailed, RecoverArtifact, ListUpload
<1>7. ASSUME NEW d \in Reconcilers, CrashReconciler(d) PROVE UNCHANGED <<status, outbox>>
  BY <1>7 DEF CrashReconciler
<1>8. ASSUME NEW j \in Jobs, Time(j) PROVE UNCHANGED phase
  BY <1>8 DEF Time, GetsOlder, LeaseExpires, OutboxDue
<1>9. ASSUME NEW j, LandPut(j) \/ LandStart(j) PROVE UNCHANGED phase
  BY <1>9 DEF LandPut, LandStart
<1>10. CASE UNCHANGED vars
  BY <1>10 DEF vars
<1> QED BY <1>1, <1>2, <1>3, <1>4, <1>5, <1>6, <1>7, <1>8, <1>9, <1>10 DEF Next

\* repository.py: whatever a dispatcher whose lease was superseded still
\* reports, job and outbox row stay as they are.
THEOREM StaleDispatcherIsHarmlessHolds == Spec => StaleDispatcherIsHarmless
<1>1. TypeInv /\ [Next]_vars =>
        [ \A e \in Executors :
            (/\ phase[e] \in {"started", "failing"} /\ phase'[e] # phase[e]
             /\ outbox[held[e].job].token # held[e].token)
               => UNCHANGED <<status, outbox>> ]_vars
  BY StaleStep
<1> QED BY <1>1, IntakeInvariant, PTL DEF Spec, StaleDispatcherIsHarmless

-----------------------------------------------------------------------------
(* Uploads *)

\* An upload is sent once, after the job is registered, and lands once; what a
\* reconciler has verified is there for good; a match is a job.
UploadInv ==
    /\ \A s \in Submissions :
         /\ client[s].at \in Early \cup {"created"} => object[s] = "none" /\ s \notin puts
         /\ client[s].at = "matched" => Exists(client[s].job)
    /\ \A j \in puts : object[j] = "none"
    /\ \A e \in Reconcilers : check[e].at = "verified" => object[check[e].job] = "intact"

\* Where the handlers of the submissions go in a step.
Onward(s) ==
    /\ \A t \in Submissions : t # s => client'[t] = client[t]
    /\ client'[s].at \in Early \cup {"created"} => client[s].at \in Early
    /\ client'[s].at = "matched" => client'[s].job \in Jobs /\ Exists(client'[s].job)

LEMMA SubmissionOnward ==
    ASSUME TypeInv, NEW s \in Submissions, SubmissionStep(s)
    PROVE  Onward(s)
<1>0. client \in [Submissions -> Handler]
  BY DEF TypeInv, TypeOK
<1>1. CASE LookupKey(s)
  <2>1. client[s].at \in Early /\ (TellBound(s, "replay") \/ Go(s, "unseen"))
    BY <1>1, Zenon DEF LookupKey, Early
  <2> QED BY <2>1, TellBoundMoves, GoMoves DEF Onward
<1>2. CASE FindRecent(s)
  <2>1. \/ Go(s, "fresh")
        \/ \E match \in Newest(Recent(ContentOf[s])) :
             \/ Tell(s, "duplicate", match)
             \/ client' = [client EXCEPT ![s] =
                              [client[s] EXCEPT !.at = "matched", !.job = match]]
    BY <1>2, Zenon DEF FindRecent
  <2>2. client[s].at \in Early
    BY <1>2 DEF FindRecent, Early
  <2>3. ASSUME NEW match \in Newest(Recent(ContentOf[s])),
               client' = [client EXCEPT ![s] = [client[s] EXCEPT !.at = "matched", !.job = match]]
        PROVE  Onward(s)
    <3>1. match \in Jobs /\ Exists(match)
      BY <2>3 DEF Newest, Recent
    <3>2. client'[s].job = match /\ \A t \in Submissions : t # s => client'[t] = client[t]
      BY <1>0, <2>3 DEF Handler
    <3> QED BY <2>2, <3>1, <3>2 DEF Onward
  <2>4. ASSUME NEW match, Tell(s, "duplicate", match) PROVE Onward(s)
    BY <2>2, <2>4, TellMoves DEF Onward
  <2>5. ASSUME Go(s, "fresh") PROVE Onward(s)
    BY <2>2, <2>5, GoMoves DEF Onward
  <2> QED BY <2>1, <2>3, <2>4, <2>5
<1>3. CASE BindKey(s)
  <2>1. Tell(s, "duplicate", client[s].job) \/ TellBound(s, "duplicate")
    BY <1>3, Zenon DEF BindKey
  <2> QED BY <2>1, TellBoundMoves, TellMoves DEF Onward, Early
<1>4. CASE CreateJob(s)
  <2>1. client[s].at \in Early
    BY <1>4 DEF CreateJob, Early
  <2>2. CASE Go(s, "clash") \/ \E j \in Newest(Live(ContentOf[s])) : Tell(s, "duplicate", j)
    BY <2>1, <2>2, TellMoves, GoMoves DEF Onward, Early
  <2>3. CASE Register(s)
    <3>1. client' = [client EXCEPT ![s] = [client[s] EXCEPT !.at = "created", !.job = s]]
      BY <2>3, Zenon DEF Register
    <3> QED BY <1>0, <2>1, <3>1 DEF Onward, Handler
  <2> QED BY <1>4, <2>2, <2>3, Zenon DEF CreateJob
<1>5. CASE PutObject(s) BY <1>5, GoMoves DEF PutObject, Onward, Early
<1>6. CASE Uploaded(s) BY <1>6, GoMoves DEF Uploaded, Onward, Early
<1>7. CASE UploadFails(s) BY <1>7, GoMoves DEF UploadFails, Onward, Early
<1>8. CASE RecordArtifact(s) BY <1>8, GoMoves DEF RecordArtifact, Onward, Early
<1>9. CASE NothingToDispatch(s) BY <1>9, GoMoves DEF NothingToDispatch, Onward, Early
<1>10. CASE Accept(s) BY <1>10, TellMoves DEF Accept, Onward, Early
<1> QED
  BY <1>1, <1>2, <1>3, <1>4, <1>5, <1>6, <1>7, <1>8, <1>9, <1>10 DEF SubmissionStep

\* No job is ever forgotten.
LEMMA JobsStay ==
    ASSUME TypeInv, [Next]_vars, NEW j \in Jobs, Exists(j) PROVE Exists(j)'
<1> USE DEF Exists, jobs
<1>0. DOMAIN status = Jobs
  BY DEF TypeInv, TypeOK
<1>1. ASSUME UNCHANGED status PROVE Exists(j)'
  BY <1>1
<1>2. CASE Quiet \/ UNCHANGED vars
  BY <1>1, <1>2
  DEF Quiet, LookupKey, FindRecent, PutObject, Uploaded, UploadFails, NothingToDispatch, Accept,
      CrashSubmission, StartWorkflow, Started, MarkQueuedRefused, ReleaseDispatch, Claim,
      HeadObject, VerifyArtifact, CrashReconciler, ListUpload, Time, GetsOlder, LeaseExpires,
      OutboxDue, LandPut, vars
<1>3. ASSUME NEW s \in Submissions, BindKey(s) \/ CreateJob(s) \/ RecordArtifact(s)
      PROVE  Exists(j)'
  BY <1>0, <1>3 DEF BindKey, CreateJob, Register, RecordArtifact, Store
<1>4. ASSUME NEW e \in Executors, MarkQueued(e) \/ DispatchFails(e) PROVE Exists(j)'
  BY <1>0, <1>4 DEF MarkQueued, DispatchFails, Queue
<1>5. ASSUME NEW e \in Reconcilers, MarkFailed(e) \/ RecoverArtifact(e) PROVE Exists(j)'
  BY <1>0, <1>5 DEF MarkFailed, RecoverArtifact, Store
<1>6. ASSUME NEW i, LandStart(i) PROVE Exists(j)'
  BY <1>6 DEF LandStart
<1> QED BY <1>2, <1>3, <1>4, <1>5, <1>6, NextCases

\* What keeps the invariant when no upload is sent or lands and nothing is
\* verified.
LEMMA UploadKept ==
    ASSUME TypeInv, UploadInv, [Next]_vars, UNCHANGED <<object, puts>>,
           \/ UNCHANGED client
           \/ \E s \in Submissions : Onward(s),
           \A e \in Reconcilers : check'[e].at = "verified" => check'[e] = check[e]
    PROVE  UploadInv'
<1>1. \A s \in Submissions : client[s].at = "matched" => client[s].job \in Jobs
  BY DEF TypeInv, MatchKnown
<1>2. CASE UNCHANGED client
  BY <1>1, <1>2, JobsStay DEF UploadInv
<1>3. ASSUME NEW s \in Submissions, Onward(s) PROVE UploadInv'
  BY <1>1, <1>3, JobsStay DEF UploadInv, Onward
<1> QED BY <1>2, <1>3

LEMMA UploadStep == TypeInv /\ UploadInv /\ [Next]_vars => UploadInv'
<1> SUFFICES ASSUME TypeInv, UploadInv, [Next]_vars PROVE UploadInv'
  OBVIOUS
<1> USE DEF jobs, external, dispatch
<1>0. /\ DOMAIN check = Reconcilers /\ DOMAIN object = Jobs /\ puts \subseteq Jobs
      /\ \A s \in Submissions : client[s].at = "matched" => client[s].job \in Jobs
  BY DEF TypeInv, TypeOK, MatchKnown
<1>1. ASSUME NEW s \in Submissions, SubmissionStep(s) PROVE UploadInv'
  <2>1. Onward(s)
    BY <1>1, SubmissionOnward
  <2>2. CASE PutObject(s)
    <3>1. client'[s].at = "uploading"
      BY <2>2, GoMoves DEF PutObject
    <3> QED BY <1>0, <2>1, <2>2, <3>1, JobsStay DEF PutObject, UploadInv, Onward, Early
  <2>3. CASE ~ PutObject(s)
    <3>1. UNCHANGED <<object, puts, check>>
      BY <1>1, <2>3
      DEF SubmissionStep, LookupKey, FindRecent, BindKey, CreateJob, Uploaded, UploadFails,
          RecordArtifact, NothingToDispatch, Accept
    <3> QED BY <2>1, <3>1, UploadKept
  <2> QED BY <2>2, <2>3
<1>2. ASSUME NEW s \in Submissions, CrashSubmission(s) PROVE UploadInv'
  <2>1. Onward(s)
    BY <1>2, GoMoves DEF CrashSubmission, Onward, Early
  <2> QED BY <1>2, <2>1, UploadKept DEF CrashSubmission
<1>3. ASSUME NEW e \in Executors, DispatchStep(e) \/ DispatchFails(e) PROVE UploadInv'
  BY <1>3, UploadKept
  DEF DispatchStep, StartWorkflow, Started, MarkQueued, MarkQueuedRefused, ReleaseDispatch,
      DispatchFails
<1>4. ASSUME NEW e \in Executors, NEW j \in Jobs, Claim(e, j) PROVE UploadInv'
  <2>1. CASE e \in Submissions
    <3>1. Onward(e)
      BY <1>4, <2>1, GoMoves DEF Claim, Onward, Early
    <3> QED BY <1>4, <2>1, <3>1, UploadKept DEF Claim
  <2>2. CASE e \notin Submissions
    BY <1>4, <2>2, UploadKept DEF Claim
  <2> QED BY <2>1, <2>2
<1>5. ASSUME NEW e \in Reconcilers, CheckStep(e) \/ CrashReconciler(e) \/ \E j \in Jobs : ListUpload(e, j)
      PROVE  UploadInv'
  <2>1. CASE VerifyArtifact(e)
    <3>1. /\ \A d \in Reconcilers : d # e => check'[d] = check[d]
          /\ check'[e].job = check[e].job
          /\ check'[e].at = "verified" => object[check[e].job] = "intact"
      BY <1>0, <2>1 DEF VerifyArtifact, TypeInv, TypeOK, Check, NoCheck
    <3>2. UNCHANGED <<object, puts, client, status>>
      BY <2>1 DEF VerifyArtifact
    <3> QED BY <3>1, <3>2 DEF UploadInv, Exists
  <2>2. CASE ~ VerifyArtifact(e)
    <3>1. \A d \in Reconcilers : d # e => check'[d] = check[d]
      BY <1>0, <1>5, <2>2
      DEF CheckStep, HeadObject, MarkFailed, RecoverArtifact, CrashReconciler, ListUpload
    <3>2. check'[e].at # "verified"
      BY <1>0, <1>5, <2>2
      DEF CheckStep, HeadObject, MarkFailed, RecoverArtifact, CrashReconciler, ListUpload,
          NoCheck, TypeInv, TypeOK, Check
    <3>3. UNCHANGED <<object, puts, client>>
      BY <1>5, <2>2
      DEF CheckStep, HeadObject, MarkFailed, RecoverArtifact, CrashReconciler, ListUpload
    <3> QED BY <3>1, <3>2, <3>3, UploadKept
  <2> QED BY <2>1, <2>2
<1>6. ASSUME NEW j \in Jobs, Time(j) PROVE UploadInv'
  BY <1>6, UploadKept DEF Time, GetsOlder, LeaseExpires, OutboxDue
<1>7. ASSUME NEW j \in puts, LandPut(j) PROVE UploadInv'
  <2>1. /\ puts' = puts \ {j} /\ \A i \in Jobs : i # j => object'[i] = object[i]
        /\ UNCHANGED <<client, check, status>>
    BY <1>0, <1>7 DEF LandPut
  <2>2. \A e \in Reconcilers : check[e].at = "verified" => check[e].job \in Jobs /\ check[e].job # j
    BY DEF UploadInv, TypeInv, TypeOK, Check, NoCheck
  <2>3. \A s \in Submissions : client[s].at \in Early \cup {"created"} => s # j
    BY DEF UploadInv
  <2> QED BY <1>0, <2>1, <2>2, <2>3 DEF UploadInv, Exists, Jobs
<1>8. ASSUME NEW j, LandStart(j) PROVE UploadInv'
  BY <1>8, UploadKept DEF LandStart
<1>9. CASE UNCHANGED vars
  BY <1>9, UploadKept DEF vars
<1> QED BY <1>1, <1>2, <1>3, <1>4, <1>5, <1>6, <1>7, <1>8, <1>9 DEF Next

LEMMA UploadInvariant == Spec => []UploadInv
<1>1. Init => UploadInv
  BY DEF Init, UploadInv, NoCheck, Jobs
<1> QED BY <1>1, UploadStep, IntakeInvariant, PTL DEF Spec

\* A damaged object is recorded by nobody but the submission that uploaded it.
LEMMA VerifiedStep ==
    ASSUME TypeInv, UploadInv, [Next]_vars, NEW j \in Jobs,
           status[j] = "RECEIVED", status'[j] = "STORED", object[j] = "corrupt"
    PROVE  client[j].at = "stored"
<1> USE DEF jobs
<1>0. DOMAIN status = Jobs
  BY DEF TypeInv, TypeOK
<1>1. CASE Quiet \/ UNCHANGED vars
  <2>1. UNCHANGED status
    BY <1>1
    DEF Quiet, LookupKey, FindRecent, PutObject, Uploaded, UploadFails, NothingToDispatch, Accept,
        CrashSubmission, StartWorkflow, Started, MarkQueuedRefused, ReleaseDispatch, Claim,
        HeadObject, VerifyArtifact, CrashReconciler, ListUpload, Time, GetsOlder, LeaseExpires,
        OutboxDue, LandPut, vars
  <2> QED BY <2>1
<1>2. ASSUME NEW s \in Submissions, BindKey(s) \/ CreateJob(s) PROVE FALSE
  BY <1>0, <1>2 DEF BindKey, CreateJob, Register
<1>3. ASSUME NEW s \in Submissions, RecordArtifact(s) PROVE client[j].at = "stored"
  BY <1>0, <1>3 DEF RecordArtifact, Store
<1>4. ASSUME NEW e \in Executors, MarkQueued(e) \/ DispatchFails(e) PROVE FALSE
  BY <1>0, <1>4 DEF MarkQueued, DispatchFails, Queue
<1>5. ASSUME NEW e \in Reconcilers, MarkFailed(e) PROVE FALSE
  BY <1>0, <1>5 DEF MarkFailed
<1>6. ASSUME NEW e \in Reconcilers, RecoverArtifact(e) PROVE FALSE
  BY <1>0, <1>6 DEF RecoverArtifact, Store, UploadInv
<1>7. ASSUME NEW i, LandStart(i) PROVE FALSE
  BY <1>7 DEF LandStart
<1> QED BY <1>1, <1>2, <1>3, <1>4, <1>5, <1>6, <1>7, NextCases

\* main.py:133-199: bytes other than those registered are never recorded by a
\* reconciler, however late uploads land between its check and its record.
THEOREM RecoveredIsVerifiedHolds == Spec => RecoveredIsVerified
<1>1. TypeInv /\ UploadInv /\ [Next]_vars =>
        [ \A j \in Jobs :
            (status[j] = "RECEIVED" /\ status'[j] = "STORED" /\ object[j] = "corrupt")
               => client[j].at = "stored" ]_vars
  BY VerifiedStep
<1> QED BY <1>1, UploadInvariant, IntakeInvariant, PTL DEF Spec, RecoveredIsVerified

-----------------------------------------------------------------------------
(* The promise *)

\* What a caller can see of job j, as IntakePromise has it.
Seen(j) == IF status[j] = "absent" THEN "none"
           ELSE IF status[j] = "RECEIVED" THEN "registered"
           ELSE IF status[j] = "FAILED" THEN "failed"
           ELSE IF runs[j] = 0 THEN "durable"
           ELSE "processing"

AllSeen == [j \in Jobs |-> Seen(j)]
Settled == {j \in Jobs : status[j] = "QUEUED"}

\* One job is seen elsewhere.
LEMMA SeenMoves ==
    ASSUME NEW j \in Jobs, \A i \in Jobs : i # j => status'[i] = status[i] /\ runs'[i] = runs[i]
    PROVE  AllSeen' = [AllSeen EXCEPT ![j] = Seen(j)']
BY DEF AllSeen, Seen

LEMMA UnseenStep ==
    ASSUME UNCHANGED <<status, keyed, runs>> PROVE UNCHANGED Promise!vars
BY DEF Promise!vars

\* A key without a job is bound, or there is no key.
LEMMA BindStep ==
    ASSUME TypeInv, NEW s \in Submissions, NEW j, Bound(KeyOf[s]) = NoJob, Bind(KeyOf[s], j)
    PROVE  UNCHANGED keyed \/ \E k \in Keys : Promise!BindAt(k, j)
<1>1. KeyOf[s] \in Keys \cup {NoKey}
  BY IngestionAssumption
<1>2. CASE KeyOf[s] = NoKey
  BY <1>2 DEF Bind
<1>3. CASE KeyOf[s] # NoKey
  BY <1>1, <1>3 DEF Bind, Bound, Promise!BindAt
<1> QED BY <1>2, <1>3

\* A key of its own for a job there is.
LEMMA KnownStep ==
    ASSUME TypeInv, NEW s \in Submissions, NEW j \in Jobs, Exists(j), Bound(KeyOf[s]) = NoJob,
           Bind(KeyOf[s], j), UNCHANGED <<status, runs>>
    PROVE  [Promise!Next]_(Promise!vars)
<1>1. CASE UNCHANGED keyed
  BY <1>1, UnseenStep
<1>2. ASSUME NEW k \in Keys, Promise!BindAt(k, j) PROVE Promise!Bind(k, j)
  BY <1>2 DEF Promise!Bind, Exists
<1> QED BY <1>1, <1>2, BindStep DEF Promise!Next

\* A job that moves on, none being settled by it.
LEMMA MovesOn ==
    ASSUME TypeInv, NEW j \in Jobs, UNCHANGED keyed,
           \A i \in Jobs : i # j => status'[i] = status[i] /\ runs'[i] = runs[i],
           status'[j] # "QUEUED", status[j] # "QUEUED",
           \/ Seen(j) = "registered" /\ Seen(j)' \in {"durable", "failed"}
           \/ Seen(j) = "durable" /\ Seen(j)' = "processing"
    PROVE  Promise!Next
<1>1. AllSeen' = [AllSeen EXCEPT ![j] = Seen(j)'] /\ AllSeen[j] = Seen(j)
  BY SeenMoves DEF AllSeen
<1>2. Settled' = Settled
  BY DEF Settled
<1>3. CASE Seen(j) = "registered" /\ Seen(j)' = "durable"
  <2>1. Promise!Persist(j)
    BY <1>1, <1>2, <1>3 DEF Promise!Persist, AllSeen, Seen, Settled
  <2> QED BY <2>1 DEF Promise!Next
<1>4. CASE Seen(j) = "registered" /\ Seen(j)' = "failed"
  <2>1. Promise!Fail(j)
    BY <1>1, <1>2, <1>4 DEF Promise!Fail, AllSeen, Seen, Settled
  <2> QED BY <2>1 DEF Promise!Next
<1>5. CASE Seen(j) = "durable" /\ Seen(j)' = "processing"
  <2>1. Promise!Process(j)
    BY <1>1, <1>2, <1>5 DEF Promise!Process, AllSeen, Seen, Settled
  <2> QED BY <2>1 DEF Promise!Next
<1> QED BY <1>3, <1>4, <1>5

LEMMA RegisterStep ==
    ASSUME TypeInv, RunInv, NEW s \in Submissions, client[s].at \in Early,
           Bound(KeyOf[s]) = NoJob, Register(s), UNCHANGED runs
    PROVE  Promise!Next
<1>1. status[s] = "absent" /\ DOMAIN status = Jobs
  BY DEF RunInv, TypeInv, TypeOK
<1>2. status' = [status EXCEPT ![s] = "RECEIVED"]
  BY DEF Register
<1>3. AllSeen' = [AllSeen EXCEPT ![s] = "registered"] /\ AllSeen[s] = "none"
  BY <1>1, <1>2, SeenMoves DEF AllSeen, Seen, Jobs
<1>4. Settled' = Settled
  BY <1>1, <1>2 DEF Settled, Jobs
<1>5. UNCHANGED keyed \/ \E k \in Keys : Promise!BindAt(k, s)
  BY BindStep DEF Register
<1>6. Promise!Register(s)
  BY <1>3, <1>4, <1>5 DEF Promise!Register, AllSeen, Seen, Settled
<1> QED BY <1>6 DEF Promise!Next, Jobs

LEMMA StoreStep ==
    ASSUME TypeInv, RunInv, NEW j \in Jobs, Store(j), UNCHANGED <<keyed, runs>>
    PROVE  [Promise!Next]_(Promise!vars)
<1>0. DOMAIN status = Jobs
  BY DEF TypeInv, TypeOK
<1>1. CASE status[j] = "RECEIVED"
  <2>1. runs[j] = 0
    BY <1>1 DEF RunInv, WorkflowBackedByArtifact, TypeInv, TypeOK
  <2>2. status' = [status EXCEPT ![j] = "STORED"]
    BY <1>1 DEF Store
  <2>3. Seen(j) = "registered" /\ Seen(j)' = "durable"
    BY <1>0, <1>1, <2>1, <2>2 DEF Seen
  <2> QED BY <1>0, <1>1, <2>2, <2>3, MovesOn
<1>2. CASE status[j] # "RECEIVED"
  BY <1>2, UnseenStep DEF Store
<1> QED BY <1>1, <1>2

LEMMA FailStep ==
    ASSUME TypeInv, NEW e \in Reconcilers, MarkFailed(e)
    PROVE  [Promise!Next]_(Promise!vars)
<1>0. DOMAIN status = Jobs
  BY DEF TypeInv, TypeOK
<1>1. PICK j \in Jobs : j = check[e].job
  BY DEF MarkFailed, TypeInv, TypeOK, Check, NoCheck
<1>2. UNCHANGED <<keyed, runs>>
  BY DEF MarkFailed, external
<1>3. CASE status[j] = "RECEIVED"
  <2>1. status' = [status EXCEPT ![j] = "FAILED"]
    BY <1>1, <1>3 DEF MarkFailed
  <2>2. Seen(j) = "registered" /\ Seen(j)' = "failed"
    BY <1>0, <1>3, <2>1 DEF Seen
  <2> QED BY <1>0, <1>2, <1>3, <2>1, <2>2, MovesOn
<1>4. CASE status[j] # "RECEIVED"
  <2>1. status' = status
    BY <1>1, <1>4 DEF MarkFailed, TypeInv, TypeOK
  <2> QED BY <1>2, <2>1, UnseenStep
<1> QED BY <1>3, <1>4

\* A job is reported as queued while its workflow runs.
LEMMA QueueStep ==
    ASSUME TypeInv, RunInv, NEW e \in Executors, phase[e] = "started", Queueable(e), Queue(e),
           UNCHANGED runs
    PROVE  Promise!Next
<1>1. PICK j \in Jobs : j = held[e].job
  BY BusyHoldsLease DEF Lease
<1>2. /\ status[j] \in {"STORED", "QUEUED"}
      /\ runs[j] # 0
      /\ DOMAIN status = Jobs
  BY <1>1 DEF Queueable, RunInv, TypeInv, TypeOK
<1>3. status' = [status EXCEPT ![j] = "QUEUED"] /\ UNCHANGED keyed
  BY <1>1, Zenon DEF Queue
<1>4. AllSeen' = AllSeen /\ AllSeen[j] = "processing"
  <2>1. \A i \in Jobs : Seen(i)' = Seen(i)
    BY <1>2, <1>3 DEF Seen
  <2> QED BY <1>2, <2>1 DEF AllSeen, Seen
<1>5. Settled' = Settled \cup {j}
  BY <1>2, <1>3 DEF Settled
<1>6. Promise!Settle(j)
  BY <1>3, <1>4, <1>5 DEF Promise!Settle, AllSeen, Seen, Settled
<1> QED BY <1>6 DEF Promise!Next

LEMMA StartStep ==
    ASSUME TypeInv, RunInv, NEW j \in starts, LandStart(j)
    PROVE  [Promise!Next]_(Promise!vars)
<1>1. /\ j \in Jobs /\ Recorded(j) /\ DOMAIN runs = Jobs
      /\ UNCHANGED <<status, keyed>>
  BY DEF TypeInv, TypeOK, RunInv, LandStart, jobs
<1>2. CASE runs[j] = 0
  <2>1. status[j] = "STORED"
    BY <1>1, <1>2 DEF RunInv, WorkflowBackedByArtifact, Recorded
  <2>2. runs' = [runs EXCEPT ![j] = 1]
    BY <1>2 DEF LandStart
  <2>3. Seen(j) = "durable" /\ Seen(j)' = "processing"
    BY <1>1, <1>2, <2>1, <2>2 DEF Seen
  <2> QED BY <1>1, <2>1, <2>2, <2>3, MovesOn
<1>3. CASE runs[j] # 0
  <2>1. runs' = runs
    BY <1>1, <1>3 DEF LandStart, TypeInv, TypeOK
  <2> QED BY <1>1, <2>1, UnseenStep
<1> QED BY <1>2, <1>3

\* A step of the intake is a step of the promise, or is not seen.
LEMMA PromiseStep ==
    TypeInv /\ RunInv /\ UploadInv /\ [Next]_vars => [Promise!Next]_(Promise!vars)
<1> SUFFICES ASSUME TypeInv, RunInv, UploadInv, [Next]_vars
             PROVE  [Promise!Next]_(Promise!vars)
  OBVIOUS
<1> USE DEF jobs, external
<1>1. CASE Quiet \/ UNCHANGED vars
  <2>1. UNCHANGED <<status, keyed, runs>>
    BY <1>1
    DEF Quiet, LookupKey, FindRecent, PutObject, Uploaded, UploadFails, NothingToDispatch, Accept,
        CrashSubmission, StartWorkflow, Started, MarkQueuedRefused, ReleaseDispatch, Claim,
        HeadObject, VerifyArtifact, CrashReconciler, ListUpload, Time, GetsOlder, LeaseExpires,
        OutboxDue, LandPut, vars
  <2> QED BY <2>1, UnseenStep
<1>2. ASSUME NEW s \in Submissions, BindKey(s) PROVE [Promise!Next]_(Promise!vars)
  <2>1. client[s].job \in Jobs /\ Exists(client[s].job) /\ UNCHANGED <<status, runs>>
    BY <1>2 DEF BindKey, TypeInv, MatchKnown, UploadInv
  <2>2. PICK j \in Jobs : j = client[s].job
    BY <2>1
  <2>3. CASE Bound(KeyOf[s]) = NoJob
    <3>1. Bind(KeyOf[s], j)
      BY <1>2, <2>2, <2>3 DEF BindKey
    <3> QED BY <2>1, <2>2, <2>3, <3>1, KnownStep
  <2>4. CASE Bound(KeyOf[s]) # NoJob
    BY <1>2, <2>1, <2>4, UnseenStep DEF BindKey
  <2> QED BY <2>3, <2>4
<1>3. ASSUME NEW s \in Submissions, CreateJob(s) PROVE [Promise!Next]_(Promise!vars)
  <2>1. client[s].at \in Early /\ UNCHANGED runs
    BY <1>3 DEF CreateJob, Early
  <2>2. CASE UNCHANGED <<status, made, keyed>>
    BY <2>1, <2>2, UnseenStep
  <2>3. ASSUME NEW j \in Newest(Live(ContentOf[s])), Bound(KeyOf[s]) = NoJob, Bind(KeyOf[s], j),
               UNCHANGED status
        PROVE  [Promise!Next]_(Promise!vars)
    <3>1. j \in Jobs /\ Exists(j)
      BY DEF Newest, Live, Recent
    <3> QED BY <2>1, <2>3, <3>1, KnownStep
  <2>4. CASE Bound(KeyOf[s]) = NoJob /\ Register(s)
    BY <2>1, <2>4, RegisterStep
  <2> QED BY <1>3, <2>2, <2>3, <2>4 DEF CreateJob
<1>4. ASSUME NEW s \in Submissions, RecordArtifact(s) PROVE [Promise!Next]_(Promise!vars)
  BY <1>4, StoreStep DEF RecordArtifact, Jobs
<1>5. ASSUME NEW e \in Executors, MarkQueued(e) \/ DispatchFails(e)
      PROVE  [Promise!Next]_(Promise!vars)
  <2>1. CASE phase[e] = "started" /\ Queueable(e) /\ Queue(e)
    BY <1>5, <2>1, QueueStep DEF MarkQueued, DispatchFails
  <2>2. CASE UNCHANGED <<status, keyed>>
    BY <1>5, <2>2, UnseenStep DEF MarkQueued, DispatchFails
  <2> QED BY <1>5, <2>1, <2>2 DEF MarkQueued, DispatchFails
<1>6. ASSUME NEW e \in Reconcilers, MarkFailed(e) PROVE [Promise!Next]_(Promise!vars)
  BY <1>6, FailStep
<1>7. ASSUME NEW e \in Reconcilers, RecoverArtifact(e) PROVE [Promise!Next]_(Promise!vars)
  <2>1. PICK j \in Jobs : j = check[e].job
    BY <1>7 DEF RecoverArtifact, TypeInv, TypeOK, Check, NoCheck
  <2> QED BY <1>7, <2>1, StoreStep DEF RecoverArtifact
<1>8. ASSUME NEW j \in starts, LandStart(j) PROVE [Promise!Next]_(Promise!vars)
  BY <1>8, StartStep
<1> QED BY <1>1, <1>2, <1>3, <1>4, <1>5, <1>6, <1>7, <1>8, NextCases

\* main.py:133-222, repository.py:165-346: with dispatchers that die, leases that
\* lapse and uploads that land late, callers see of the intake what
\* IntakePromise says: a key is bound once and for all, a job is processed at
\* most once and only after its document is durable, and a failed one never.
THEOREM IntakeImplementsPromise == Spec => ImplementsPromise
<1>1. Init => Promise!Init
  BY DEF Init, Promise!Init
<1> QED
  BY <1>1, PromiseStep, UploadInvariant, IntakeInvariant, PTL
  DEF Spec, ImplementsPromise, Promise!Spec
=============================================================================
