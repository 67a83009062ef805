---------------------------- MODULE Reprocessing ----------------------------
(***************************************************************************)
(* Reprocessing of OCR exceptions: POST /exceptions/{job}/reprocess gives a *)
(* job that ended as an OCR exception one replacement, whose source is      *)
(* copied from it; the reconcilers finish what handlers leave undone and    *)
(* settle the request by what becomes of the replacement.                   *)
(*                                                                         *)
(* The dispatch of a stored job is that of Ingestion, whose leases are not  *)
(* repeated here; the workflow and the delivery ledger are seen from        *)
(* outside.  Handlers and reconcilers may die, and any read may fail.       *)
(***************************************************************************)
EXTENDS Naturals, Sequences

CONSTANTS
    Jobs,           \* job ids, those of replacements not used yet included
    Exceptions,     \* jobs whose workflow ended as an OCR exception
    Requests,       \* calls of the reprocess endpoint
    TargetOf,       \* the job each is about
    FormOf,         \* its idempotency key, reason and operator
    Reconcilers,    \* replicas of the ingestion service
    None

ASSUME ReprocessingAssumption ==
    /\ Exceptions \subseteq Jobs
    /\ TargetOf \in [Requests -> Jobs]
    /\ DOMAIN FormOf = Requests
    /\ None \notin Jobs \cup {"requested", "dispatched", "resolved", "needs_attention"}

VARIABLES
    job,        \* ingestion_jobs: status, source of a replacement, names an artifact
    object,     \* the raw object of each job: the document, another one or none
    born,       \* the replacements, by created_at
    request,    \* ingestion_reprocess_requests, by parent
    run,        \* the workflow of each job
    operation,  \* its delivery, in the ledger
    handler,    \* where the handler of each request is, and its replacement
    worker      \* where each reconciler is, the uploads left and its verdict

registry == <<job, object, born, request>>
pipeline == <<run, operation>>
service  == <<handler, worker>>
reprocessing == <<registry, pipeline, service>>

-----------------------------------------------------------------------------
Forms      == {FormOf[r] : r \in Requests}
Statuses   == {"unused", "RECEIVED", "STORED", "QUEUED", "FAILED", "gone"}
Unresolved == {"requested", "dispatched"}
Verdicts   == {"resolved", "needs_attention"}
Ended      == {"ocr_exception", "delivered", "failed"}
Absent     == [child |-> None, form |-> None, status |-> None]
Resting    == [at |-> "idle", left |-> {}, parent |-> None, verdict |-> None]

ReprocessingTypeOK ==
    /\ job \in [Jobs -> [status : Statuses, source : Jobs \cup {None}, named : BOOLEAN]]
    /\ object \in [Jobs -> {"none", "document", "other"}]
    /\ born \in Seq(Jobs)
    /\ request \in [Jobs -> [child : Jobs, form : Forms, status : Unresolved \cup Verdicts] \cup {Absent}]
    /\ run \in [Jobs -> {"none", "running", "delivering"} \cup Ended]
    /\ operation \in [Jobs -> {"none", "pending", "acknowledged", "dead_letter"}]
    /\ handler \in [Requests -> [at : {"new", "checking", "fetched", "registered", "uploaded",
                                       "answered", "refused"},
                                 child : Jobs \cup {None}]]
    /\ worker \in [Reconcilers -> [at : {"idle", "passing", "writing"}, left : SUBSET Jobs,
                                   parent : Jobs \cup {None}, verdict : Verdicts \cup {None}]]

\* The jobs are those of Ingestion after a while.
ReprocessingInit ==
    /\ job = [j \in Jobs |-> [status |-> IF j \in Exceptions THEN "QUEUED" ELSE "unused",
                              source |-> None, named |-> j \in Exceptions]]
    /\ object = [j \in Jobs |-> IF j \in Exceptions THEN "document" ELSE "none"]
    /\ born = <<>>
    /\ request = [j \in Jobs |-> Absent]
    /\ run = [j \in Jobs |-> IF j \in Exceptions THEN "ocr_exception" ELSE "none"]
    /\ operation = [j \in Jobs |-> "none"]
    /\ handler = [r \in Requests |-> [at |-> "new", child |-> None]]
    /\ worker = [k \in Reconcilers |-> Resting]

-----------------------------------------------------------------------------
(* The rows *)

Exists(j)   == job[j].status \notin {"unused", "gone"}
Active(p)   == request[p].status \in Unresolved
Received(j) == job[j].status = "RECEIVED"

\* update_artifact, mark_failed: only from RECEIVED.
Stored(j) == job' = IF Received(j) THEN [job EXCEPT ![j].status = "STORED", ![j].named = TRUE]
                    ELSE job
Failed(j) == job' = IF Received(j) THEN [job EXCEPT ![j].status = "FAILED"] ELSE job

-----------------------------------------------------------------------------
(* The handler of a request *)

Goto(r, place, c) == handler' = [handler EXCEPT ![r] = [at |-> place, child |-> c]]
Refuse(r) == Goto(r, "refused", None)

\* What a request that finds an earlier one does: `then` with the replacement of
\* an identical one, 409 otherwise.
Meet(r, then) ==
    IF request[TargetOf[r]].form = FormOf[r] THEN Goto(r, then, request[TargetOf[r]].child)
    ELSE Refuse(r)

\* get_reprocess_request and get_job_by_id.
Look(r) ==
    /\ handler[r].at = "new"
    /\ \/ request[TargetOf[r]] # Absent /\ Meet(r, "answered")
       \/ request[TargetOf[r]] = Absent
          /\ IF Exists(TargetOf[r]) /\ job[TargetOf[r]].named
             THEN Goto(r, "checking", None) ELSE Refuse(r)
    /\ UNCHANGED <<registry, pipeline, worker>>

\* The workflow and the exception are looked up and the source is downloaded
\* and verified; 409 or 503 otherwise.
Fetch(r) ==
    /\ handler[r].at = "checking"
    /\ \/ /\ run[TargetOf[r]] = "ocr_exception"
          /\ object[TargetOf[r]] = "document"
          /\ Goto(r, "fetched", None)
       \/ Refuse(r)
    /\ UNCHANGED <<registry, pipeline, worker>>

Replace(r, c) ==
    /\ job' = [job EXCEPT ![c] = [status |-> "RECEIVED", source |-> TargetOf[r], named |-> FALSE]]
    /\ born' = Append(born, c)
    /\ request' = [request EXCEPT ![TargetOf[r]] =
                     [child |-> c, form |-> FormOf[r], status |-> "requested"]]
    /\ Goto(r, "registered", c)

\* Mutant: the artifact is not looked at again under the lock.
RegisterUnchecked(r) ==
    /\ handler[r].at = "fetched"
    /\ IF request[TargetOf[r]] # Absent
       THEN Meet(r, "registered") /\ UNCHANGED <<job, born, request>>
       ELSE IF Exists(TargetOf[r])
       THEN \E c \in Jobs : job[c].status = "unused" /\ Replace(r, c)
       ELSE Refuse(r) /\ UNCHANGED <<job, born, request>>
    /\ UNCHANGED <<object, pipeline, worker>>

\* create_reprocess_job, in one transaction that locks the parent's row.
Register(r) ==
    /\ handler[r].at = "fetched"
    /\ IF request[TargetOf[r]] # Absent
       THEN Meet(r, "registered") /\ UNCHANGED <<job, born, request>>
       ELSE IF Exists(TargetOf[r]) /\ job[TargetOf[r]].named
       THEN \E c \in Jobs : job[c].status = "unused" /\ Replace(r, c)
       ELSE Refuse(r) /\ UNCHANGED <<job, born, request>>
    /\ UNCHANGED <<object, pipeline, worker>>

Upload(r) ==
    /\ handler[r].at = "registered"
    /\ object' = [object EXCEPT ![handler[r].child] = "document"]
    /\ Goto(r, "uploaded", handler[r].child)
    /\ UNCHANGED <<job, born, request, pipeline, worker>>

Store(r) ==
    /\ handler[r].at = "uploaded"
    /\ Stored(handler[r].child)
    /\ Goto(r, "answered", handler[r].child)
    /\ UNCHANGED <<object, born, request, pipeline, worker>>

\* An upload or an update that fails is left to the reconciler: 202 all the same.
Defer(r) ==
    /\ handler[r].at \in {"registered", "uploaded"}
    /\ Goto(r, "answered", handler[r].child)
    /\ UNCHANGED <<registry, pipeline, worker>>

HandlerDies(r) ==
    /\ handler[r].at \in {"checking", "fetched", "registered", "uploaded"}
    /\ Refuse(r)
    /\ UNCHANGED <<registry, pipeline, worker>>

-----------------------------------------------------------------------------
(* A reconciler: the interrupted uploads, then the requests *)

At(k, w) == worker' = [worker EXCEPT ![k] = w]

\* list_incomplete_uploads.
List(k) ==
    /\ worker[k].at = "idle"
    /\ At(k, [Resting EXCEPT !.at = "passing", !.left = {j \in Jobs : Received(j)}])
    /\ UNCHANGED <<registry, pipeline, handler>>

\* The oldest of those listed.
Current(k) ==
    LET left == worker[k].left
    IN  born[CHOOSE i \in DOMAIN born : born[i] \in left /\ \A h \in 1 .. i - 1 : born[h] \notin left]

Uploads(k) == worker[k].at = "passing" /\ worker[k].left # {}
Advance(k) == At(k, [worker[k] EXCEPT !.left = @ \ {Current(k)}])

\* persist_reprocess_artifact: verified bytes are copied.
Copy(k) ==
    /\ Uploads(k)
    /\ object[Current(k)] = "none"
    /\ object[job[Current(k)].source] = "document"
    /\ object' = [object EXCEPT ![Current(k)] = "document"]
    /\ UNCHANGED <<job, born, request, worker, pipeline, handler>>

\* REPROCESS_SOURCE_INVALID, RAW_ARTIFACT_CORRUPT.
Reject(k) ==
    /\ Uploads(k)
    /\ \/ object[Current(k)] = "other"
       \/ object[Current(k)] = "none" /\ object[job[Current(k)].source] = "other"
    /\ Failed(Current(k))
    /\ Advance(k)
    /\ UNCHANGED <<object, born, request, pipeline, handler>>

Recover(k) ==
    /\ Uploads(k)
    /\ object[Current(k)] = "document"
    /\ Stored(Current(k))
    /\ Advance(k)
    /\ UNCHANGED <<object, born, request, pipeline, handler>>

\* Any other error ends the uploads of this pass, that of a source that does not
\* exist included.
GiveUp(k) ==
    /\ Uploads(k)
    /\ At(k, [worker[k] EXCEPT !.left = {}])
    /\ UNCHANGED <<registry, pipeline, handler>>

\* Mutant: the status is the outcome of the workflow.
VerdictIsOutcome(p) ==
    LET c == request[p].child
    IN  IF job[c].status = "FAILED" THEN "needs_attention"
        ELSE IF job[c].status = "QUEUED" /\ run[c] \in Ended THEN run[c] ELSE None

\* Mutant: whatever workflow returned has resolved the exception.
VerdictOnReturn(p) ==
    LET c == request[p].child
    IN  IF job[c].status = "FAILED" THEN "needs_attention"
        ELSE IF job[c].status = "QUEUED" /\ run[c] \in Ended
        THEN IF run[c] # "failed" THEN "resolved" ELSE "needs_attention"
        ELSE None

\* reconcile_reprocess_result; a job has a workflow_id once it is QUEUED.
Verdict(p) ==
    LET c == request[p].child
    IN  IF job[c].status = "FAILED" THEN "needs_attention"
        ELSE IF job[c].status = "QUEUED" /\ run[c] \in Ended
        THEN IF run[c] = "delivered" THEN "resolved" ELSE "needs_attention"
        ELSE None

\* Mutant: replacements that failed are not looked at.
JudgeDispatched(k, p) ==
    /\ worker[k].at = "passing" /\ worker[k].left = {}
    /\ request[p].status = "dispatched"
    /\ Verdict(p) # None
    /\ At(k, [Resting EXCEPT !.at = "writing", !.parent = p, !.verdict = Verdict(p)])
    /\ UNCHANGED <<registry, pipeline, handler>>

\* list_reprocess_inflight and what is asked of Temporal about one of them.
Judge(k, p) ==
    /\ worker[k].at = "passing" /\ worker[k].left = {}
    /\ Active(p)
    /\ Verdict(p) # None
    /\ At(k, [Resting EXCEPT !.at = "writing", !.parent = p, !.verdict = Verdict(p)])
    /\ UNCHANGED <<registry, pipeline, handler>>

\* set_reprocess_status.
Settle(k) ==
    /\ worker[k].at = "writing"
    /\ request' = IF Active(worker[k].parent)
                  THEN [request EXCEPT ![worker[k].parent].status = worker[k].verdict] ELSE request
    /\ At(k, [Resting EXCEPT !.at = "passing"])
    /\ UNCHANGED <<job, object, born, pipeline, handler>>

\* The pass is over, or the process is.
Rest(k) ==
    /\ worker[k].at # "idle"
    /\ At(k, Resting)
    /\ UNCHANGED <<registry, pipeline, handler>>

-----------------------------------------------------------------------------
(* Around them *)

\* start_workflow, by whoever has claimed the dispatch.
Start(j) ==
    /\ job[j].status = "STORED" /\ run[j] = "none"
    /\ run' = [run EXCEPT ![j] = "running"]
    /\ UNCHANGED <<registry, operation, service>>

\* mark_queued.
MarkQueued(j) ==
    /\ job[j].status = "STORED" /\ run[j] # "none"
    /\ job' = [job EXCEPT ![j].status = "QUEUED"]
    /\ request' = [p \in Jobs |-> IF request[p].child = j /\ request[p].status = "requested"
                                  THEN [request[p] EXCEPT !.status = "dispatched"] ELSE request[p]]
    /\ UNCHANGED <<object, born, pipeline, service>>

\* The workflow hands its document to the delivery service, or ends without.
Submit(j) ==
    /\ run[j] = "running"
    /\ run' = [run EXCEPT ![j] = "delivering"]
    /\ operation' = [operation EXCEPT ![j] = "pending"]
    /\ UNCHANGED <<registry, service>>

\* By its outcome, or by a deadline that leaves the delivery as it is.
EndRun(j) ==
    /\ run[j] \in {"running", "delivering"}
    /\ \/ run[j] = "running" /\ run' = [run EXCEPT ![j] = "ocr_exception"]
       \/ run' = [run EXCEPT ![j] = "failed"]
       \/ operation[j] = "acknowledged" /\ run' = [run EXCEPT ![j] = "delivered"]
    /\ UNCHANGED <<registry, operation, service>>

\* DeliveryPromise: acknowledged, given up, redriven.
Deliver(j) ==
    /\ \/ operation[j] = "pending" /\ \E s \in {"acknowledged", "dead_letter"} :
            operation' = [operation EXCEPT ![j] = s]
       \/ operation[j] = "dead_letter" /\ operation' = [operation EXCEPT ![j] = "pending"]
    /\ UNCHANGED <<registry, run, service>>

-----------------------------------------------------------------------------
\* The steps that read or write the database, and those that do not.
DatabaseStep ==
    \/ \E r \in Requests : Look(r) \/ Register(r) \/ Store(r)
    \/ \E k \in Reconcilers : \/ List(k) \/ Reject(k) \/ Recover(k) \/ Settle(k)
                              \/ \E p \in Jobs : Judge(k, p)
    \/ \E j \in Jobs : MarkQueued(j) \/ Submit(j) \/ Deliver(j)

OtherStep ==
    \/ \E r \in Requests : Fetch(r) \/ Upload(r) \/ Defer(r) \/ HandlerDies(r)
    \/ \E k \in Reconcilers : Copy(k) \/ GiveUp(k) \/ Rest(k)
    \/ \E j \in Jobs : Start(j) \/ EndRun(j)
=============================================================================
