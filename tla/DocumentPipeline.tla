-------------------------- MODULE DocumentPipeline --------------------------
(***************************************************************************)
(* DocumentPipelineWorkflow: the Temporal workflow that takes one document  *)
(* from its raw artifact to delivery, together with what it talks to: the   *)
(* reviewers, who decide once and at any time; the delivery ledger, by what *)
(* it promises (DeliveryPromise); and time.                                 *)
(*                                                                         *)
(* Temporal runs an activity up to three times, may lose its answer, and a  *)
(* request of an attempt that was given up may still arrive.  So a request  *)
(* once sent may arrive at any later time or never, and an activity ends    *)
(* with the answer or with the failure of its last attempt.  The workflow   *)
(* itself is replayed from its history and survives its worker.             *)
(*                                                                         *)
(* The stage services are seen by what the workflow tells apart in their    *)
(* answers: good, of the wrong shape, or a failure, of OCR or another.      *)
(***************************************************************************)
EXTENDS Naturals, FiniteSets

CONSTANT PageCount  \* pages of the document

ASSUME PipelineAssumption == PageCount \in Nat \ {0}

VARIABLES
    markers,    \* the patches recorded in the history: all in a new one
    at,         \* the activity the workflow waits for, or the loop it is in
    page,       \* self._current_page, 0 for None
    read,       \* the pages with OCR
    laid,       \* the pages with layout
    valid,      \* the verdicts of validation and of revalidation
    shown,      \* self._business_status
    outcome,    \* final_status
    cause,      \* the failure that ended the run
    known,      \* `result` holds a delivery_id
    expired,    \* the deadline of the loop it is in has passed
    sent,       \* requests whose effect the properties are about
    events,     \* webhook events requested
    task,       \* the review task exists
    decision,   \* the decision on it
    exception,  \* the OCR exceptions recorded, each by its page, 0 for none
    status, envelope, received  \* the delivery ledger: see DeliveryPromise

run     == <<markers, at, page, read, laid, valid, shown, outcome, cause, known, expired>>
history == <<sent, events>>
console == <<task, decision, exception>>
ledger  == <<status, envelope, received>>
vars    == <<markers, at, page, read, laid, valid, shown, outcome, cause, known, expired,
             sent, events, task, decision, exception, status, envelope, received>>

Pages   == 1 .. PageCount
Patches == {"independent-pages-v1", "durable-delivery-v1", "durable-ocr-exception-v1"}

Paged          == "independent-pages-v1" \in markers
DurableWait    == "durable-delivery-v1" \in markers
RecordsFailure == "durable-ocr-exception-v1" \in markers

\* The one operation of the job, under the fields as extracted or corrected.
Job    == "job"
Fields == {"extracted", "corrected"}

Ledger == INSTANCE DeliveryPromise WITH
    Ops <- {Job}, Requests <- Fields, Destinations <- {"object_storage"},
    Receipt <- "receipt", NoRequest <- "none",
    OpOf <- [f \in Fields |-> Job], DestsOf <- [f \in Fields |-> {"object_storage"}]

-----------------------------------------------------------------------------
(* Types *)

Stages    == {"preprocess", "ocr", "layout", "aggregate", "classify", "extract", "validate",
              "open_review", "polling", "revalidate"}
Delivery  == {"delivery", "submitting", "asking"}
Endings   == {"announce", "announce_failure", "record", "evaluate", "stuck", "closed"}
Withheld  == {"rejected", "review_validation_failed", "review_timed_out"}
Outcomes  == Withheld \cup {"delivered", "delivery_timed_out", "ocr_exception", "failed"}
Waits     == {"pending_human_review", "pending_delivery", "delivery_exception"}

EventOf(o) == IF o = "delivered" THEN "document.completed" ELSE o

\* Type invariant.
TypeOK ==
    /\ markers \subseteq Patches
    /\ at \in Stages \cup {"review"} \cup Delivery \cup Endings
    /\ page \in 0 .. PageCount
    /\ read \subseteq Pages
    /\ laid \subseteq Pages
    /\ valid \in [first : {"none", "passed", "needs_review"}, again : {"none", "passed", "needs_review"}]
    /\ shown \in {"processing"} \cup Waits \cup Outcomes
    /\ outcome \in Outcomes
    /\ cause \in {"none", "typed", "network", "malformed", "other"}
    /\ known \in BOOLEAN
    /\ expired \in BOOLEAN
    /\ sent \subseteq Fields \cup {"task", "exception"}
    /\ events \subseteq {"document.completed"} \cup Outcomes
    /\ task \in BOOLEAN
    /\ decision \in {"none", "approved", "rejected"}
    /\ exception \subseteq 0 .. PageCount
    /\ status \in [{Job} -> {"absent", "pending", "dead_letter", "success"}]
    /\ envelope \in [{Job} -> Fields \cup {"none"}]
    /\ received \in [{Job} -> SUBSET {"object_storage", "receipt"}]

-----------------------------------------------------------------------------
Init ==
    /\ markers \in SUBSET Patches
    /\ at = "preprocess"
    /\ page = 0
    /\ read = {}
    /\ laid = {}
    /\ valid = [first |-> "none", again |-> "none"]
    /\ shown = "processing"
    /\ outcome = "failed"
    /\ cause = "none"
    /\ known = FALSE
    /\ expired = FALSE
    /\ sent = {}
    /\ events = {}
    /\ task = FALSE
    /\ decision = "none"
    /\ exception = {}
    /\ Ledger!Init

\* The run goes on at a, and nothing else of it changes.
GoTo(a) ==
    /\ at' = a
    /\ UNCHANGED <<markers, page, read, laid, valid, shown, outcome, cause, known, expired>>

-----------------------------------------------------------------------------
(* How a run ends *)

\* A final status is shown and announced.
Finish(o) ==
    /\ at' = "announce"
    /\ outcome' = o
    /\ shown' = o
    /\ events' = events \cup {EventOf(o)}
    /\ UNCHANGED <<sent, markers, page, read, laid, valid, cause, known, expired>>

\* A contract error or the failure of an activity: document.failed.
Fail(c) ==
    /\ at' = "announce_failure"
    /\ cause' = c
    /\ events' = events \cup {"failed"}
    /\ UNCHANGED <<sent, markers, page, read, laid, valid, shown, outcome, known, expired>>

\* The failure has an OCR_ type: the page activities do not give a network
\* error or an untyped 5xx the type OCR_UNAVAILABLE.
IsOcrFailure(c) == c = "typed" \/ (c = "network" /\ ~ Paged)

\* The exception is to be recorded, and no event is sent.
RecordException(c) ==
    /\ at' = "record"
    /\ cause' = c
    /\ sent' = sent \cup {"exception"}
    /\ UNCHANGED <<events, markers, page, read, laid, valid, shown, outcome, known, expired>>

\* Mutant: a completion webhook that fails is the failure of the run.
AnnouncedOrFailed ==
    /\ \/ at \in {"announce", "announce_failure"} /\ GoTo("evaluate") /\ UNCHANGED history
       \/ at = "announce" /\ Fail("other")
    /\ UNCHANGED <<console, ledger>>

\* Webhook and evaluation are best effort.
Announced ==
    /\ at \in {"announce", "announce_failure"}
    /\ GoTo("evaluate")
    /\ UNCHANGED <<history, console, ledger>>

\* Mutant: the run reports the exception whether or not it is recorded.
RecordedUnchecked ==
    /\ at = "record"
    /\ outcome' = "ocr_exception"
    /\ shown' = "ocr_exception"
    /\ at' = "evaluate"
    /\ UNCHANGED <<markers, page, read, laid, valid, cause, known, expired, history, console, ledger>>

Recorded ==
    /\ at = "record"
    /\ exception # {}
    /\ outcome' = "ocr_exception"
    /\ shown' = "ocr_exception"
    /\ at' = "evaluate"
    /\ UNCHANGED <<markers, page, read, laid, valid, cause, known, expired, history, console, ledger>>

RecordFails ==
    /\ at = "record"
    /\ GoTo("evaluate")
    /\ UNCHANGED <<history, console, ledger>>

\* A KeyError is not a Temporal failure: it fails the workflow task, again and
\* again, until the execution times out.
Evaluate ==
    /\ at = "evaluate"
    /\ GoTo(IF cause = "malformed" THEN "stuck" ELSE "closed")
    /\ UNCHANGED <<history, console, ledger>>

ExecutionTimeout ==
    /\ at = "stuck"
    /\ GoTo("closed")
    /\ UNCHANGED <<history, console, ledger>>

-----------------------------------------------------------------------------
(* From the raw artifact to a verdict *)

Preprocess ==
    /\ at = "preprocess"
    /\ at' = "ocr"
    /\ page' = IF Paged THEN 1 ELSE 0
    /\ UNCHANGED <<markers, read, laid, valid, shown, outcome, cause, known, expired,
                   history, console, ledger>>

\* Of the current page, or of the document at once.
Current == IF Paged THEN {page} ELSE Pages

Ocr ==
    /\ at = "ocr"
    /\ at' = "layout"
    /\ read' = read \cup Current
    /\ UNCHANGED <<markers, page, laid, valid, shown, outcome, cause, known, expired,
                   history, console, ledger>>

\* Mutant: the page is counted once more after the last.
LayoutOverruns ==
    /\ at = "layout"
    /\ laid' = laid \cup Current
    /\ at' = IF ~ Paged THEN "classify" ELSE IF page = PageCount THEN "aggregate" ELSE "ocr"
    /\ page' = IF Paged THEN page + 1 ELSE page
    /\ UNCHANGED <<markers, read, valid, shown, outcome, cause, known, expired,
                   history, console, ledger>>

Layout ==
    /\ at = "layout"
    /\ laid' = laid \cup Current
    /\ at' = IF ~ Paged THEN "classify" ELSE IF page = PageCount THEN "aggregate" ELSE "ocr"
    /\ page' = IF Paged /\ page < PageCount THEN page + 1 ELSE page
    /\ UNCHANGED <<markers, read, valid, shown, outcome, cause, known, expired,
                   history, console, ledger>>

\* The document is rebuilt from a result for every page.
Aggregate ==
    /\ at = "aggregate"
    /\ read = Pages /\ laid = Pages
    /\ GoTo("classify")
    /\ UNCHANGED <<history, console, ledger>>

Classify == at = "classify" /\ GoTo("extract") /\ UNCHANGED <<history, console, ledger>>
Extract  == at = "extract" /\ GoTo("validate") /\ UNCHANGED <<history, console, ledger>>

\* _deliver_until_acknowledged is entered: an old history submits at once.
StartDelivery(fields) ==
    /\ expired' = FALSE
    /\ known' = FALSE
    /\ at' = IF DurableWait THEN "delivery" ELSE "submitting"
    /\ sent' = IF DurableWait THEN sent ELSE sent \cup {fields}

Validate ==
    /\ at = "validate"
    /\ \/ /\ valid' = [valid EXCEPT !.first = "passed"]
          /\ StartDelivery("extracted")
       \/ /\ valid' = [valid EXCEPT !.first = "needs_review"]
          /\ at' = "open_review"
          /\ sent' = sent \cup {"task"}
          /\ UNCHANGED <<known, expired>>
    /\ UNCHANGED <<markers, page, read, laid, shown, outcome, cause, events, console, ledger>>

\* The last attempt of a stage fails, or its answer has the wrong shape.
StageFails ==
    /\ at \in Stages
    /\ \/ Fail("other")
       \/ at = "ocr" /\ \E c \in {"typed", "network"} :
            IF RecordsFailure /\ IsOcrFailure(c) THEN RecordException(c) ELSE Fail(c)
       \/ at = "ocr" /\ Paged /\ Fail("malformed")
    /\ UNCHANGED <<console, ledger>>

\* The answer names no review task, which is seen after the status is shown.
ReviewUnnamed ==
    /\ at = "open_review"
    /\ at' = "announce_failure"
    /\ shown' = "pending_human_review"
    /\ cause' = "malformed"
    /\ events' = events \cup {"failed"}
    /\ UNCHANGED <<sent, markers, page, read, laid, valid, outcome, known, expired, console, ledger>>

-----------------------------------------------------------------------------
(* The review *)

ReviewOpened ==
    /\ at = "open_review"
    /\ task
    /\ at' = "review"
    /\ shown' = "pending_human_review"
    /\ expired' = FALSE
    /\ UNCHANGED <<markers, page, read, laid, valid, outcome, cause, known, history, console, ledger>>

\* Mutant: the deadline does not end the loop.
PollReviewForever ==
    /\ at = "review"
    /\ GoTo("polling")
    /\ UNCHANGED <<history, console, ledger>>

PollReview ==
    /\ at = "review"
    /\ ~ expired
    /\ GoTo("polling")
    /\ UNCHANGED <<history, console, ledger>>

\* No decision yet, or the console cannot tell.
ReviewPending ==
    /\ at = "polling"
    /\ GoTo("review")
    /\ UNCHANGED <<history, console, ledger>>

\* Mutant: the loop goes on after a rejection.
ReviewDecidedNoBreak ==
    /\ at = "polling"
    /\ \/ /\ decision = "rejected"
          /\ at' = "review"
          /\ shown' = "rejected"
          /\ outcome' = "rejected"
          /\ UNCHANGED <<markers, page, read, laid, valid, cause, known, expired, history>>
       \/ decision = "approved" /\ GoTo("revalidate") /\ UNCHANGED history
    /\ UNCHANGED <<console, ledger>>

ReviewDecided ==
    /\ at = "polling"
    /\ \/ decision = "rejected" /\ Finish("rejected")
       \/ decision = "approved" /\ GoTo("revalidate") /\ UNCHANGED history
    /\ UNCHANGED <<console, ledger>>

ReviewTimesOut ==
    /\ at = "review"
    /\ expired
    /\ Finish("review_timed_out")
    /\ UNCHANGED <<console, ledger>>

\* The corrected fields are validated again.
Revalidate ==
    /\ at = "revalidate"
    /\ \/ /\ valid' = [valid EXCEPT !.again = "passed"]
          /\ StartDelivery("corrected")
          /\ UNCHANGED <<shown, outcome, events>>
       \/ /\ valid' = [valid EXCEPT !.again = "needs_review"]
          /\ at' = "announce"
          /\ outcome' = "review_validation_failed"
          /\ shown' = "review_validation_failed"
          /\ events' = events \cup {"review_validation_failed"}
          /\ UNCHANGED <<sent, known, expired>>
    /\ UNCHANGED <<markers, page, read, laid, cause, console, ledger>>

-----------------------------------------------------------------------------
(* _deliver_until_acknowledged *)

\* Mutant: the corrections of the reviewer are not what is delivered.
DeliveredUncorrected == "extracted"

Delivered == IF valid.again = "passed" THEN "corrected" ELSE "extracted"

DeliveryTimesOut ==
    /\ at = "delivery"
    /\ expired
    /\ Finish("delivery_timed_out")
    /\ UNCHANGED <<console, ledger>>

Submit ==
    /\ at = "delivery"
    /\ ~ expired
    /\ ~ known
    /\ GoTo("submitting")
    /\ sent' = sent \cup {Delivered}
    /\ UNCHANGED <<events, console, ledger>>

PollDelivery ==
    /\ at = "delivery"
    /\ ~ expired
    /\ known
    /\ GoTo("asking")
    /\ UNCHANGED <<history, console, ledger>>

\* Wait for another turn of the loop.
WaitDelivery(s, k) ==
    /\ at' = "delivery"
    /\ shown' = s
    /\ known' = k
    /\ UNCHANGED <<markers, page, read, laid, valid, outcome, cause, expired, history>>

\* Mutant: an accepted submission is a delivery.
AnsweredOptimist ==
    /\ at \in {"submitting", "asking"}
    /\ status[Job] # "absent"
    /\ Finish("delivered")
    /\ UNCHANGED <<console, ledger>>

\* The submission or the poll is answered with the state of the operation.
Answered ==
    /\ at \in {"submitting", "asking"}
    /\ status[Job] # "absent"
    /\ IF status[Job] = "success" THEN Finish("delivered")
       ELSE IF ~ DurableWait THEN Finish("delivery_timed_out")
       ELSE WaitDelivery(IF status[Job] = "dead_letter" THEN "delivery_exception"
                         ELSE "pending_delivery", TRUE)
    /\ UNCHANGED <<console, ledger>>

\* The service cannot be reached: a poll counts as pending and keeps its
\* delivery_id; a submission, or a poll whose attempts fail, starts over.
Unanswered ==
    /\ at \in {"submitting", "asking"}
    /\ \/ DurableWait /\ WaitDelivery("pending_delivery", FALSE)
       \/ at = "asking" /\ WaitDelivery("pending_delivery", TRUE)
       \/ ~ DurableWait /\ Fail("other")
    /\ UNCHANGED <<console, ledger>>

\* 4xx, an answer that is not JSON, a receipt of another job.
DeliveryRefused ==
    /\ at \in {"submitting", "asking"}
    /\ Fail("other")
    /\ UNCHANGED <<console, ledger>>

-----------------------------------------------------------------------------
(* What the workflow does not control *)

Expire ==
    /\ at \in {"review", "polling"} \cup Delivery
    /\ ~ expired
    /\ expired' = TRUE
    /\ UNCHANGED <<markers, at, page, read, laid, valid, shown, outcome, cause, known,
                   history, console, ledger>>

LandTask ==
    /\ "task" \in sent
    /\ task' = TRUE
    /\ UNCHANGED <<run, history, decision, exception, ledger>>

\* The first exception of the job is kept.
LandException ==
    /\ "exception" \in sent
    /\ exception = {}
    /\ exception' = {page}
    /\ UNCHANGED <<run, history, task, decision, ledger>>

LandDelivery ==
    /\ \E f \in sent \cap Fields : Ledger!Accept(f)
    /\ UNCHANGED <<run, history, console>>

\* The first decision stands, also when it comes after the deadline.
Decide ==
    /\ task
    /\ decision = "none"
    /\ \E d \in {"approved", "rejected"} : decision' = d
    /\ UNCHANGED <<run, history, task, exception, ledger>>

\* The ledger delivers, retries, gives up, is redriven.
LedgerStep ==
    /\ \/ \E d \in {"object_storage", "receipt"} : Ledger!Receive(Job, d)
       \/ Ledger!Succeed(Job) \/ Ledger!GiveUp(Job) \/ Ledger!Redrive(Job)
    /\ UNCHANGED <<run, history, console>>

-----------------------------------------------------------------------------
WorkflowStep ==
    \/ Preprocess \/ Ocr \/ Layout \/ Aggregate \/ Classify \/ Extract \/ Validate \/ StageFails \/ ReviewUnnamed
    \/ ReviewOpened \/ PollReview \/ ReviewPending \/ ReviewDecided \/ ReviewTimesOut \/ Revalidate
    \/ DeliveryTimesOut \/ Submit \/ PollDelivery \/ Answered \/ Unanswered \/ DeliveryRefused
    \/ Announced \/ Recorded \/ RecordFails \/ Evaluate

Next ==
    \/ WorkflowStep \/ ExecutionTimeout \/ Expire
    \/ LandTask \/ LandException \/ LandDelivery \/ Decide \/ LedgerStep

Spec == Init /\ [][Next]_vars

\* Temporal ends every activity, by its answer or by its timeout, and runs the
\* workflow on; deadlines pass.  Nothing is expected of reviewers, of the ledger
\* or of requests under way.
FairSpec == Spec /\ WF_vars(WorkflowStep) /\ WF_vars(Expire) /\ WF_vars(ExecutionTimeout)

-----------------------------------------------------------------------------
(* Safety *)

\* Nothing reaches the delivery ledger that was not approved: the extracted
\* fields only if validation let them pass, the corrected ones only if the
\* reviewer approved them and validation let them pass again; never both; and
\* nothing ever, however late a request arrives, of a document that was rejected,
\* failed its corrections, timed out in review or ended as an OCR exception.
NoUnapprovedDelivery ==
    /\ envelope[Job] = "extracted" => valid.first = "passed"
    /\ envelope[Job] = "corrected" =>
         valid.first = "needs_review" /\ decision = "approved" /\ valid.again = "passed"
    /\ envelope[Job] # "none" => sent \cap Fields = {envelope[Job]}
    /\ outcome \in Withheld \cup {"ocr_exception"} => sent \cap Fields = {}

\* "Delivered" is never false: neither the result nor the completion event
\* precedes the ledger's success, and a wait is timed out only by its deadline.
HonestOutcome ==
    /\ outcome = "delivered" => status[Job] = "success"
    /\ "document.completed" \in events => status[Job] = "success"
    /\ outcome = "review_timed_out" => expired
    /\ (outcome = "delivery_timed_out" /\ DurableWait) => expired

\* A run ends as an OCR exception only when the exception is recorded, with the
\* page that failed: all pages before it were read and laid out, it was not.
ExceptionIsDurable ==
    /\ outcome = "ocr_exception" => exception # {}
    /\ \A p \in exception :
         /\ read = 1 .. (p - 1) /\ laid = read
         /\ p > 0 <=> Paged

\* A run announces at most one outcome, the one it ends with: a reader is never
\* told that a document failed whose run then completes, or the reverse.
OneAnnouncement ==
    /\ Cardinality(events) <= 1
    /\ at = "closed" /\ outcome \notin {"failed", "ocr_exception"} => events = {EventOf(outcome)}
    /\ at = "closed" /\ outcome \in {"failed", "ocr_exception"} => events \subseteq {"failed"}

-----------------------------------------------------------------------------
(* Action properties *)

Rank(s) == IF s = "processing" THEN 0
           ELSE IF s = "pending_human_review" THEN 1
           ELSE IF s \in {"pending_delivery", "delivery_exception"} THEN 2
           ELSE 3

\* What GET /documents shows of a running workflow never goes back, and a final
\* status is the last.
StatusMovesForward ==
    [][ Rank(shown) <= Rank(shown') /\ (Rank(shown) = 3 => shown' = shown /\ outcome' = outcome) ]_vars

-----------------------------------------------------------------------------
(* Liveness *)

\* Every run ends, whatever reviewers, services and the ledger do.
Closes == <>(at = "closed")

-----------------------------------------------------------------------------
(* What the documentation says of failures of OCR:                          *)
(* workflow_orchestrator/README.md:267-271.                                 *)

\* An OCR request that exhausts its attempts on network or server errors is
\* recorded as an OCR exception.
OcrFailureIsRecorded ==
    (RecordsFailure /\ cause = "network") => "exception" \in sent
=============================================================================
