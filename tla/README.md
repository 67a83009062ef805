# Verification of the intelligent document processing platform

This directory keeps TLA+ models of the platform beside its code: modules,
configurations that check them with TLC on small instances, and theorems that
TLAPS proves for every value of the constants. `PROJECT.json` lists components,
runs, mutants, the source lines every definition stands for, the hazards the
properties are aimed at, and the findings.

## The system

A document is submitted over HTTP, registered and stored, processed by a Temporal
workflow that calls one service per stage, reviewed by a person when validation
asks for it, and delivered to configured destinations.

| component | state it keeps | operations |
|---|---|---|
| ingestion service (`ingestion_service/`) | Postgres: `ingestion_jobs`, `ingestion_idempotency_requests`, `ingestion_dispatch_outbox`, audit; the raw bucket | `POST /documents`; a reconciler per replica that recovers or fails interrupted uploads and dispatches due outbox rows; status and result reads; reprocessing of OCR exceptions |
| pipeline workflow (`workflow_orchestrator/`) | the Temporal history; two queries on it (`business_status`, `review_snapshot`) | the stages, page by page for OCR and layout; the wait for a review; the wait for delivery; the webhook and the evaluation at the end |
| review console (`human_review_console/`) | Postgres: `review_decisions` (also the OCR exceptions); review records in the object store; Label Studio tasks | create a task, record a decision, poll it or take it from Label Studio, record and list OCR exceptions |
| delivery service (`delivery_service/`) | Postgres: `delivery_operations`, `delivery_work`, `delivery_attempts`, audit; receipts in the object store | `POST /deliver`, `POST /webhooks/events`, the reconciler, the reads, the operator's redrive |
| stage services (preprocess, OCR, layout, classifier, extraction, validation) | artifacts in the object store; slot counters, the OCR engine and the layout model in memory | one request each, on a pool thread, bounded by slots and timeouts |
| evaluation service | receipts in the object store; MLflow | `track-run` |
| retention (`scripts/enforce_retention.py`) | none of its own | delete expired artifacts and rows that nothing holds |
| shared library, Python client, scripts, infrastructure | settings | storage, key scheme, credentials |

They interact by HTTP between the workflow's activities and the services, by the
tables (the outbox between intake and workflow, the decision table between
console and workflow), by the object store, and by polling: the workflow polls
the console and the delivery service, the reconcilers poll their tables.

What is hard in it:

- *No transaction spans two systems.* A row and an object, a row and a Temporal
  start, a row and a call to a destination are changed one after the other; a
  process may die between them, and a timed-out call may still arrive.
- *Leases.* Work is leased for a bounded time to reconcilers and request handlers
  alike; a holder that outlives its lease still reports.
- *Keys.* Idempotency keys, content hashes and operation identities must mean one
  thing under races, retries and late failures.
- *Waits of days*, ended by a person, a ledger or a deadline, whichever is first,
  over a history that may be older than the code that replays it.
- *Endings.* Every run ends once, says so once, and says what is true.

What makes each part correct is, in a line: *delivery* - every accepted operation
reaches each destination under its one envelope, is acknowledged exactly once, is
never lost and never receipted early; *intake* - one live job per content, one
job per key, and a workflow only for a recorded artifact, once, and nothing
registered is forgotten; *pipeline* - only what was approved is delivered, the
outcome announced is the true one, and every run ends; *review* - one decision
stands and is the one the workflow sees; *reprocessing* - one child per
exception, whose end is recorded; *retention* - nothing that is still needed is
deleted, by an enforcement that dies half-way either; *stages* - a slot is held
exactly as long as its thread runs, and what is approved without a person was
earned; *evaluation* - it never changes how a run ends, and what it finds again is
whole.

## The modules

| module | what it is |
|---|---|
| `DeliveryPromise` | what the delivery service promises, without leases, attempts or workers |
| `DeliveryLedger` | the ledger, requests, reconcilers, redrives, the network; implements `DeliveryPromise` |
| `DeliveryLedgerProofs`, `DeliveryPromiseProofs` | theorems of `DeliveryLedger`; the second those about time, history and the promise |
| `IntakePromise` | what the intake promises for a key and a job |
| `Ingestion` | submissions, tables, raw bucket, outbox, reconcilers, workflow starts; implements `IntakePromise` |
| `IngestionProofs` | theorems of `Ingestion` |
| `DocumentPipeline` | the workflow with reviewers, deadlines and the delivery ledger, the last by its promise (`Ledger == INSTANCE DeliveryPromise`) |
| `DocumentPipelineProofs` | theorems of `DocumentPipeline` |
| `Evaluation` | the evaluation service for one request and its retries |
| `EvaluatedPipeline`, `EvaluatedPipelineProofs` | `DocumentPipeline` composed with `Evaluation`; it implements `DocumentPipeline`, and what the evaluation finds is so |
| `ReviewPromise` | what the console promises of a decision |
| `ReviewConsole`, `ReviewConsoleProofs` | creation of tasks, Label Studio, polls, manual decisions; implements `ReviewPromise` |
| `Reprocessing` | the reprocessing of OCR exceptions: endpoint, copies, reconcilers, settlement |
| `Retention`, `RetentionProofs` | an enforcement of retention composed with `Reprocessing`; theorems of both |
| `StageRules` | what the stages compute from a document: admission, OCR, layout, route, fields, verdict |
| `StageServices`, `StageServicesProofs` | one document through the services, with slots, threads, timeouts, retries and artifacts |
| `MC...` | instances for TLC |

Definitions marked "Mutant" in the comment above them are variants that a plausible
bug would make of the definition after them; no specification uses them.

### DeliveryLedger

`oper`, `work` and `attempts` are the three tables. Each executor (the handler of
a request, or a reconciler) has a `phase` and the lease it `held`; `client` and
`turns` are where the handler of a request is (`_submit`: look up, check the
legacy receipt, register, up to so many rounds of work, answer). Every database
transaction is one action. A row's lease is a `token` (the number of the attempt
it was drawn for) with `live` for `lease_until > NOW()`; `ComesDue` and
`LeaseExpires` are the passing of time. A call to a destination is sent onto
`wire` and lands at any later time or never; an acknowledgement requires that it
landed. `Claim` supersedes the attempt of an expired lease; `Exhaust` dead-letters
a row whose budget is spent; `Report` fences acknowledgements and failures by
token and expiry. `AcknowledgeError` is the acknowledgement whose commit is lost
or whose answer is. `CrashReconciler`/`CrashRequest` end an executor anywhere.

### Ingestion

`status`, `made`, `age`, `keyed` and `outbox` are the tables, `object` the raw
bucket, `runs` what Temporal executed. `client[s]` is where the handler of a
submission is: the key looked up, a recent job found by an unlocked read, the key
bound to it, a job created under the content's advisory lock, the upload, the
artifact recorded with its outbox row, the lease, the start of the workflow, the
commit. The reconciler (`check`, `phase`, `held`) lists a `RECEIVED` job, looks at
its object, verifies it, recovers or fails it; and claims due outbox rows. Uploads
and starts are on the wire (`puts`, `starts`) and may land after their caller gave
up. A partial object is `corrupt`. A job's id is the submission that created it,
which is what a fresh UUID amounts to.

### DocumentPipeline, Evaluation, EvaluatedPipeline

`at` is the activity or loop the workflow waits in; `markers` are the patches its
history recorded, chosen in `Init` in every combination, which covers runs begun
before each patch. An activity ends with the answer of its last attempt or its
failure; a request that was ever sent is in `sent` and may land at any later time
(`LandTask`, `LandException`, `LandDelivery`), also after the workflow ended. The
reviewer decides once the task exists, also after the deadline. `shown` is the
answer of the `business_status` query, `outcome` is `final_status`, `events` are
the webhook events requested. `stuck` is the workflow task that fails again and
again on a `KeyError`, until Temporal's execution timeout. Fields, confidences and
artifacts are abstracted to what the control flow tells apart: whether validation
passed, and whether the fields delivered are the extracted or the corrected ones.

`Evaluation` is `track-run` as the workflow asks for it, attempt after attempt.
`handler[a]` is where the request is and `thread[a]` where its MLflow thread is,
which goes on when the request times out. `runs` is the bag of the MLflow runs that
carry the evaluation id as a tag (`own` is the one a thread is still at), each by
what it was given; `receipts` is `receipt.json` in either bucket. The answer of an
attempt reaches the workflow only while it waits for it (`heard`, `last`).
`EvaluatedPipeline` lets the workflow leave `evaluate` when the activity has ended.

### ReviewConsole

`creator[c]` is where the handler of one `POST /review/tasks` is: looking for the
record, importing into Label Studio, storing in the review bucket, falling back to
the validation bucket. `inflight` is `_REVIEW_INFLIGHT`, shared with requests of
`others`. `imports` are on the wire and land at any later time as `tasks`; `note`
is the latest completed annotation of each. `record` has both buckets. `caller[x]`
is a poll, an event hint or a manual decision, with what it read, up to the
`INSERT ... ON CONFLICT DO NOTHING` (`Save`). `mirror` is the audit artifact,
which `ReviewPromise` treats as one more who is told.

### Reprocessing and Retention

`job`, `object`, `born` and `request` are the jobs, their raw objects, the
replacements by age and `ingestion_reprocess_requests`; `run` and `operation` are
the workflow and the delivery of each job, seen from outside. `handler[r]` follows
the endpoint from its first look over the download (`Fetch`) to the registration
under the parent's row lock (`Register`), the copy (`Upload`) and its record
(`Store`). `worker[k]` is a reconciler's pass: the interrupted uploads it listed,
which it takes oldest first (`Current`), then the requests it judges (`Judge`) and settles (`Settle`), with
what it had read.

`Retention` adds one enforcement: `Begin` takes the locks and selects, `Delete` and
`DeletePrefix` remove objects, `Commit` forgets objects and jobs, `Abort` is a
death in between, which undoes the transaction and not the deletions (`torn`).
Steps that touch the database wait while it is `Locked`; uploads, copies, the
object store and Temporal do not.

### StageRules and StageServices

`StageRules` has the rules as they are written: weights and thresholds of the five
routes, confidence formulas, schemas, required and formatted fields, hints, the
order in which a verdict is found. Scores are ten-thousandths, to which the services
round them (`Part`, and ties count as rounded up, since binary fractions fall on
either side). The confidence of a reading is a fraction of `Full` and not a
percentage: OCR rounds it to four decimals for a whole document, and the mean over
pages that were read one by one is not rounded (`page_execution.py:70`). A text is
the set of its tokens, `Enough` of which make the 20 characters that a layout's text
must at least have to be used; which patterns a document matches, and which of its fields are ill-formed,
are attributes of the document, as are what each OCR engine reads of it, how
surely, and which boxes are unusable.

In `StageServices` the workflow asks for the `stage` it is in and retries it up to
`MaxTries` times; `calls` are the requests alive, heard or not, each with its
thread (`queued`, `running`) or its handler (`handling`, `storing`). `inflight` are
the slots, `store` the artifacts by their keys, `engine` and `model` what a service
process has in memory. A request whose answer is lost goes on and writes its
artifact later.

## The runs

| run | instance | what it shows |
|---|---|---|
| `DeliveryLeases` | one operation with two conflicting requests, one older than the ledger, a reconciler, two attempts | the two tables agree; one acknowledgement, by a call that arrived; one envelope, and none for the legacy operation; a stale worker changes nothing |
| `DeliveryRedrive` | two destinations and the receipt, a request, a reconciler, one attempt, one redrive, with fairness | attempts stay within budget, history is immutable, `DeliveryPromise` is implemented, every registered operation settles |
| `IngestionKeys` | three submissions, two keys, a reconciler | a key means one job; one live job per content |
| `IngestionDispatch` | one submission, two reconcilers, a fault, with fairness | a workflow once and only behind an artifact; superseded dispatchers are harmless; recovery verifies; `IntakePromise` is implemented; nothing registered is forgotten |
| `IngestionRetry503` | a submission and its retry | finding 1 |
| `Pipeline` | three pages, all histories, evaluation with two attempts of two tries, with fairness | approval, honesty, durable exceptions, one announcement, forward status, true tracking, an end to every run |
| `PipelineOcrFailure` | two pages | finding 2 |
| `ReviewConsole` | two creations, a poller, a reviewer, two verdicts, two slots and a foreign request, with fairness | slots are counted, retries reuse the task, an answered task can be polled, one decision (`ReviewPromise`), and it is reached |
| `Retention` | one exception, two requests, two reconcilers, an enforcement, one fault, with fairness | what is held is kept, sources survive, requests are settled, and truly |
| `RetentionStarves` | two exceptions, a request for each, one reconciler, a fault, with fairness | finding 3 |
| `StageServices` | five documents, two requests alive at once, three attempts, three faults | slots are those of the threads; approvals are earned; the stored review stands |
| `StageOddFields` | the same, two faults | finding 4 |

Deadlock checking is off in all of them: callers, reviewers and operators may stop
for good, and a run that ended has no step left.

### Bounds

- Delivery: `MaxAttempts` is the code's own setting, with small values: two
  attempts are the least with a takeover of one by the other, one the least with a
  dead letter. `DeliveryRedrive` has two destinations and a redrive, with one request
  and one attempt between redrives, so that no backoff and no conflicting registration
  meets `HistoryIsImmutable` and `Settles` there. Both also hold in the instance that
  has these and not the others: its configuration with `Requests = {r1, r3}`,
  `Destinations = {hook}`, `MaxAttempts = 2` and `MaxRedrives = 0` (80,509 states); and
  `HistoryIsImmutable` is a theorem. `MaxRedrives` bounds what operators do. `turns`, the rounds a
  handler works, is part of the code.
- Intake: `Ages` counts four ages of a job because the code distinguishes three
  boundaries: two minutes (reconciled), fifteen (given up), the deduplication
  window. `MaxFaults` bounds the failures that dispatch and reconcilers meet. In
  `IngestionKeys` the third submission races only with the other two
  (`ThirdIsFresh`).
- Pipeline: `PageCount` is 3: a first, an inner and a last page. The evaluation
  has 2 of its 3 attempts and one retry of its provider: two attempts are the least
  that overlap. It is followed for one kind of run (`Followed`), since the service
  is told nothing else that it acts on.
- Console: two creations are the least that overlap, and the limit of two slots is
  reached by them and a foreign request (`MaxOthers`).
- Reprocessing: in `Retention` the second request races with one reconciler and
  with no enforcement (`Apart`); the theorems have no such bound. `RetentionStarves`
  lets the requests begin in turn and stops before the workflows (`ByTurns`).
- Stages: readings are in ten-thousandths (`Full = 10000`), and a bill read at 8333
  and a letter at 4667 are just clear enough: both can be approved, at 8332 and 4665
  they cannot (4666 is a tie). `MaxTries` is the code's 3. Two requests alive are the
  least with a late one beside its retry; `MaxFaults` counts lost answers, timeouts, restarts and
  failed transfers, and three are the least that exhaust a stage, or lose an
  answer, store in the spare bucket and fail to load. Requests differ by name
  only, hence the symmetry.
- Otherwise replicas, requests and destinations are two or three: each race is
  between two actors, and a third is there where one must look on.

### Fairness

- *Delivery*: a reconciler takes its enabled steps and time passes (weak fairness).
  The process is restarted when it dies and its loop ticks for ever. Callers,
  destinations, the network and operators promise nothing.
- *Intake*: as above; `ListUpload` and `Claim` are strongly fair, because the loop
  alternates between uploads and outbox rows every few seconds while their guards
  go on and off with other replicas' leases. That a pass reaches every upload is
  what finding 3 refutes when a source object is gone: such rows are outside of
  `Ingestion`, which has no replacements, and inside of `Reprocessing`.
  Temporal's `start_workflow` lands unless a fault is taken. Submissions promise
  nothing.
- *Pipeline*: Temporal ends every activity with an answer or a timeout and runs
  the workflow on; deadlines pass; the execution timeout comes. Nothing is asked
  of reviewers, of the ledger, of the evaluation service or of requests under way.
- *Console*: the worker polls as long as the review is open, and its polls get
  through again and again (strong fairness): stores and Label Studio are not down
  at every poll. Nothing is asked of the process, which may die at any time, or of
  reviewers; `ReviewIsDecided` speaks of those that have completed their tasks.
- *Reprocessing and retention*: one replica of the reconciler (`Survivor`) is
  restarted whenever it dies and what it reads gets through again and again;
  requests are looked at in turn, by `last_checked_at`. Workflows end by their
  deadlines, and an enforcement that is not killed ends. Handlers promise nothing.
- *Stages*: only safety is checked; that a run ends is `Closes`.

### Assumed of other systems

Temporal refuses a second start of a workflow id (`REJECT_DUPLICATE`) and replays
histories deterministically. Postgres transactions are atomic and serialised by the
locks they take. A fresh UUID is unique. Left out: workflow run ids, audit rows
(written in the transactions they describe), the batch limits of the reconcilers
(20 rows a pass, which delays and never excludes a row).

## What is proved

Every theorem holds for all values of the constants that the `ASSUME` of its
component allows; nothing else is assumed.

*Delivery* (`DeliveryLedgerProofs`): `TypeCorrect`, `LedgerInvariant`,
`LeasesMatch`, `AcknowledgedOnceHolds`. Neither property is inductive by itself. The
invariant `LedgerInv` adds that an executor that is busy holds a lease with a token
(`HeldWhenBusy`) and, row by row, `RowLog`: the token is the length of the attempt
log while leased, at most that one attempt is open, an acknowledgement stands only
at the end of the log of an acknowledged row, and the call that earned it has
arrived. The proof follows the few ways a row can change: taken over, claimed,
exhausted, reported, redriven.

`DeliveryPromiseProofs`, upon it: `FrozenEnvelopeHolds` (`Frozen`: calls under
way carry the registered envelope, whoever may send is at work for a registered
operation, and a request for a legacy one does not come past the receipts),
`AttemptsBoundedHolds` (`Paid`: the attempts of a row are paid for by its budget or
by one that was reset), `HistoryIsImmutableHolds` and
`StaleWorkerIsHarmlessHolds` (action properties, from the ways a row moves), and
`LedgerImplementsPromise`: an operation has the rows of the request it was
registered by (`RowsRegistered`), and whoever is at work for the receipt, and a call
for it under way, find every destination served (`Orderly`), so that every
step is an `Accept`, `Receive`, `Succeed`, `GiveUp` or `Redrive` of the promise or
changes nothing it speaks of.

*Intake* (`IngestionProofs`): `TypeCorrect`, `IntakeInvariant`,
`WorkflowBackedByArtifactHolds`, `OneLiveJobHolds`, `KeyMeansOneJobHolds`. `RunInv`
strengthens the first property with what dispatches, starts on the wire and checks
under way already know: each is about a job whose artifact is recorded or whose
object exists, and a handler before its registration is about a job that does not
exist. `OneLiveJob` is inductive with the types: a job becomes live only under the
advisory lock, when none is. `KeyInv` says for every handler what it learned of its
key and that a binding never changes.

In its second part: `StaleDispatcherIsHarmlessHolds`,
`RecoveredIsVerifiedHolds` (`UploadInv`: before its upload a job has no object and
none under way, what is under way finds no object, and what a reconciler has
verified is intact and stays so), and `IntakeImplementsPromise`.

*Pipeline* (`DocumentPipelineProofs`): every safety and action property of
`DocumentPipeline` but the finding. `PipelineInv` has a part for each theme: how far
the pages are (`Progress`), that no delivery is requested without its verdict
(`Approval`), that deadlines are reset only while there is no outcome (`Honest`),
what was announced and what is shown in each place (`Announcing`, `Showing`).
`NoUnapprovedDelivery` is not inductive: it needs that a request under way was
approved when it was sent and that verdicts and the decision never change after it.
`EvaluationIsHarmless` (`EvaluatedPipelineProofs`): a run with the evaluation
service beside it is a run of `DocumentPipeline`, so all of it holds there too.

*Console* (`ReviewConsoleProofs`): all its safety, for any number of requests,
verdicts and slots. `TypeCorrect` needs what a handler knows where (`Providing`,
`Seeing`). `SlotsAreCountedHolds` follows the set of handlers that hold a slot, by
its cardinality. `TaskInv` gives `RetryReusesTaskHolds` and
`AnsweredIsReviewableHolds`: a handler that has not asked has imported nothing
(`Asking`), whoever is late came after a record (`LateBehind`), and a record that
names Label Studio names a task that exists (`Named`).
`ConsoleImplementsPromise` maps the row, and what callers and the audit artifact
were told, to `ReviewPromise`: a step writes the row once, and tells what it says.

*Retention* (`RetentionProofs`): `HeldIsKeptHolds` and `SourceSurvivesHolds`, for any
number of exceptions, requests, replicas and enforcements that die. `Unheld` says
that nothing an enforcement has selected is held while it is at work: those who
could hold it wait for its locks. Objects, artifacts and rows go in one way each
(`ObjectsGo`, `ArtifactsGo`, `RowsGo`). `Sourced` strengthens the second: a job that
names an object has it unless an enforcement deleted it, what a handler is about to
record has been uploaded, and a replacement registered while the parent names its
source finds it there.

`TypeCorrect` has the rest of the types. `ResolutionIsTrueHolds` needs to know what a
verdict that waits to be written is about (`Truthful`): the replacement the request
has now, whose end never changes, or a parent that is gone, or one that had a
replacement which is. A request is only ever kept, dispatched, settled by such a
verdict, forgotten with one of its jobs, or asked for anew where there is none
(`Answered`), and none of these makes a verdict that waits untrue.

*Evaluation* (`EvaluatedPipelineProofs`): `TrackedIsTrueHolds`, in the composition with
the workflow, for any number of attempts and tries. Its invariant `TrackInv`: a run in
the making has its values and not its tags (`Making`), so that a search finds exactly
those that are made (`TaggedIsMade`) and these are whole (`Made`); whoever says that a
run is made came after one (`Said`); and as long as no two threads searched at once,
at most one is making a run, and only where there is none (`Alone`). Bags and their
cardinality are reduced to a few lemmas about one more copy of one element.

*Stages* (`StageServicesProofs`): all safety of `StageServices`, for any documents,
requests, attempts, slots and faults. The invariant has four parts.

- `Types`, with what a request can be waiting for in each phase (`Shape`).
- `InOrder`: stages are answered one after another, and an answer is never replaced
  (`Stand`), which `Moves` reads off every action.
- `Results`: every artifact in the store, every result under way and every answer fits
  the answers before it: a layout was made of the reading, a route was classified
  from it, a verdict was judged on fields extracted on that route, a review is the
  approval of the fields the person left (`RowFits`, `AnswerFits`, `StoreFits`). It is
  here that late attempts matter: one that still writes fits the same answers as
  the one that was heard.
- `SlotsAreHeld`, by the cardinality of the threads of a service.

`ApprovalIsEarned` follows from `Results` and the arithmetic of the confidence
formulas (`PartBound`, `ScoreBound`, `ExtractionBound`, `JudgeEarned`): the least
reading whose score rounds to 0.90 on a strict route with all its fields and the
layout bonus is 83.325%, and whose fields round to 0.60 is 46.66%. This is for every
`Full`, hence also for means that were not rounded. `ReviewStands` follows from
`Results` alone.

*Only model-checked*: liveness (`Settles` of both, `Closes`, `ReviewIsDecided`,
`Resolves`), which like `ENABLED` is outside the prover's reach, and the finding of each
violation run. Every other property of a passing run is a theorem.

### What the proofs changed

- `PrimaryReason` and `ReadPages` of `StageRules` were `CASE` expressions whose arms
  overlap, which TLA+ leaves unspecified and TLC resolves in their order. They are
  `IF` chains now, in the order of the code.
- `WellRead` (in `ApprovalIsEarned`) asked for a bound on the confidence of the reading
  that was heard, for every reading. The proof of `ExtractionBound` failed for one
  that came with confidence 0, and TLC found the run: see the disagreements below.
- The bounds of `WellRead` were 84% and 47% while readings were whole percents, which
  the code's are not: a bill read at 0.8334 scores 0.9000 and is approved. They are
  now those of the rounded formulas, proved for readings of any precision.
- `ResolutionIsTrue` speaks of parents none of whose replacements is forgotten. A
  reconciler that stays between `Judge` and `Settle` while retention forgets the
  replacement, before the parent (which the request that made the parent still holds),
  and while that parent is reprocessed once more, would write the old verdict on the
  new request.
- What a reconciler has listed (`left`) is a set, taken by age; it was a sequence made
  with `SelectSeq`, of which the prover knows nothing.

## Findings

1. `IngestionRetry503`: after a 503 for a failed upload, the retry the API contract
   recommends is answered 200 from its key without uploading the document it
   carries; if the first upload never arrived the job is failed fifteen minutes
   later (`infra/api/PUBLIC_API.md:180-187`).
2. `PipelineOcrFailure`: the page activities do not give a network error or an
   untyped 5xx the type `OCR_UNAVAILABLE`, so an OCR request that exhausts its
   attempts on them is not recorded as an exception
   (`workflow_orchestrator/README.md:267-271`).
3. `RetentionStarves`: a replacement whose source object is gone ends every pass over
   the interrupted uploads with an error, so that younger ones are never recovered
   (`ingestion_service/README.md:54-63`).
4. `StageOddFields`: validation judges the stored extraction, which a late attempt
   may have replaced, and the workflow delivers the fields of the attempt it heard:
   an ill-formed amount is delivered without a review
   (`validation_service/README.md:89`).

Other disagreements met while modelling, which no run is spent on:

- `_submit` reads the ledger and then the receipts; a second submission that looks
  in between finds the receipt the first has just written, takes it for one older
  than the ledger and answers 409 (`delivery_service/app/main.py:241`). It is in
  `DeliveryLedger` (`CheckLegacy`).
- A poll that has fetched an annotation when another decision is stored is answered 409
  (`human_review_console/app/main.py:373-374`, `Save` in `ReviewConsole`), where
  `human_review_console/README.md:479-481` promises the stored decision to
  notifications and to the workflow's polls. The activity takes a 409 for final
  (`workflow_orchestrator/app/activities.py:14-15, 101-103`), so the workflow fails
  with a decision on record, a run that `DocumentPipeline` has (`StageFails` while
  `polling`). `ReviewIsDecided` is about the stored decision and not about that run.
- `create_review_task` answers a repeated request with `settings.review_bucket` even
  if the record is in the other bucket.
- Two evaluation threads side by side make two runs in MLflow, and a late receipt
  of a failure replaces one of success, although `evaluation_service/README.md:226`
  speaks of no duplicates (`raced` in `Evaluation`).
- The evaluation's `metrics.json` is stored without the tenant prefix
  (`evaluation_service/app/providers.py:22`), so retention does not delete it for
  other tenants; and retention never deletes the raw object of a job that failed
  before its artifact was recorded, which `ingestion_service/README.md:265` expects.
- Retention does not hold the job of a workflow that is still running.
- `set_reprocess_status` (`ingestion_service/app/repository.py:542-545`) finds a request
  by its parent and not by the replacement that was judged; see `ResolutionIsTrue` above.
- A reading without any confidence is given 0 (`ocr_service/app/main.py:118-137`), which
  extraction takes for none and replaces by that of the stored reading
  (`extraction_service/app/main.py:293`), which may be a late attempt's.

## Not modelled

- The OCR and layout engines, image processing and the text patterns of classifier
  and extraction: numeric or textual, and what they come to is an attribute of the
  document (`StageRules`). Requests for single pages, and the checks of the page
  lists between services, are outcomes in `DocumentPipeline`; in `StageServices` a
  request names all the pages.
- The rest of the shared library (storage clients, credentials, settings), the
  Python client, scripts, drills, benchmarks, infrastructure and CI: configuration,
  I/O or tooling without state that the properties could be about.
- Reading endpoints, lists and the dry run of retention, which change nothing.

## Possible extensions

The workflow's view of the console (`Decide`, `LandTask`) could become an instance
of `ReviewPromise`, as its view of the delivery service is one of
`DeliveryPromise`, and `Reprocessing`, which repeats the states of a job of `Ingestion`,
could be mapped to `IntakePromise`.
