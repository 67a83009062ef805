--------------------------- MODULE ReviewConsole ----------------------------
(***************************************************************************)
(* The human review console, for one review of one document: POST           *)
(* /review/tasks, repeated by Temporal; the polls of the worker and the     *)
(* event hints, which ask Label Studio; and the manual decisions.            *)
(*                                                                         *)
(* The review record is in the object store, in the review bucket or, if    *)
(* that refused it, in the validation bucket.  The import into Label Studio *)
(* is on the wire: it may land after its caller gave up, or never.  An      *)
(* upload that fails may have landed.  Any read of the object store or of   *)
(* Label Studio may fail.  The process may die and be started again.        *)
(***************************************************************************)
EXTENDS Naturals, FiniteSets

CONSTANTS
    Creators,       \* requests to create the task of the review
    Pollers,        \* who asks for the decision: the worker, event hints
    Reviewers,      \* who decides through the API
    Verdicts,       \* the decisions with their fields, complete ones only
    Provider,       \* what select_provider chooses
    FallsBack,      \* settings.review_fallback_to_local_queue
    MaxInflight,    \* settings.review_max_inflight_requests
    MaxOthers,      \* bound: requests of other reviews at a time
    None

Callers   == Pollers \cup Reviewers
Providers == {"label_studio", "local_queue"}
Buckets   == {"review", "validation"}

ASSUME ReviewAssumption ==
    /\ IsFiniteSet(Creators)
    /\ Pollers \cap Reviewers = {}
    /\ None \notin Verdicts \cup Callers \cup Providers
    /\ Provider \in Providers
    /\ FallsBack \in BOOLEAN
    /\ MaxInflight \in Nat \ {0} /\ MaxOthers \in Nat

VARIABLES
    creator,    \* where the handler of each creation is, and the provider of its task
    inflight,   \* _REVIEW_INFLIGHT
    others,     \* requests of other reviews that hold a slot
    imports,    \* imports into Label Studio on the wire, by creation
    tasks,      \* tasks of Label Studio, by the creation that imported them
    note,       \* the latest completed annotation of each, None if incomplete
    record,     \* the review record in each bucket
    caller,     \* where each poll or manual decision is, and what it read
    told,       \* the decision each caller was told
    decision,   \* review_decisions, the row of the review
    mirror,     \* the decision's audit artifact
    late        \* the creations that began when a record existed

creation == <<creator, inflight, others, imports, late>>
studio   == <<tasks, note>>
deciding == <<caller, told, decision, mirror>>
vars     == <<creator, inflight, others, imports, tasks, note, record, caller, told,
              decision, mirror, late>>

-----------------------------------------------------------------------------
(* Types *)

Record   == [provider : Providers, by : Creators]
NoRecord == [provider |-> None, by |-> None]

Holding == {"looking", "importing", "storing", "falling_back"}
\* `refused` for every answer but 200, and for a handler that died.
Ended   == {"answered", "refused"}
Deciding == {"reading", "fetching", "saving"}

TypeOK ==
    /\ creator \in [Creators -> [at : {"new"} \cup Holding \cup Ended,
                                 provider : Providers \cup {None}]]
    /\ inflight \in Nat /\ others \in Nat
    /\ imports \in SUBSET Creators
    /\ tasks \in SUBSET Creators
    /\ note \in [Creators -> Verdicts \cup {None}]
    /\ record \in [Buckets -> Record \cup {NoRecord}]
    /\ caller \in [Callers -> [at : Deciding \cup {"idle"}, record : Record \cup {NoRecord},
                               seen : Verdicts \cup {None}]]
    /\ told \in [Callers -> Verdicts \cup {None}]
    /\ decision \in Verdicts \cup {None}
    /\ mirror \in Verdicts \cup {None}
    /\ late \in SUBSET Creators

Init ==
    /\ creator = [c \in Creators |-> [at |-> "new", provider |-> None]]
    /\ inflight = 0 /\ others = 0
    /\ imports = {} /\ tasks = {} /\ late = {}
    /\ note = [c \in Creators |-> None]
    /\ record = [b \in Buckets |-> NoRecord]
    /\ caller = [x \in Callers |-> [at |-> "idle", record |-> NoRecord,
                                    seen |-> None]]
    /\ told = [x \in Callers |-> None]
    /\ decision = None /\ mirror = None

-----------------------------------------------------------------------------
(* The review record *)

Recorded == \E b \in Buckets : record[b] # NoRecord

\* _load_review_record: the validation bucket is read when the review bucket
\* has no record, or cannot be read.
Readable(r) == r # NoRecord /\ \E b \in Buckets : record[b] = r

\* Mutant: an object store that cannot be read counts as having no record.
MissingOrUnreadable == TRUE

\* 404 only if both buckets answered that there is none; otherwise 503.
Missing == ~ Recorded

-----------------------------------------------------------------------------
(* POST /review/tasks *)

Goto(c, place, p) == creator' = [creator EXCEPT ![c] = [at |-> place, provider |-> p]]

\* The `finally` of create_review_task.
Release == inflight' = IF inflight > 0 THEN inflight - 1 ELSE 0

Begin(c) ==
    /\ creator[c].at = "new"
    /\ inflight < MaxInflight
    /\ inflight' = inflight + 1
    /\ late' = IF Recorded THEN late \cup {c} ELSE late
    /\ Goto(c, "looking", None)
    /\ UNCHANGED <<others, imports, studio, record, deciding>>

Busy(c) ==
    /\ creator[c].at = "new"
    /\ inflight >= MaxInflight
    /\ Goto(c, "refused", None)
    /\ UNCHANGED <<inflight, others, imports, late, studio, record, deciding>>

\* A request of another review takes a slot and gives it back.
OtherBegins ==
    /\ inflight < MaxInflight
    /\ others < MaxOthers
    /\ inflight' = inflight + 1
    /\ others' = others + 1
    /\ UNCHANGED <<creator, imports, late, studio, record, deciding>>

OtherEnds ==
    /\ others > 0
    /\ others' = others - 1
    /\ Release
    /\ UNCHANGED <<creator, imports, late, studio, record, deciding>>

\* Mutant: the early return is outside of the `try`.
ReuseKeepsSlot(c) ==
    /\ creator[c].at = "looking"
    /\ \E r \in Record : Readable(r) /\ Goto(c, "answered", r.provider)
    /\ UNCHANGED <<inflight, others, imports, late, studio, record, deciding>>

\* The task of an earlier request is answered.
Reuse(c) ==
    /\ creator[c].at = "looking"
    /\ \E r \in Record : Readable(r) /\ Goto(c, "answered", r.provider)
    /\ Release
    /\ UNCHANGED <<others, imports, late, studio, record, deciding>>

\* The record cannot be read: 503.
LookFails(c) ==
    /\ creator[c].at = "looking"
    /\ Goto(c, "refused", None)
    /\ Release
    /\ UNCHANGED <<others, imports, late, studio, record, deciding>>

\* The provider is asked to create a task; the local queue has nothing to ask.
AskProvider(c) ==
    /\ creator[c].at = "looking"
    /\ Missing
    /\ IF Provider = "label_studio"
       THEN Goto(c, "importing", Provider) /\ imports' = imports \cup {c}
       ELSE Goto(c, "storing", Provider) /\ UNCHANGED imports
    /\ UNCHANGED <<inflight, others, late, studio, record, deciding>>

Imported(c) ==
    /\ creator[c].at = "importing"
    /\ c \in tasks
    /\ Goto(c, "storing", "label_studio")
    /\ UNCHANGED <<inflight, others, imports, late, studio, record, deciding>>

\* Mutant: the fallback does not name its provider.
ImportFailsUnnamed(c) ==
    /\ creator[c].at = "importing"
    /\ \/ FallsBack /\ Goto(c, "storing", None) /\ UNCHANGED inflight
       \/ Goto(c, "refused", None) /\ Release
    /\ UNCHANGED <<others, imports, late, studio, record, deciding>>

\* An error or a timeout, with the import still on the wire or done: the task
\* goes to the local queue, or the answer is 502 (500 for what is not JSON).
ImportFails(c) ==
    /\ creator[c].at = "importing"
    /\ \/ FallsBack /\ Goto(c, "storing", "local_queue") /\ UNCHANGED inflight
       \/ Goto(c, "refused", None) /\ Release
    /\ UNCHANGED <<others, imports, late, studio, record, deciding>>

Put(c, b) == record' = [record EXCEPT ![b] = [provider |-> creator[c].provider, by |-> c]]

StoreRecord(c) ==
    /\ creator[c].at \in {"storing", "falling_back"}
    /\ Put(c, IF creator[c].at = "storing" THEN "review" ELSE "validation")
    /\ Goto(c, "answered", creator[c].provider)
    /\ Release
    /\ UNCHANGED <<others, imports, late, studio, deciding>>

\* _persist_review_record: the validation bucket is tried next.
StoreFails(c) ==
    /\ creator[c].at = "storing"
    /\ Put(c, "review") \/ UNCHANGED record
    /\ Goto(c, "falling_back", creator[c].provider)
    /\ UNCHANGED <<inflight, others, imports, late, studio, deciding>>

\* Mutant: the second failure is logged like the first.
FallbackIgnored(c) ==
    /\ creator[c].at = "falling_back"
    /\ Put(c, "validation") \/ UNCHANGED record
    /\ Goto(c, "answered", creator[c].provider)
    /\ Release
    /\ UNCHANGED <<others, imports, late, studio, deciding>>

FallbackFails(c) ==
    /\ creator[c].at = "falling_back"
    /\ Put(c, "validation") \/ UNCHANGED record
    /\ Goto(c, "refused", None)
    /\ Release
    /\ UNCHANGED <<others, imports, late, studio, deciding>>

-----------------------------------------------------------------------------
(* Label Studio *)

LandImport(c) ==
    /\ c \in imports
    /\ imports' = imports \ {c}
    /\ tasks' = tasks \cup {c}
    /\ UNCHANGED <<creator, inflight, others, late, note, record, deciding>>

\* A reviewer annotates a task, edits the annotation or takes it back.
Annotate(c) ==
    /\ c \in tasks
    /\ \E v \in (Verdicts \cup {None}) \ {note[c]} : note' = [note EXCEPT ![c] = v]
    /\ UNCHANGED <<creation, tasks, record, deciding>>

-----------------------------------------------------------------------------
(* Decisions: GET and POST /review/tasks/.../decision, .../label-studio-event *)

Idle == [at |-> "idle", record |-> NoRecord, seen |-> None]

Read(x, place, r, v) == caller' = [caller EXCEPT ![x] = [at |-> place, record |-> r, seen |-> v]]

\* Answered, with the decision or with nothing that anyone acts on.
Reply(x) == caller' = [caller EXCEPT ![x] = Idle]

Tell(x, v) == Reply(x) /\ told' = [told EXCEPT ![x] = v]

\* Mutant: only the review bucket is read.
FindReviewOneBucket(x) ==
    /\ caller[x].at = "idle"
    /\ x \in Pollers
    /\ record["review"] # NoRecord
    /\ Read(x, "reading", record["review"], None)
    /\ UNCHANGED <<creation, studio, record, told, decision, mirror>>

\* _checked_review.  Without a record, or a store to read it from, the answer is
\* 404 or 503, and nothing changes.
FindReview(x) ==
    /\ caller[x].at = "idle"
    /\ x \in Pollers
    /\ \E r \in Record : Readable(r) /\ Read(x, "reading", r, None)
    /\ UNCHANGED <<creation, studio, record, told, decision, mirror>>

\* _load_decision: a decision that stands is answered.
ReadDecision(x) ==
    /\ caller[x].at = "reading"
    /\ IF decision # None THEN Tell(x, decision)
       ELSE /\ IF caller[x].record.provider = "label_studio"
               THEN Read(x, "fetching", caller[x].record, None)
               ELSE Reply(x)
            /\ UNCHANGED told
    /\ UNCHANGED <<creation, studio, record, decision, mirror>>

\* The same for a reviewer, who is refused if another decision stands.
SubmitDecision(x) ==
    /\ caller[x].at = "idle"
    /\ x \in Reviewers
    /\ Recorded
    /\ \/ decision = None /\ (\E v \in Verdicts : Read(x, "saving", NoRecord, v)) /\ UNCHANGED told
       \/ decision # None /\ Tell(x, decision)
    /\ UNCHANGED <<creation, studio, record, decision, mirror>>

\* The task the record names is asked of Label Studio.
FetchAnnotation(x) ==
    /\ caller[x].at = "fetching"
    /\ LET v == note[caller[x].record.by]
       IN  IF v = None THEN Reply(x) ELSE Read(x, "saving", NoRecord, v)
    /\ UNCHANGED <<creation, studio, record, told, decision, mirror>>

FetchFails(x) ==
    /\ caller[x].at = "fetching"
    /\ Reply(x)
    /\ UNCHANGED <<creation, studio, record, told, decision, mirror>>

\* Mutant: ON CONFLICT DO UPDATE.
SaveReplaces(x) ==
    /\ caller[x].at = "saving"
    /\ decision' = caller[x].seen
    /\ mirror' \in {mirror, decision'}
    /\ Tell(x, decision')
    /\ UNCHANGED <<creation, studio, record>>

\* ReviewDecisionRepository.create and the comparison in _save_decision, 409 if
\* another decision stands; the audit artifact, best effort; and the answer.
Save(x) ==
    /\ caller[x].at = "saving"
    /\ decision' = IF decision = None THEN caller[x].seen ELSE decision
    /\ IF decision' = caller[x].seen
       THEN mirror' \in {mirror, decision'} /\ Tell(x, decision')
       ELSE Reply(x) /\ UNCHANGED <<told, mirror>>
    /\ UNCHANGED <<creation, studio, record>>

\* The commit goes through and its answer is lost.
SaveUnanswered(x) ==
    /\ caller[x].at = "saving"
    /\ decision' = IF decision = None THEN caller[x].seen ELSE decision
    /\ Reply(x)
    /\ UNCHANGED <<creation, studio, record, told, mirror>>

-----------------------------------------------------------------------------
\* The process dies: its handlers are gone and its slots are counted anew.
Restart ==
    /\ creator' = [c \in Creators |->
                     IF creator[c].at \in Holding THEN [at |-> "refused", provider |-> None]
                     ELSE creator[c]]
    /\ inflight' = 0
    /\ others' = 0
    /\ caller' = [x \in Callers |-> Idle]
    /\ UNCHANGED <<imports, late, studio, record, told, decision, mirror>>

CreateStep(c) ==
    \/ Begin(c) \/ Busy(c) \/ Reuse(c) \/ LookFails(c) \/ AskProvider(c)
    \/ Imported(c) \/ ImportFails(c) \/ StoreRecord(c) \/ StoreFails(c) \/ FallbackFails(c)

DecideStep(x) ==
    \/ FindReview(x) \/ ReadDecision(x) \/ SubmitDecision(x)
    \/ FetchAnnotation(x) \/ FetchFails(x) \/ Save(x) \/ SaveUnanswered(x)

Next ==
    \/ \E c \in Creators : CreateStep(c) \/ LandImport(c) \/ Annotate(c)
    \/ \E x \in Callers : DecideStep(x)
    \/ OtherBegins \/ OtherEnds \/ Restart

Spec == Init /\ [][Next]_vars

\* The worker polls for as long as the review is open, and its polls get through
\* again and again: the stores and Label Studio are not down at every poll.
FairSpec ==
    /\ Spec
    /\ \A p \in Pollers : /\ SF_vars(FindReview(p)) /\ SF_vars(ReadDecision(p))
                          /\ SF_vars(FetchAnnotation(p)) /\ SF_vars(Save(p))

-----------------------------------------------------------------------------
(* Safety *)

\* Every creation gives its slot back once, whichever way it ends, and only
\* then: the count is that of the handlers that hold one, and never above
\* the limit.
SlotsAreCounted ==
    /\ inflight = Cardinality({c \in Creators : creator[c].at \in Holding}) + others
    /\ inflight <= MaxInflight

\* A retry that begins when a record exists never imports a second task, not
\* even when the object store is down: duplicates need an overlap or an attempt
\* that ended before its record was stored.
RetryReusesTask == \A c \in late : c \notin imports \cup tasks

\* Whoever was told that the task exists can be polled for: there is a record,
\* and the task of Label Studio it names exists, however late imports land.
AnsweredIsReviewable ==
    /\ (\E c \in Creators : creator[c].at = "answered") => Recorded
    /\ \A b \in Buckets : record[b].provider = "label_studio" => record[b].by \in tasks

\* The row, what callers are told of it and its audit artifact implement the
\* promise: one decision stands, is the one everyone sees, and no annotation
\* edited or decision made meanwhile replaces it.
Promise == INSTANCE ReviewPromise WITH
    Values <- Verdicts, Nothing <- None, row <- decision,
    told <- [x \in Callers \cup {None} |-> IF x = None THEN mirror ELSE told[x]]

ImplementsPromise == Promise!Spec

-----------------------------------------------------------------------------
(* Liveness *)

\* Every task a record names is completed by its reviewer.
Annotated ==
    /\ Recorded
    /\ \A b \in Buckets : record[b] # NoRecord =>
         record[b].provider = "label_studio" /\ note[record[b].by] # None

\* Once the reviewers are done with the tasks on record, a decision is stored,
\* whatever fails on the way and however often the process dies.
ReviewIsDecided == <>[]Annotated => <>(decision # None)
=============================================================================
