------------------------ MODULE ReviewConsoleProofs -------------------------
(***************************************************************************)
(* Theorems of ReviewConsole, for any number of creations, pollers,         *)
(* reviewers and verdicts, either provider and any number of slots.          *)
(***************************************************************************)
EXTENDS ReviewConsole, FiniteSetTheorems, TLAPS

-----------------------------------------------------------------------------
(* What holds of types, and of places *)

\* A handler that stores knows its provider, and a task of Label Studio it
\* stores has been imported.
Providing == \A c \in Creators : creator[c].at \in {"storing", "falling_back"} =>
               /\ creator[c].provider \in Providers
               /\ creator[c].provider = "label_studio" => c \in tasks

\* Who asks Label Studio has read a record; what is about to be saved is a
\* decision.
Seeing == \A x \in Callers :
            /\ caller[x].at \in {"reading", "fetching"} => caller[x].record \in Record
            /\ caller[x].at = "saving" => caller[x].seen \in Verdicts

Typed == TypeOK /\ Providing /\ Seeing

USE DEF Holding, Ended, Deciding, Buckets, Providers

LEMMA InitialTypes == Init => Typed
BY ReviewAssumption DEF Init, Typed, TypeOK, Providing, Seeing, NoRecord

\* What is read of the record is of its type.
LEMMA RecordType == ASSUME TypeOK, NEW r, Readable(r) PROVE r \in Record
BY DEF TypeOK, Readable, NoRecord, Record

LEMMA CreateTypes ==
    ASSUME Typed, NEW c \in Creators, CreateStep(c) PROVE Typed'
<1> USE ReviewAssumption DEF Typed, TypeOK, Providing, Seeing, Goto, Release, Record, creation, studio, deciding
<1>1. CASE Begin(c) BY <1>1 DEF Begin
<1>2. CASE Busy(c) BY <1>2 DEF Busy
<1>3. CASE Reuse(c) BY <1>3 DEF Reuse
<1>4. CASE LookFails(c) BY <1>4 DEF LookFails
<1>5. CASE AskProvider(c)
  <2>1. CASE Provider = "label_studio" BY <1>5, <2>1 DEF AskProvider
  <2>2. CASE Provider = "local_queue" BY <1>5, <2>2 DEF AskProvider
  <2> QED BY <2>1, <2>2
<1>6. CASE Imported(c) BY <1>6 DEF Imported
<1>7. CASE ImportFails(c) BY <1>7 DEF ImportFails
<1>8. CASE StoreRecord(c) BY <1>8 DEF StoreRecord, Put
<1>9. CASE StoreFails(c) BY <1>9 DEF StoreFails, Put
<1>10. CASE FallbackFails(c) BY <1>10 DEF FallbackFails, Put
<1> QED BY <1>1, <1>2, <1>3, <1>4, <1>5, <1>6, <1>7, <1>8, <1>9, <1>10, CreateStep(c) DEF CreateStep

\* Where a caller may be, and what it has read by then.
Place == {z \in [at : Deciding \cup {"idle"}, record : Record \cup {NoRecord},
                 seen : Verdicts \cup {None}] :
            /\ z.at \in {"reading", "fetching"} => z.record \in Record
            /\ z.at = "saving" => z.seen \in Verdicts}

LEMMA IdlePlace == Idle \in Place
BY DEF Idle, Place

LEMMA CallerPlace == ASSUME Typed, NEW x \in Callers PROVE caller[x] \in Place
BY DEF Typed, TypeOK, Seeing, Place

\* A caller that moves to such a place leaves the types as they are.
LEMMA MoveTypes ==
    ASSUME Typed, NEW x \in Callers, NEW z \in Place, caller' = [caller EXCEPT ![x] = z],
           told' \in [Callers -> Verdicts \cup {None}],
           decision' \in Verdicts \cup {None}, mirror' \in Verdicts \cup {None},
           UNCHANGED <<creation, studio, record>>
    PROVE  Typed'
<1>1. TypeOK' BY DEF Typed, TypeOK, Place, creation, studio
<1>2. Providing' BY DEF Typed, Providing, creation, studio
<1>3. Seeing' BY DEF Typed, TypeOK, Seeing, Place
<1> QED BY <1>1, <1>2, <1>3 DEF Typed

LEMMA DecideTypes ==
    ASSUME Typed, NEW x \in Callers, DecideStep(x) PROVE Typed'
<1> USE ReviewAssumption
<1>a. /\ caller[x] \in Place
      /\ told \in [Callers -> Verdicts \cup {None}]
      /\ decision \in Verdicts \cup {None}
      /\ mirror \in Verdicts \cup {None}
      /\ note \in [Creators -> Verdicts \cup {None}]
  BY CallerPlace DEF Typed, TypeOK
<1>b. ASSUME Reply(x), told' \in [Callers -> Verdicts \cup {None}],
             decision' \in Verdicts \cup {None}, mirror' \in Verdicts \cup {None},
             UNCHANGED <<creation, studio, record>>
      PROVE  Typed'
  BY <1>b, IdlePlace, MoveTypes DEF Reply
<1>1. CASE FindReview(x)
  <2>1. PICK r \in Record : Read(x, "reading", r, None) BY <1>1 DEF FindReview
  <2>2. [at |-> "reading", record |-> r, seen |-> None] \in Place BY DEF Place
  <2> QED BY <1>1, <1>a, <2>1, <2>2, MoveTypes DEF FindReview, Read
<1>2. CASE ReadDecision(x)
  <2>1. UNCHANGED <<creation, studio, record, decision, mirror>> BY <1>2 DEF ReadDecision
  <2>2. CASE decision # None
    <3>1. told' \in [Callers -> Verdicts \cup {None}] /\ Reply(x)
      BY <1>2, <1>a, <2>2 DEF ReadDecision, Tell
    <3> QED BY <1>a, <1>b, <2>1, <3>1
  <2>3. CASE decision = None /\ caller[x].record.provider = "label_studio"
    <3>1. Read(x, "fetching", caller[x].record, None) /\ UNCHANGED told
      BY <1>2, <2>3 DEF ReadDecision
    <3>2. [at |-> "fetching", record |-> caller[x].record, seen |-> None] \in Place
      BY <1>2, <1>a DEF ReadDecision, Place
    <3> QED BY <1>a, <2>1, <3>1, <3>2, MoveTypes DEF Read
  <2>4. CASE decision = None /\ caller[x].record.provider # "label_studio"
    <3>1. Reply(x) /\ UNCHANGED told BY <1>2, <2>4 DEF ReadDecision
    <3> QED BY <1>a, <1>b, <2>1, <3>1
  <2> QED BY <2>2, <2>3, <2>4
<1>3. CASE SubmitDecision(x)
  <2>1. UNCHANGED <<creation, studio, record, decision, mirror>> BY <1>3 DEF SubmitDecision
  <2>2. CASE (\E v \in Verdicts : Read(x, "saving", NoRecord, v)) /\ UNCHANGED told
    <3>1. PICK v \in Verdicts : Read(x, "saving", NoRecord, v) BY <2>2
    <3>2. [at |-> "saving", record |-> NoRecord, seen |-> v] \in Place BY DEF Place
    <3> QED BY <1>a, <2>1, <2>2, <3>1, <3>2, MoveTypes DEF Read
  <2>3. CASE decision # None /\ Tell(x, decision)
    <3>1. told' \in [Callers -> Verdicts \cup {None}] /\ Reply(x)
      BY <1>a, <2>3 DEF Tell
    <3> QED BY <1>a, <1>b, <2>1, <3>1
  <2> QED BY <1>3, <2>2, <2>3 DEF SubmitDecision
<1>4. CASE FetchAnnotation(x)
  <2> DEFINE v == note[caller[x].record.by]
  <2>1. UNCHANGED <<creation, studio, record, told, decision, mirror>>
    BY <1>4 DEF FetchAnnotation
  <2>2. v \in Verdicts \cup {None} BY <1>4, <1>a DEF FetchAnnotation, Place, Record
  <2>3. CASE v = None BY <1>4, <1>a, <1>b, <2>1, <2>3 DEF FetchAnnotation
  <2>4. CASE v # None
    <3>1. Read(x, "saving", NoRecord, v) BY <1>4, <2>4 DEF FetchAnnotation
    <3>2. [at |-> "saving", record |-> NoRecord, seen |-> v] \in Place BY <2>2, <2>4 DEF Place
    <3> QED BY <1>a, <2>1, <3>1, <3>2, MoveTypes DEF Read
  <2> QED BY <2>3, <2>4
<1>5. CASE FetchFails(x) BY <1>5, <1>a, <1>b DEF FetchFails
<1>6. CASE Save(x)
  <2>1. caller[x].seen \in Verdicts BY <1>6, <1>a DEF Save, Place
  <2>2. decision' \in Verdicts BY <1>6, <1>a, <2>1 DEF Save
  <2>3. /\ Reply(x)
        /\ told' \in [Callers -> Verdicts \cup {None}]
        /\ mirror' \in Verdicts \cup {None}
        /\ UNCHANGED <<creation, studio, record>>
    BY <1>6, <1>a, <2>2 DEF Save, Tell
  <2> QED BY <1>b, <2>2, <2>3
<1>7. CASE SaveUnanswered(x)
  <2>1. decision' \in Verdicts \cup {None} BY <1>7, <1>a DEF SaveUnanswered, Place
  <2> QED BY <1>7, <1>a, <1>b, <2>1 DEF SaveUnanswered
<1> QED BY <1>1, <1>2, <1>3, <1>4, <1>5, <1>6, <1>7, DecideStep(x) DEF DecideStep

LEMMA OtherTypes ==
    ASSUME Typed,
           \/ OtherBegins \/ OtherEnds \/ Restart
           \/ \E c \in Creators : LandImport(c) \/ Annotate(c)
    PROVE  Typed'
<1> USE ReviewAssumption DEF Typed, TypeOK, Providing, Seeing, creation, studio, deciding
<1>1. CASE OtherBegins BY <1>1 DEF OtherBegins
<1>2. CASE OtherEnds BY <1>2 DEF OtherEnds, Release
<1>3. CASE Restart BY <1>3 DEF Restart, Idle
<1>4. ASSUME NEW c \in Creators, LandImport(c) PROVE Typed' BY <1>4 DEF LandImport
<1>5. ASSUME NEW c \in Creators, Annotate(c) PROVE Typed' BY <1>5 DEF Annotate
<1> QED BY <1>1, <1>2, <1>3, <1>4, <1>5

LEMMA StepTypes == Typed /\ [Next]_vars => Typed'
<1> SUFFICES ASSUME Typed, [Next]_vars PROVE Typed'
  OBVIOUS
<1>1. CASE UNCHANGED vars
  BY <1>1 DEF vars, Typed, TypeOK, Providing, Seeing
<1> QED BY <1>1, CreateTypes, DecideTypes, OtherTypes DEF Next

\* main.py, decision_repository.py: the types, and what a handler knows where.
THEOREM ConsoleTypes == Spec => []Typed
BY InitialTypes, StepTypes, PTL DEF Spec

\* Types hold for any number of requests, verdicts and slots.
THEOREM TypeCorrect == Spec => []TypeOK
BY ConsoleTypes, PTL DEF Typed

-----------------------------------------------------------------------------
(* Slots *)

Holders == {c \in Creators : creator[c].at \in Holding}

LEMMA HoldersFinite == IsFiniteSet(Holders)
BY ReviewAssumption, FS_Subset DEF Holders

LEMMA SlotsByHolders ==
    SlotsAreCounted <=> /\ inflight = Cardinality(Holders) + others
                        /\ inflight <= MaxInflight
BY DEF SlotsAreCounted, Holders

\* A handler that takes a slot is counted.
LEMMA TakesSlot ==
    ASSUME Typed, SlotsAreCounted, NEW c \in Creators, NEW p,
           creator[c].at = "new", inflight < MaxInflight, inflight' = inflight + 1,
           UNCHANGED others, Goto(c, "looking", p)
    PROVE  SlotsAreCounted'
<1>1. Holders' = Holders \cup {c} /\ c \notin Holders
  BY DEF Holders, Goto, Typed, TypeOK
<1>2. Cardinality(Holders') = Cardinality(Holders) + 1
  BY <1>1, HoldersFinite, FS_AddElement
<1>3. Cardinality(Holders) \in Nat
  BY HoldersFinite, FS_CardinalityType
<1>4. inflight \in Nat /\ others \in Nat /\ MaxInflight \in Nat
  BY ReviewAssumption DEF Typed, TypeOK
<1>5. inflight = Cardinality(Holders) + others
  BY SlotsByHolders
<1>6. inflight' = Cardinality(Holders') + others' /\ inflight' <= MaxInflight
  BY <1>2, <1>3, <1>4, <1>5
<1> QED BY <1>6 DEF SlotsAreCounted, Holders

\* A handler that ends gives its own slot back, and the count is above zero.
LEMMA GivesSlotBack ==
    ASSUME Typed, SlotsAreCounted, NEW c \in Creators, NEW place \in Ended, NEW p,
           creator[c].at \in Holding, Release, UNCHANGED others, Goto(c, place, p)
    PROVE  SlotsAreCounted'
<1>1. Holders' = Holders \ {c} /\ c \in Holders
  BY DEF Holders, Goto, Typed, TypeOK
<1>2. /\ Cardinality(Holders') = Cardinality(Holders) - 1
      /\ Cardinality(Holders') \in Nat /\ Cardinality(Holders) \in Nat
  BY <1>1, HoldersFinite, FS_RemoveElement, FS_CardinalityType
<1>3. inflight \in Nat /\ others \in Nat /\ MaxInflight \in Nat
  BY ReviewAssumption DEF Typed, TypeOK
<1>4. inflight = Cardinality(Holders) + others /\ inflight <= MaxInflight
  BY SlotsByHolders
<1>5. inflight' = Cardinality(Holders') + others' /\ inflight' <= MaxInflight
  BY <1>2, <1>3, <1>4 DEF Release
<1> QED BY <1>5 DEF SlotsAreCounted, Holders

\* A handler that goes on keeps the slot it has, and one without gets none.
LEMMA KeepsSlot ==
    ASSUME SlotsAreCounted, UNCHANGED <<inflight, others>>,
           \A c \in Creators : creator[c].at \in Holding <=> creator'[c].at \in Holding
    PROVE  SlotsAreCounted'
BY DEF SlotsAreCounted

LEMMA SlotsStep == Typed /\ SlotsAreCounted /\ [Next]_vars => SlotsAreCounted'
<1> SUFFICES ASSUME Typed, SlotsAreCounted, [Next]_vars PROVE SlotsAreCounted'
  OBVIOUS
<1>1. ASSUME NEW c \in Creators, CreateStep(c) PROVE SlotsAreCounted'
  <2>1. ASSUME NEW place, NEW p, Goto(c, place, p), UNCHANGED <<inflight, others>>,
               creator[c].at \in Holding <=> place \in Holding
        PROVE  SlotsAreCounted'
    BY <2>1, KeepsSlot DEF Goto, Typed, TypeOK
  <2>2. CASE Begin(c) BY <2>2, TakesSlot DEF Begin
  <2>3. CASE Busy(c) BY <2>3, <2>1 DEF Busy
  <2>4. CASE Reuse(c) BY <2>4, GivesSlotBack DEF Reuse
  <2>5. CASE LookFails(c) BY <2>5, GivesSlotBack DEF LookFails
  <2>6. CASE AskProvider(c) BY <2>6, <2>1 DEF AskProvider
  <2>7. CASE Imported(c) BY <2>7, <2>1 DEF Imported
  <2>8. CASE ImportFails(c) BY <2>8, <2>1, GivesSlotBack DEF ImportFails
  <2>9. CASE StoreRecord(c) BY <2>9, GivesSlotBack DEF StoreRecord
  <2>10. CASE StoreFails(c) BY <2>10, <2>1 DEF StoreFails
  <2>11. CASE FallbackFails(c) BY <2>11, GivesSlotBack DEF FallbackFails
  <2> QED BY <1>1, <2>2, <2>3, <2>4, <2>5, <2>6, <2>7, <2>8, <2>9, <2>10, <2>11 DEF CreateStep
<1>2. Cardinality(Holders) \in Nat
  BY HoldersFinite, FS_CardinalityType
<1>3. CASE OtherBegins \/ OtherEnds
  <2>1. Holders' = Holders
    BY <1>3 DEF OtherBegins, OtherEnds, Holders
  <2>2. inflight = Cardinality(Holders) + others /\ inflight <= MaxInflight
    BY SlotsByHolders
  <2>3. inflight \in Nat /\ others \in Nat /\ MaxInflight \in Nat
    BY ReviewAssumption DEF Typed, TypeOK
  <2>4. inflight' = Cardinality(Holders) + others' /\ inflight' <= MaxInflight
    BY <1>2, <1>3, <2>2, <2>3 DEF OtherBegins, OtherEnds, Release
  <2> QED BY <2>1, <2>4 DEF SlotsAreCounted, Holders
<1>4. CASE Restart
  <2>1. Holders' = {}
    BY <1>4 DEF Restart, Holders, Typed, TypeOK
  <2>2. Cardinality(Holders') = 0
    BY <2>1, FS_EmptySet
  <2> QED BY <1>4, <2>2, ReviewAssumption DEF Restart, SlotsAreCounted, Holders
<1>5. ASSUME UNCHANGED <<creator, inflight, others>> PROVE SlotsAreCounted'
  BY <1>5, KeepsSlot
<1>6. ASSUME NEW x \in Callers, DecideStep(x) PROVE SlotsAreCounted'
  BY <1>5, <1>6
  DEF DecideStep, FindReview, ReadDecision, SubmitDecision, FetchAnnotation, FetchFails,
      Save, SaveUnanswered, creation
<1>7. ASSUME NEW c \in Creators, LandImport(c) \/ Annotate(c) PROVE SlotsAreCounted'
  BY <1>5, <1>7 DEF LandImport, Annotate, creation
<1> QED BY <1>1, <1>3, <1>4, <1>5, <1>6, <1>7 DEF Next, vars

\* main.py:443-456, 496-553: whichever way creations end, and however many there
\* are, the slots counted are those of the handlers that hold one, never above
\* the limit.
THEOREM SlotsAreCountedHolds == Spec => []SlotsAreCounted
<1>1. Init => SlotsAreCounted
  <2>1. Init => Holders = {} BY DEF Init, Holders
  <2> QED BY <2>1, FS_EmptySet, ReviewAssumption DEF Init, SlotsAreCounted, Holders
<1> QED BY <1>1, SlotsStep, ConsoleTypes, PTL DEF Spec

-----------------------------------------------------------------------------
(* Tasks *)

\* A creation that has not asked Label Studio has no task there, and one that
\* is late never asks.
Asking == \A c \in Creators :
            creator[c].at \in {"new", "looking"} \/ c \in late => c \notin imports \cup tasks

\* Somebody was late, so a record had been written.
LateBehind == late # {} => Recorded

\* A record that names Label Studio names a task that was imported.
Named == \A b \in Buckets : record[b].provider = "label_studio" => record[b].by \in tasks

Answered == (\E c \in Creators : creator[c].at = "answered") => Recorded

TaskInv == Asking /\ LateBehind /\ Named /\ Answered

\* A step that leaves record and tasks alone and sends no handler anywhere.
LEMMA TaskKept ==
    ASSUME TaskInv, UNCHANGED <<imports, tasks, record, late>>,
           \A c \in Creators : creator'[c].at \in {"new", "looking"} =>
                                 creator[c].at \in {"new", "looking"},
           \A c \in Creators : creator'[c].at = "answered" =>
                                 Recorded \/ creator[c].at = "answered"
    PROVE  TaskInv'
BY DEF TaskInv, Asking, LateBehind, Named, Answered, Recorded

\* What is put into a bucket stays a record.
LEMMA PutRecords ==
    ASSUME Typed, NEW c \in Creators, creator[c].at \in {"storing", "falling_back"},
           NEW b \in Buckets, Put(c, b) \/ UNCHANGED record
    PROVE  /\ Recorded \/ Put(c, b) => Recorded'
           /\ Named /\ UNCHANGED tasks => Named'
<1>1. /\ [provider |-> creator[c].provider, by |-> c] # NoRecord
      /\ creator[c].provider = "label_studio" => c \in tasks
  BY ReviewAssumption DEF Typed, Providing, NoRecord
<1>2. DOMAIN record = Buckets
  BY DEF Typed, TypeOK
<1> QED BY <1>1, <1>2 DEF Put, Recorded, Named

LEMMA TaskCreates ==
    ASSUME Typed, TaskInv, NEW c \in Creators, CreateStep(c) PROVE TaskInv'
<1> USE DEF Goto, studio, deciding
<1>0. DOMAIN creator = Creators
  BY DEF Typed, TypeOK
<1>1. CASE Begin(c)
  BY <1>0, <1>1 DEF Begin, TaskInv, Asking, LateBehind, Named, Answered, Recorded
<1>2. CASE Busy(c) BY <1>0, <1>2, TaskKept DEF Busy
<1>3. CASE Reuse(c)
  <2>1. Recorded BY <1>3, RecordType, ReviewAssumption DEF Reuse, Readable, Recorded
  <2> QED BY <1>0, <1>3, <2>1, TaskKept DEF Reuse
<1>4. CASE LookFails(c) BY <1>0, <1>4, TaskKept DEF LookFails
<1>5. CASE AskProvider(c)
  <2>1. ~ Recorded /\ late = {}
    BY <1>5 DEF AskProvider, Missing, TaskInv, LateBehind
  <2> QED BY <1>0, <1>5, <2>1 DEF AskProvider, TaskInv, Asking, LateBehind, Named, Answered, Recorded
<1>6. CASE Imported(c) BY <1>0, <1>6, TaskKept DEF Imported
<1>7. CASE ImportFails(c) BY <1>0, <1>7, TaskKept DEF ImportFails
<1>8. CASE StoreRecord(c) \/ StoreFails(c) \/ FallbackFails(c)
  <2>1. PICK b \in Buckets : Put(c, b) \/ UNCHANGED record
    BY <1>8 DEF StoreRecord, StoreFails, FallbackFails
  <2>2. /\ creator[c].at \in {"storing", "falling_back"}
        /\ \A d \in Creators : d # c => creator'[d] = creator[d]
        /\ creator'[c].at \in {"answered", "falling_back", "refused"}
        /\ UNCHANGED <<imports, tasks, late>>
    BY <1>0, <1>8 DEF StoreRecord, StoreFails, FallbackFails
  <2>3. /\ Recorded => Recorded'
        /\ Named'
    BY <2>1, <2>2, PutRecords DEF TaskInv
  <2>4. creator'[c].at = "answered" => Recorded'
    <3>1. CASE StoreRecord(c)
      BY <2>2, <3>1, PutRecords DEF StoreRecord
    <3>2. CASE ~ StoreRecord(c)
      BY <1>0, <1>8, <3>2 DEF StoreFails, FallbackFails
    <3> QED BY <3>1, <3>2
  <2> QED BY <2>2, <2>3, <2>4 DEF TaskInv, Asking, LateBehind, Answered
<1> QED BY <1>1, <1>2, <1>3, <1>4, <1>5, <1>6, <1>7, <1>8, CreateStep(c) DEF CreateStep

LEMMA TaskStep == Typed /\ TaskInv /\ [Next]_vars => TaskInv'
<1> SUFFICES ASSUME Typed, TaskInv, [Next]_vars PROVE TaskInv'
  OBVIOUS
<1>1. ASSUME NEW c \in Creators, LandImport(c) PROVE TaskInv'
  BY <1>1 DEF LandImport, deciding, TaskInv, Asking, LateBehind, Named, Answered, Recorded
<1>2. ASSUME NEW c \in Creators, Annotate(c) PROVE TaskInv'
  BY <1>2, TaskKept DEF Annotate, creation, deciding
<1>3. ASSUME NEW x \in Callers, DecideStep(x) PROVE TaskInv'
  BY <1>3, TaskKept
  DEF DecideStep, FindReview, ReadDecision, SubmitDecision, FetchAnnotation, FetchFails,
      Save, SaveUnanswered, creation, studio
<1>4. CASE OtherBegins \/ OtherEnds
  BY <1>4, TaskKept DEF OtherBegins, OtherEnds, studio, deciding
<1>5. CASE Restart
  BY <1>5, TaskKept DEF Restart, studio
<1>6. CASE UNCHANGED vars
  BY <1>6, TaskKept DEF vars
<1> QED BY <1>1, <1>2, <1>3, <1>4, <1>5, <1>6, TaskCreates DEF Next

LEMMA TaskInvariant == Spec => []TaskInv
<1>1. Init => TaskInv
  BY ReviewAssumption DEF Init, TaskInv, Asking, LateBehind, Named, Answered, Recorded, NoRecord
<1> QED BY <1>1, TaskStep, ConsoleTypes, PTL DEF Spec

\* main.py:496-510: a retry that begins when a record exists imports nothing,
\* whatever it can read of the record.
THEOREM RetryReusesTaskHolds == Spec => []RetryReusesTask
<1>1. Typed /\ TaskInv => RetryReusesTask
  BY DEF Typed, TypeOK, TaskInv, Asking, RetryReusesTask
<1> QED BY <1>1, ConsoleTypes, TaskInvariant, PTL

\* main.py:322-340, 511-551: a task answered is on record, and if the record names
\* Label Studio the task exists there, however many creations overlap.
THEOREM AnsweredIsReviewableHolds == Spec => []AnsweredIsReviewable
<1>1. TaskInv => AnsweredIsReviewable
  BY DEF TaskInv, Named, Answered, AnsweredIsReviewable
<1> QED BY <1>1, TaskInvariant, PTL

-----------------------------------------------------------------------------
(* The promise *)

\* A step records a decision if there was none, and what anyone is told, in an
\* answer or by the artifact, is the decision that stands after it.
Keeps ==
    /\ decision' = decision \/ (decision = None /\ decision' \in Verdicts)
    /\ \A x \in Callers : told'[x] \in {told[x], decision'}
    /\ mirror' \in {mirror, decision'}
    /\ decision' = None => told' = told /\ mirror' = mirror

LEMMA DecideKeeps == ASSUME Typed, NEW x \in Callers, DecideStep(x) PROVE Keeps
<1> USE DEF creation, studio
<1>0. DOMAIN told = Callers /\ (caller[x].at = "saving" => caller[x].seen \in Verdicts)
  BY DEF Typed, TypeOK, Seeing
<1>1. CASE FindReview(x) BY <1>1 DEF FindReview, Keeps
<1>2. CASE ReadDecision(x) \/ SubmitDecision(x)
  BY <1>0, <1>2 DEF ReadDecision, SubmitDecision, Tell, Keeps, Typed, TypeOK
<1>3. CASE FetchAnnotation(x) \/ FetchFails(x) BY <1>3 DEF FetchAnnotation, FetchFails, Keeps
<1>4. CASE Save(x) \/ SaveUnanswered(x)
  <2>1. caller[x].seen \in Verdicts /\ caller[x].seen # None
    BY <1>0, <1>4, ReviewAssumption DEF Save, SaveUnanswered, Typed, Seeing
  <2>2. decision' = IF decision = None THEN caller[x].seen ELSE decision
    BY <1>4 DEF Save, SaveUnanswered
  <2>3. /\ decision' # None
        /\ decision' = decision \/ (decision = None /\ decision' \in Verdicts)
    BY <2>1, <2>2
  <2>4. /\ told' = told \/ told' = [told EXCEPT ![x] = decision']
        /\ mirror' \in {mirror, decision'}
    BY <1>4 DEF Save, SaveUnanswered, Tell
  <2> QED BY <2>3, <2>4 DEF Keeps, Typed, TypeOK
<1> QED BY <1>1, <1>2, <1>3, <1>4, DecideStep(x) DEF DecideStep

LEMMA StepKeeps == Typed /\ [Next]_vars => Keeps
<1> SUFFICES ASSUME Typed, [Next]_vars PROVE Keeps
  OBVIOUS
<1>1. ASSUME UNCHANGED <<told, decision, mirror>> PROVE Keeps
  BY <1>1 DEF Keeps
<1>2. ASSUME NEW c \in Creators, CreateStep(c) PROVE Keeps
  BY <1>1, <1>2
  DEF CreateStep, Begin, Busy, Reuse, LookFails, AskProvider, Imported, ImportFails, StoreRecord,
      StoreFails, FallbackFails, deciding
<1>3. ASSUME NEW c \in Creators, LandImport(c) \/ Annotate(c) PROVE Keeps
  BY <1>1, <1>3 DEF LandImport, Annotate, deciding
<1>4. CASE OtherBegins \/ OtherEnds \/ Restart
  BY <1>1, <1>4 DEF OtherBegins, OtherEnds, Restart, deciding
<1>5. CASE UNCHANGED vars
  BY <1>1, <1>5 DEF vars
<1> QED BY <1>2, <1>3, <1>4, <1>5, DecideKeeps DEF Next

\* What everyone was told, the artifact under the name None.
Heard == [x \in Callers \cup {None} |-> IF x = None THEN mirror ELSE told[x]]

LEMMA KeptPromise ==
    ASSUME Keeps, decision' # None, DOMAIN told = Callers, DOMAIN told' = Callers
    PROVE  Promise!TellSome
<1> DEFINE X == {x \in Callers \cup {None} : Heard'[x] # Heard[x]}
<1>1. X \in SUBSET DOMAIN Heard
  BY DEF Heard
<1>2. \A x \in Callers \cup {None} : Heard'[x] = Heard[x] \/ Heard'[x] = decision'
  BY ReviewAssumption DEF Keeps, Heard
<1>3. Heard' = [x \in DOMAIN Heard |-> IF x \in X THEN decision' ELSE Heard[x]]
  BY <1>2 DEF Heard
<1> QED BY <1>1, <1>3 DEF Promise!TellSome, Heard

LEMMA PromiseStep == Typed /\ Typed' /\ [Next]_vars => [Promise!Next]_(Promise!vars)
<1> SUFFICES ASSUME Typed, Typed', Keeps PROVE [Promise!Next]_(Promise!vars)
  BY StepKeeps
<1>1. CASE decision' = None
  BY <1>1, ReviewAssumption DEF Keeps, Promise!vars
<1>2. CASE decision' # None
  <2>1. Promise!TellSome
    BY <1>2, KeptPromise DEF Typed, TypeOK
  <2> QED BY <1>2, <2>1 DEF Keeps, Promise!Next, Promise!Record, Promise!Tell
<1> QED BY <1>1, <1>2

\* decision_repository.py:57-83, main.py:371-379, 563-655: one decision stands,
\* it is the one that every answer and the audit artifact tell, and no annotation
\* edited or decision made meanwhile replaces it.
THEOREM ConsoleImplementsPromise == Spec => ImplementsPromise
<1>1. Init => Promise!Init
  BY DEF Init, Promise!Init
<1> QED BY <1>1, PromiseStep, ConsoleTypes, PTL DEF Spec, ImplementsPromise, Promise!Spec
=============================================================================
