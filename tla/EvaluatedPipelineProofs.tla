----------------------- MODULE EvaluatedPipelineProofs -----------------------
(***************************************************************************)
(* The evaluation of a run does not change how it ends, and what it finds    *)
(* and says of itself is so, for any number of attempts and tries.          *)
(***************************************************************************)
EXTENDS EvaluatedPipeline, TLAPS

\* A step with the evaluation service is a step of the run, or none.
LEMMA StepIsPipelineStep == [ENext]_evaluated => [Next]_vars
<1>1. CASE EWorkflow
  <2>1. CASE WorkflowStep
    BY <2>1 DEF Next
  <2>2. CASE Track
    BY <2>2 DEF Track
  <2> QED
    BY <1>1, <2>1, <2>2 DEF EWorkflow
<1>2. CASE Surroundings
  BY <1>2 DEF Surroundings, Next
<1>3. CASE Evaluating
  BY <1>3 DEF Evaluating
<1>4. CASE UNCHANGED evaluated
  BY <1>4 DEF evaluated
<1> QED
  BY <1>1, <1>2, <1>3, <1>4 DEF ENext

\* workflows.py:365-387: whatever the evaluation service does, and however
\* often it is asked, a run with it is a run of DocumentPipeline, so what is
\* proved there of deliveries, outcomes and announcements holds with it.
THEOREM EvaluationIsHarmless == ESpec => Spec
<1>1. EInit => Init
  BY DEF EInit
<1> QED
  BY <1>1, StepIsPipelineStep, PTL DEF ESpec, Spec

-----------------------------------------------------------------------------
(* Bags with at most one element more *)

\* A sum of bags, as a function.
LEMMA Union == ASSUME NEW B, NEW C
  PROVE Tracking!(+)(B, C) =
          [e \in (DOMAIN B) \cup (DOMAIN C) |->
            (IF e \in DOMAIN B THEN B[e] ELSE 0) + (IF e \in DOMAIN C THEN C[e] ELSE 0)]
  BY DEF Tracking!(+)

\* A bag of one element.
LEMMA One == ASSUME NEW v PROVE /\ DOMAIN Tracking!SetToBag({v}) = {v}
                               /\ Tracking!SetToBag({v})[v] = 1
  BY DEF Tracking!SetToBag

\* Nothing is added by the empty bag.
LEMMA NothingAdded ==
    ASSUME NEW B, Tracking!IsABag(B)
    PROVE  Tracking!(+)(B, Tracking!SetToBag({})) = B
<1> DEFINE C == Tracking!SetToBag({})
<1>1. DOMAIN C = {}
  BY DEF Tracking!SetToBag
<1> HIDE DEF C
<1>2. B \in [DOMAIN B -> {n \in Nat : n > 0}]
  BY DEF Tracking!IsABag
<1>3. Tracking!(+)(B, C) = [e \in DOMAIN B |-> B[e] + 0]
  BY Union, <1>1
<1>4. [e \in DOMAIN B |-> B[e] + 0] = [e \in DOMAIN B |-> B[e]]
  BY <1>2
<1> QED
  BY <1>2, <1>3, <1>4 DEF C

\* One more of v.
LEMMA Added == ASSUME NEW B, Tracking!IsABag(B), NEW v
               PROVE /\ Tracking!IsABag(Tracking!(+)(B, Tracking!SetToBag({v})))
                     /\ DOMAIN Tracking!(+)(B, Tracking!SetToBag({v})) = DOMAIN B \cup {v}
<1> DEFINE C == Tracking!SetToBag({v})
<1>1. DOMAIN C = {v} /\ C[v] = 1
  BY One
<1> HIDE DEF C
<1>2. B \in [DOMAIN B -> {n \in Nat : n > 0}]
  BY DEF Tracking!IsABag
<1> DEFINE D == Tracking!(+)(B, C)
<1>3. D = [e \in (DOMAIN B) \cup {v} |->
             (IF e \in DOMAIN B THEN B[e] ELSE 0) + (IF e \in {v} THEN C[e] ELSE 0)]
  BY Union, <1>1
<1>4. \A e \in (DOMAIN B) \cup {v} :
        (IF e \in DOMAIN B THEN B[e] ELSE 0) + (IF e \in {v} THEN C[e] ELSE 0) \in {n \in Nat : n > 0}
  BY <1>1, <1>2
<1> HIDE DEF D
<1>5. DOMAIN D = DOMAIN B \cup {v} /\ D \in [DOMAIN D -> {n \in Nat : n > 0}]
  BY <1>3, <1>4
<1>6. Tracking!IsABag(D)
  BY <1>5 DEF Tracking!IsABag
<1> QED
  BY <1>5, <1>6 DEF C, D

\* A bag without elements is the empty one.
LEMMA NothingIsEmpty ==
    ASSUME NEW B, Tracking!IsABag(B), DOMAIN B = {}
    PROVE  B = Tracking!EmptyBag
<1>1. B \in [DOMAIN B -> {n \in Nat : n > 0}]
  BY DEF Tracking!IsABag
<1>2. B = [e \in {} |-> 1]
  BY <1>1
<1> QED
  BY <1>2 DEF Tracking!EmptyBag, Tracking!SetToBag

\* The first of v.
LEMMA AddedToNone == ASSUME NEW v
   PROVE Tracking!(+)(Tracking!EmptyBag, Tracking!SetToBag({v})) = Tracking!SetToBag({v})
<1> DEFINE C == Tracking!SetToBag({v})
           E == Tracking!EmptyBag
<1>1. DOMAIN E = {}
  BY DEF Tracking!SetToBag, Tracking!EmptyBag
<1>2. DOMAIN C = {v} /\ C[v] = 1
  BY One
<1>3. C = [e \in {v} |-> 1]
  BY DEF Tracking!SetToBag
<1> HIDE DEF C, E
<1>4. Tracking!(+)(E, C) = [e \in {v} |-> 0 + C[e]]
  BY Union, <1>1, <1>2
<1> QED
  BY <1>2, <1>3, <1>4 DEF C, E

\* How many an empty bag has, and one with one element.
LEMMA CardinalityNone == Tracking!BagCardinality(Tracking!EmptyBag) = 0
  BY DEF Tracking!BagCardinality, Tracking!EmptyBag, Tracking!SetToBag

LEMMA CardinalityOne ==
    ASSUME NEW v
    PROVE  Tracking!BagCardinality(Tracking!SetToBag({v})) = 1
<1> DEFINE C == Tracking!SetToBag({v})
           is(sum) == sum = [S \in SUBSET DOMAIN C |-> IF S = {} THEN 0
                                ELSE LET elt == CHOOSE e \in S : TRUE IN C[elt] + sum[S \ {elt}]]
           g == [S \in SUBSET {v} |-> IF S = {} THEN 0 ELSE 1]
<1>1. DOMAIN C = {v} /\ C[v] = 1
  BY One
<1>2. Tracking!BagCardinality(C) = (CHOOSE sum : is(sum))[DOMAIN C]
  BY DEF Tracking!BagCardinality
<1> HIDE DEF C
<1>3. \A S \in SUBSET {v} : S # {} => S = {v} /\ (CHOOSE e \in S : TRUE) = v
  OBVIOUS
<1>4. is(g)
  BY <1>1, <1>3
<1>5. is(CHOOSE sum : is(sum))
  <2> HIDE DEF is
  <2> QED
    BY <1>4
<1>6. \A sum : is(sum) => sum[{v}] = 1
  BY <1>1, <1>3
<1> HIDE DEF is
<1> QED
  BY <1>1, <1>2, <1>5, <1>6 DEF C
-----------------------------------------------------------------------------
(* The invariant *)

Whole == Tracking!Values
Many  == Tracking!Attempts
Busy  == {"log", "tag"}

Types ==
    /\ told \in {"none", "tracked", "untracked", "failed"}
    /\ last \in 0 .. MaxAttempts /\ heard \in BOOLEAN /\ raced \in BOOLEAN
    /\ handler \in [Many -> {"unsent", "arrived", "tracking", "judged", "over"} \cup Tracking!Buckets]
    /\ result \in [Many -> SUBSET Tracking!Providers]
    /\ thread \in [Many -> {"idle", "search", "log", "tag", "done", "failed"}]
    /\ turn \in [Many -> Tracking!Turns]
    /\ own \in [Many -> SUBSET Whole]
    /\ receipts \in [Tracking!Buckets -> SUBSET Tracking!Providers]

\* An attempt that has not asked for a slot has no thread, and one that is still
\* to come has not.
Idle ==
    \A a \in Many :
        /\ a > last => handler[a] = "unsent"
        /\ handler[a] \in {"unsent", "arrived"} => thread[a] = "idle"

\* A run in the making has its values once they are logged, and never its tags.
Making == \A a \in Many : own[a] = IF thread[a] = "tag" THEN {"values"} ELSE {}

\* A run that is made has values and tags.
Made == Tracking!IsABag(runs) /\ DOMAIN runs \subseteq {Whole}

\* What says that a run is made came after one.
Said ==
    /\ \A a \in Many : thread[a] = "done" \/ "mlflow" \in result[a] => DOMAIN runs # {}
    /\ \A b \in Tracking!Buckets : "mlflow" \in receipts[b] => DOMAIN runs # {}

\* Without a race one thread makes a run, where there is none.
Alone ==
    ~ raced =>
        /\ \A a, b \in Many : thread[a] \in Busy /\ thread[b] \in Busy => a = b
        /\ \A a \in Many : thread[a] \in Busy => runs = Tracking!EmptyBag
        /\ runs \in {Tracking!EmptyBag, Tracking!SetToBag({Whole})}

TrackInv == Types /\ Idle /\ Making /\ Made /\ Said /\ Alone

\* No run in the making has tags, so a search finds those that are made.
LEMMA TaggedIsMade == ASSUME TrackInv PROVE Tracking!Tagged = runs
<1>1. {own[a] : a \in {b \in Many : "tags" \in own[b]}} = {}
  BY DEF TrackInv, Making
<1> QED
  BY <1>1, NothingAdded DEF Tracking!Tagged, TrackInv, Made, Many

LEMMA InitTracks == ASSUME Tracking!Init PROVE TrackInv
<1>1. Types
  <2>1. last \in 0 .. MaxAttempts /\ 1 \in Tracking!Turns
    BY EvaluationAssumption DEF Tracking!Init, Tracking!Turns
  <2> QED
    BY <2>1 DEF Tracking!Init, Types, Many
<1>2. Tracking!IsABag(runs) /\ DOMAIN runs = {}
  BY DEF Tracking!Init, Tracking!IsABag, Tracking!EmptyBag, Tracking!SetToBag
<1> QED
  BY <1>1, <1>2 DEF Tracking!Init, TrackInv, Idle, Making, Made, Said, Alone, Many, Busy

-----------------------------------------------------------------------------
(* Steps that leave the runs and their threads alone *)

\* How an attempt ends for the activity.
LEMMA EndingTypes ==
    ASSUME Types, NEW a, NEW p, Tracking!Fails(a) \/ Tracking!Answers(a, p)
    PROVE  told' \in {"none", "tracked", "untracked", "failed"} /\ heard' \in BOOLEAN
  BY DEF Types, Tracking!Fails, Tracking!Answers

\* An invariant of what is left alone.
LEMMA SameRuns ==
    ASSUME TrackInv, UNCHANGED <<thread, own, runs, raced>>
    PROVE  Making' /\ Made' /\ Alone'
  BY DEF TrackInv, Making, Made, Alone

LEMMA SendTracks == ASSUME TrackInv, Tracking!Send PROVE TrackInv'
<1>1. Making' /\ Made' /\ Alone'
  BY SameRuns DEF Tracking!Send
<1>2. Types'
  <2>1. last' \in 0 .. MaxAttempts
    BY EvaluationAssumption DEF TrackInv, Types, Tracking!Send
  <2>2. handler' \in [Many -> {"unsent", "arrived", "tracking", "judged", "over"} \cup Tracking!Buckets]
    BY DEF TrackInv, Types, Tracking!Send
  <2> QED
    BY <2>1, <2>2 DEF TrackInv, Types, Tracking!Send
<1>3. Idle'
  <2>1. last \in Nat /\ last + 1 \in Many /\ last' = last + 1
    BY EvaluationAssumption DEF TrackInv, Types, Tracking!Send, Many, Tracking!Attempts
  <2>2. thread[last + 1] = "idle"
    BY <2>1 DEF TrackInv, Idle
  <2>3. handler' = [handler EXCEPT ![last + 1] = "arrived"] /\ thread' = thread
    BY DEF Tracking!Send
  <2>4. ASSUME NEW a \in Many, a > last' PROVE handler'[a] = "unsent"
    <3>1. a \in Nat /\ a > last /\ a # last + 1
      BY <2>1, <2>4 DEF Many, Tracking!Attempts
    <3> QED
      BY <2>3, <3>1 DEF TrackInv, Types, Idle
  <2>5. ASSUME NEW a \in Many, handler'[a] \in {"unsent", "arrived"} PROVE thread'[a] = "idle"
    BY <2>2, <2>3, <2>5 DEF TrackInv, Types, Idle
  <2> QED
    BY <2>4, <2>5 DEF Idle
<1>4. Said'
  BY DEF TrackInv, Said, Tracking!Send
<1> QED
  BY <1>1, <1>2, <1>3, <1>4 DEF TrackInv

LEMMA GiveUpTracks == ASSUME TrackInv, Tracking!GiveUp PROVE TrackInv'
<1>1. Making' /\ Made' /\ Alone'
  BY SameRuns DEF Tracking!GiveUp
<1>2. Types'
  BY EndingTypes DEF TrackInv, Types, Tracking!GiveUp
<1>3. Idle' /\ Said'
  BY DEF TrackInv, Idle, Said, Tracking!GiveUp
<1> QED
  BY <1>1, <1>2, <1>3 DEF TrackInv

LEMMA TimeOutTracks == ASSUME TrackInv, NEW a \in Many, Tracking!TimeOut(a) PROVE TrackInv'
<1>1. Making' /\ Made' /\ Alone'
  BY SameRuns DEF Tracking!TimeOut
<1>2. Types'
  BY EndingTypes DEF TrackInv, Types, Tracking!TimeOut
<1>3. Idle' /\ Said'
  BY DEF TrackInv, Types, Idle, Said, Tracking!TimeOut
<1> QED
  BY <1>1, <1>2, <1>3 DEF TrackInv

LEMMA PersistTracks == ASSUME TrackInv, NEW a \in Many, Tracking!Persist(a) PROVE TrackInv'
<1>1. Making' /\ Made' /\ Alone'
  BY SameRuns DEF Tracking!Persist
<1>2. Types'
  BY EndingTypes DEF TrackInv, Types, Tracking!Persist, Tracking!Buckets
<1>3. Idle'
  BY DEF TrackInv, Types, Idle, Tracking!Persist, Tracking!Buckets
<1>4. Said'
  BY DEF TrackInv, Types, Said, Tracking!Persist
<1> QED
  BY <1>1, <1>2, <1>3, <1>4 DEF TrackInv

LEMMA CompleteTracks == ASSUME TrackInv, NEW a \in Many, Tracking!Complete(a) PROVE TrackInv'
<1>1. Making' /\ Made' /\ Alone'
  BY SameRuns DEF Tracking!Complete
<1>2. Types'
  BY EndingTypes DEF TrackInv, Types, Tracking!Complete
<1>3. Idle'
  BY DEF TrackInv, Types, Idle, Tracking!Complete, Tracking!Buckets
<1>4. Said'
  BY DEF TrackInv, Types, Said, Tracking!Complete
<1> QED
  BY <1>1, <1>2, <1>3, <1>4 DEF TrackInv

-----------------------------------------------------------------------------
(* Steps of the threads *)

LEMMA CheckTracks == ASSUME TrackInv, NEW a \in Many, Tracking!Check(a) PROVE TrackInv'
<1>1. /\ UNCHANGED <<last, result, turn, own, runs, raced, receipts>>
      /\ handler[a] = "arrived"
      /\ \/ handler' = [handler EXCEPT ![a] = "over"] /\ thread' = thread
         \/ /\ handler' = [handler EXCEPT ![a] = "tracking"]
            /\ thread' = [thread EXCEPT ![a] = "search"]
  BY DEF Tracking!Check
<1>2. told' \in {"none", "tracked", "untracked", "failed"} /\ heard' \in BOOLEAN
  <2>1. \/ \E seen \in Tracking!Seen \ {{}} : Tracking!Answers(a, seen)
        \/ Tracking!Fails(a) \/ UNCHANGED <<heard, told>>
    BY DEF Tracking!Check
  <2> QED
    BY <2>1, EndingTypes DEF TrackInv, Types
<1>3. Types'
  BY <1>1, <1>2 DEF TrackInv, Types
<1>4. Idle'
  BY <1>1 DEF TrackInv, Types, Idle
<1>5. thread[a] = "idle"
  BY <1>1 DEF TrackInv, Idle
<1>6. Making'
  BY <1>1, <1>5 DEF TrackInv, Types, Making
<1>7. Made' /\ Said'
  BY <1>1 DEF TrackInv, Types, Made, Said
<1>8. Alone'
  BY <1>1 DEF TrackInv, Types, Alone, Busy
<1> QED
  BY <1>3, <1>4, <1>6, <1>7, <1>8 DEF TrackInv

LEMMA GatherTracks == ASSUME TrackInv, NEW a \in Many, Tracking!Gather(a) PROVE TrackInv'
<1>1. PICK stored \in Tracking!ArtifactResults :
        result' = [result EXCEPT ![a] = stored \cup (IF thread[a] = "done" THEN {"mlflow"} ELSE {})]
  BY DEF Tracking!Gather
<1>2. /\ UNCHANGED <<told, last, heard, own, runs, raced, receipts>>
      /\ handler[a] = "tracking" /\ thread[a] \in {"done", "failed"}
      /\ handler' = [handler EXCEPT ![a] = "judged"]
      /\ thread' = [thread EXCEPT ![a] = "idle"]
      /\ turn' = [turn EXCEPT ![a] = 1]
  BY DEF Tracking!Gather
<1>3. stored \in SUBSET Tracking!Providers /\ "mlflow" \notin stored
  BY <1>1 DEF Tracking!ArtifactResults, Tracking!Providers
<1>4. "mlflow" \in Tracking!Providers
  BY DEF Tracking!Providers
<1>5. result' \in [Many -> SUBSET Tracking!Providers]
  BY <1>1, <1>3, <1>4 DEF TrackInv, Types
<1>6. 1 \in Tracking!Turns
  BY EvaluationAssumption DEF Tracking!Turns
<1>7. Types'
  BY <1>2, <1>5, <1>6 DEF TrackInv, Types
<1>8. Idle'
  BY <1>2 DEF TrackInv, Types, Idle
<1>9. Making'
  BY <1>2 DEF TrackInv, Types, Making
<1>10. \A b \in Many : "mlflow" \in result'[b] => "mlflow" \in result[b] \/ thread[b] = "done"
  BY <1>1, <1>3 DEF TrackInv, Types
<1>11. Made' /\ Said'
  BY <1>2, <1>10 DEF TrackInv, Types, Made, Said
<1>12. Alone'
  BY <1>2 DEF TrackInv, Types, Alone, Busy
<1> QED
  BY <1>7, <1>8, <1>9, <1>11, <1>12 DEF TrackInv

LEMMA SearchTracks == ASSUME TrackInv, NEW a \in Many, Tracking!Search(a) PROVE TrackInv'
<1>1. /\ UNCHANGED <<told, last, heard, handler, result, turn, own, runs, receipts>>
      /\ thread[a] = "search"
      /\ thread' = [thread EXCEPT ![a] = IF runs # Tracking!EmptyBag THEN "done" ELSE "log"]
      /\ raced' = (raced \/ (runs = Tracking!EmptyBag
                             /\ \E b \in Many \ {a} : thread[b] \in {"log", "tag"}))
  BY TaggedIsMade DEF Tracking!Search, Many
<1>2. Types'
  BY <1>1 DEF TrackInv, Types
<1>3. Idle' /\ Making'
  BY <1>1 DEF TrackInv, Types, Idle, Making
<1>4. runs # Tracking!EmptyBag => DOMAIN runs # {}
  BY NothingIsEmpty DEF TrackInv, Made
<1>5. Made' /\ Said'
  BY <1>1, <1>4 DEF TrackInv, Types, Made, Said
<1>6. Alone'
  BY <1>1 DEF TrackInv, Types, Alone, Busy
<1> QED
  BY <1>2, <1>3, <1>5, <1>6 DEF TrackInv

\* A run that is given its tags is made.
More == Tracking!(+)(runs, Tracking!SetToBag({Whole}))

\* Where the step of a thread leads.
Moves(a) ==
    /\ UNCHANGED <<told, last, heard, handler, result, raced, receipts>>
    /\ thread[a] \in {"search", "log", "tag"}
    /\ turn' \in [Many -> Tracking!Turns]
    /\ \E place \in {"search", "tag", "done", "failed"} :
         /\ thread' = [thread EXCEPT ![a] = place]
         /\ own' = [own EXCEPT ![a] = IF place = "tag" THEN {"values"} ELSE {}]
         /\ place = "tag" => thread[a] = "log"
         /\ place = "done" => thread[a] = "tag" /\ runs' = More
    /\ runs' = runs \/ (thread[a] = "tag" /\ runs' = More)

LEMMA MovesTracks == ASSUME TrackInv, NEW a \in Many, Moves(a) PROVE TrackInv'
<1>1. PICK place \in {"search", "tag", "done", "failed"} :
         /\ thread' = [thread EXCEPT ![a] = place]
         /\ own' = [own EXCEPT ![a] = IF place = "tag" THEN {"values"} ELSE {}]
         /\ place = "tag" => thread[a] = "log"
         /\ place = "done" => thread[a] = "tag" /\ runs' = More
  BY DEF Moves
<1>2. /\ UNCHANGED <<told, last, heard, handler, result, raced, receipts>>
      /\ turn' \in [Many -> Tracking!Turns]
      /\ thread[a] \in {"search", "log", "tag"}
      /\ runs' = runs \/ (thread[a] = "tag" /\ runs' = More)
  BY DEF Moves
<1>3. Types'
  <2>1. {"values"} \in SUBSET Whole
    BY DEF Whole, Tracking!Values
  <2> QED
    BY <1>1, <1>2, <2>1 DEF TrackInv, Types
<1>4. Idle' /\ Making'
  BY <1>1, <1>2 DEF TrackInv, Types, Idle, Making
<1>5. Tracking!IsABag(More) /\ DOMAIN More = DOMAIN runs \cup {Whole}
  BY Added DEF TrackInv, Made, More
<1>6. Made'
  BY <1>2, <1>5 DEF TrackInv, Made
<1>7. DOMAIN runs \subseteq DOMAIN runs' /\ (place = "done" => DOMAIN runs' # {})
  BY <1>1, <1>2, <1>5
<1>8. Said'
  BY <1>1, <1>2, <1>7 DEF TrackInv, Types, Said
<1>9. Alone'
  <2> SUFFICES ASSUME ~ raced PROVE Alone'
    BY <1>2 DEF Alone
  <2>1. /\ \A b, c \in Many : thread[b] \in Busy /\ thread[c] \in Busy => b = c
        /\ \A b \in Many : thread[b] \in Busy => runs = Tracking!EmptyBag
        /\ runs \in {Tracking!EmptyBag, Tracking!SetToBag({Whole})}
    BY DEF TrackInv, Alone
  <2>2. \A b \in Many : thread'[b] \in Busy => thread[b] \in Busy
    BY <1>1, <1>2 DEF TrackInv, Types, Busy
  <2>3. CASE runs' = runs
    BY <2>1, <2>2, <2>3 DEF Alone
  <2>4. CASE thread[a] = "tag" /\ runs' = More
    <3>1. runs = Tracking!EmptyBag
      BY <2>1, <2>4 DEF Busy
    <3>2. runs' = Tracking!SetToBag({Whole})
      BY <2>4, <3>1, AddedToNone DEF More
    <3>3. place # "tag"
      BY <1>1, <2>4
    <3>4. thread'[a] \notin Busy
      BY <1>1, <3>3 DEF TrackInv, Types, Busy
    <3>5. \A b \in Many : thread'[b] \notin Busy
      BY <2>1, <2>2, <2>4, <3>4 DEF Busy
    <3> QED
      BY <3>2, <3>5 DEF Alone
  <2> QED
    BY <1>2, <2>3, <2>4
<1> QED
  BY <1>3, <1>4, <1>6, <1>8, <1>9 DEF TrackInv

\* What is left of a run in the making: nothing without its tags.
LEMMA Leaving ==
    ASSUME TrackInv, NEW a \in Many, NEW left, Tracking!Leave(a, left)
    PROVE  /\ own' = [own EXCEPT ![a] = {}]
           /\ "tags" \notin left => runs' = runs
           /\ left = Whole => runs' = More
  BY DEF Tracking!Leave, More, Whole, Tracking!Values

LEMMA GivenIs ==
    ASSUME TrackInv, NEW a \in Many
    PROVE  /\ "tags" \notin own[a]
           /\ thread[a] = "log" => own[a] \cup {Tracking!Given(thread[a])} = {"values"}
           /\ thread[a] = "tag" => own[a] \cup {Tracking!Given(thread[a])} = Whole
  BY DEF TrackInv, Making, Tracking!Given, Whole, Tracking!Values

LEMMA LogTracks == ASSUME TrackInv, NEW a \in Many, Tracking!Log(a) PROVE TrackInv'
<1>1. /\ UNCHANGED <<told, last, heard, handler, result, turn, raced, receipts>>
      /\ thread[a] \in {"log", "tag"}
  BY DEF Tracking!Log
<1>2. CASE thread[a] = "log"
  <2>1. /\ thread' = [thread EXCEPT ![a] = "tag"]
        /\ own' = [own EXCEPT ![a] = {"values"}] /\ runs' = runs
    BY <1>2, GivenIs DEF Tracking!Log
  <2> QED
    BY <1>1, <1>2, <2>1, MovesTracks DEF Moves, TrackInv, Types
<1>3. CASE thread[a] = "tag"
  <2>1. /\ thread' = [thread EXCEPT ![a] = "done"]
        /\ Tracking!Leave(a, own[a] \cup {Tracking!Given(thread[a])})
    BY <1>3 DEF Tracking!Log
  <2>2. own' = [own EXCEPT ![a] = {}] /\ runs' = More
    BY <1>3, <2>1, GivenIs, Leaving
  <2> QED
    BY <1>1, <1>3, <2>1, <2>2, MovesTracks DEF Moves, TrackInv, Types
<1> QED
  BY <1>1, <1>2, <1>3

LEMMA TripsTracks == ASSUME TrackInv, NEW a \in Many, Tracking!Trips(a) PROVE TrackInv'
<1>1. /\ UNCHANGED <<told, last, heard, handler, result, raced, receipts>>
      /\ thread[a] \in {"search", "log", "tag"}
  BY DEF Tracking!Trips
<1>2. own' = [own EXCEPT ![a] = {}] /\ (runs' = runs \/ (thread[a] = "tag" /\ runs' = More))
  <2>1. CASE Tracking!Leave(a, own[a])
    BY <2>1, GivenIs, Leaving
  <2>2. CASE thread[a] # "search" /\ Tracking!Leave(a, own[a] \cup {Tracking!Given(thread[a])})
    BY <1>1, <2>2, GivenIs, Leaving
  <2> QED
    BY <2>1, <2>2 DEF Tracking!Trips
<1>3. /\ \E place \in {"search", "failed"} : thread' = [thread EXCEPT ![a] = place]
      /\ turn' \in [Many -> Tracking!Turns]
  BY EvaluationAssumption DEF Tracking!Trips, TrackInv, Types, Tracking!Turns
<1> QED
  BY <1>1, <1>2, <1>3, MovesTracks DEF Moves

LEMMA RestartTracks == ASSUME TrackInv, Tracking!Restart PROVE TrackInv'
<1>1. /\ UNCHANGED <<last, result, turn, raced, receipts>>
      /\ handler' = [a \in Many |-> IF handler[a] = "unsent" THEN "unsent" ELSE "over"]
      /\ thread' = [a \in Many |-> "idle"]
      /\ own' = [a \in Many |-> {}]
      /\ runs' = runs
  BY TaggedIsMade DEF Tracking!Restart, Many
<1>2. told' \in {"none", "tracked", "untracked", "failed"} /\ heard' \in BOOLEAN
  BY EndingTypes DEF Tracking!Restart, TrackInv
<1>3. Types'
  BY <1>1, <1>2 DEF TrackInv, Types
<1>4. Idle' /\ Making' /\ Made' /\ Said'
  BY <1>1 DEF TrackInv, Types, Idle, Making, Made, Said
<1>5. Alone'
  BY <1>1 DEF TrackInv, Types, Alone, Busy
<1> QED
  BY <1>3, <1>4, <1>5 DEF TrackInv

-----------------------------------------------------------------------------
(* Every step *)

LEMMA ServiceTracks == ASSUME TrackInv, Tracking!Service PROVE TrackInv'
<1>1. CASE \E a \in Many : Tracking!Attempt(a)
  <2>1. PICK a \in Many : Tracking!Attempt(a)
    BY <1>1
  <2> QED
    BY <2>1, SearchTracks, LogTracks, TripsTracks, CheckTracks, TimeOutTracks, GatherTracks,
       PersistTracks, CompleteTracks DEF Tracking!Attempt
<1> QED
  BY <1>1, GiveUpTracks, RestartTracks DEF Tracking!Service, Many

LEMMA StepTracks == TrackInv /\ [ENext]_evaluated => TrackInv'
<1> SUFFICES ASSUME TrackInv, [ENext]_evaluated PROVE TrackInv'
  OBVIOUS
<1>1. CASE UNCHANGED evaluation
  BY <1>1 DEF evaluation, TrackInv, Types, Idle, Making, Made, Said, Alone
<1>2. CASE Tracking!Send
  BY <1>2, SendTracks
<1>3. CASE Tracking!Service
  BY <1>3, ServiceTracks
<1> QED
  BY <1>1, <1>2, <1>3 DEF ENext, EWorkflow, Track, Surroundings, Evaluating, evaluated

\* The invariant says what the evaluation service promises.
LEMMA InvariantTracks == TrackInv => TrackedIsTrue
<1> SUFFICES ASSUME TrackInv PROVE TrackedIsTrue
  OBVIOUS
<1>1. Tracking!TypeOK
  <2>1. Whole \in SUBSET Tracking!Values
    BY DEF Whole
  <2> QED
    BY <2>1 DEF TrackInv, Types, Made, Tracking!TypeOK, Tracking!BagToSet, Many, Whole
<1>2. Tracking!BagToSet(runs) \subseteq {Tracking!Values}
  BY DEF TrackInv, Made, Tracking!BagToSet, Whole
<1>3. (\E b \in Tracking!Buckets : "mlflow" \in receipts[b]) => runs # Tracking!EmptyBag
  <2>1. DOMAIN Tracking!EmptyBag = {}
    BY DEF Tracking!EmptyBag, Tracking!SetToBag
  <2> QED
    BY <2>1 DEF TrackInv, Said
<1>4. Tracking!BagCardinality(runs) > 1 => raced
  <2> SUFFICES ASSUME ~ raced PROVE Tracking!BagCardinality(runs) \in {0, 1}
    OBVIOUS
  <2> QED
    BY CardinalityNone, CardinalityOne DEF TrackInv, Alone
<1> QED
  BY <1>1, <1>2, <1>3, <1>4, TaggedIsMade DEF TrackedIsTrue, Tracking!TrackedIsTrue

\* evaluation_service/app/providers.py:60-82: however many attempts and tries of
\* them fail half-way, at once or after a restart, a run that a search finds has
\* all its values, a receipt that names MLflow has such a run behind it, and there
\* is one unless two threads searched at once.
THEOREM TrackedIsTrueHolds == ESpec => []TrackedIsTrue
<1>1. EInit => TrackInv
  BY InitTracks DEF EInit
<1> QED
  BY <1>1, StepTracks, InvariantTracks, PTL DEF ESpec
=============================================================================
