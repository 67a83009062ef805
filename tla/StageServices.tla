--------------------------- MODULE StageServices ---------------------------
(***************************************************************************)
(* One document on its way through the processing services, from            *)
(* preprocessing to validation and, if a person has to look at it, to the    *)
(* validation of what the person corrected.                                 *)
(*                                                                         *)
(* Every service admits a request into one of its slots, runs it on a pool   *)
(* thread and waits for the thread with a timeout that does not stop it.     *)
(* The workflow, for its part, may lose the answer.  In both cases it asks   *)
(* again, and the first request goes on beside the second: it keeps its slot *)
(* as long as its thread runs, and writes its artifact under the same key.   *)
(*                                                                         *)
(* A request names all the pages of the document.  What is abstracted of a   *)
(* document is in StageRules; DocumentPipeline has the control flow of the   *)
(* workflow, with its waits and endings.                                    *)
(***************************************************************************)
EXTENDS StageRules

CONSTANTS
    Documents,    \* the documents that may come
    LlmAnswers,   \* what the model may answer for one
    Calls,        \* bound: the requests alive at once
    MaxTries,     \* attempts of a stage (maximum_attempts of the retry policy)
    MaxInflight,  \* the slots of each service
    MaxFaults     \* bound: what goes wrong around the program's own decisions

VARIABLES
    doc,       \* the document
    stage,     \* where the workflow is: what it asks for, or how it ended
    tries,     \* failed attempts of that stage
    answer,    \* the answer to each stage, once it came
    calls,     \* the requests alive
    inflight,  \* the slots taken in each service
    engine,    \* the OCR engine of the running process: "ready" or "broken"
    model,     \* the layout model: "unset" until a page needs it
    store,     \* the artifacts in the object store
    faults     \* how often something went wrong

workflow == <<stage, tries, answer>>
vars == <<doc, workflow, calls, inflight, engine, model, store, faults>>

Services == {"preprocess", "ocr", "layout", "classify", "extract", "validate"}
Stages   == Services \cup {"revalidate"}
Ends     == {"delivered", "rejected", "review_failed", "failed"}
Keys     == ({"ocr", "layout"} \X {"main"})
              \cup ({"extraction", "validation", "review"} \X {"main", "spare"})

\* A reading is at most perfect; a service has a number of slots.
ASSUME ServicesAssumption ==
    /\ IsFiniteSet(Calls)
    /\ MaxTries \in Nat \ {0} /\ MaxFaults \in Nat
    /\ MaxInflight \in [Services -> Nat]
    /\ Full \in Nat \ {0} /\ Enough \in Nat \ {0}
    /\ \A d \in Documents : d.primary \in 0 .. Full /\ d.secondary \in 0 .. Full

ServiceOf(s) == IF s = "revalidate" THEN "validate" ELSE s

Free == [stage |-> "none", phase |-> "free", heard |-> FALSE, waits |-> FALSE, val |-> {}]

\* What a thread or a handler comes to: a result, an error the workflow
\* retries, or one it does not.
Done(x) == [ok |-> TRUE,  retry |-> FALSE, out |-> {x}]
Again   == [ok |-> FALSE, retry |-> TRUE,  out |-> {}]
Refused == [ok |-> FALSE, retry |-> FALSE, out |-> {}]

Init ==
    /\ doc \in Documents
    /\ stage = "preprocess" /\ tries = 0
    /\ answer = [s \in Stages \cup {"review"} |-> {}]
    /\ calls = [c \in Calls |-> Free]
    /\ inflight = [s \in Services |-> 0]
    /\ engine \in Engines /\ model = "unset"
    /\ store = [k \in Keys |-> {}]
    /\ faults = 0

Spend(n) == faults + n <= MaxFaults /\ faults' = faults + n

-----------------------------------------------------------------------------
(* The workflow *)

After(s, out) ==
    CASE s = "preprocess" -> "ocr"
      [] s = "ocr"        -> "layout"
      [] s = "layout"     -> "classify"
      [] s = "classify"   -> "extract"
      [] s = "extract"    -> "validate"
      [] s = "validate"   -> IF out.verdict = "auto_approved" THEN "delivered" ELSE "review"
      [] s = "revalidate" -> IF out.verdict = "human_approved" THEN "delivered" ELSE "review_failed"

\* Mutant: the last attempt is counted one too late.
SettleOnceMore(o) ==
    IF o.ok
    THEN /\ answer' = [answer EXCEPT ![stage] = o.out]
         /\ stage' = After(stage, The(o.out))
         /\ tries' = 0
    ELSE /\ UNCHANGED answer
         /\ IF o.retry /\ tries + 1 <= MaxTries
            THEN tries' = tries + 1 /\ UNCHANGED stage
            ELSE tries' = 0 /\ stage' = "failed"

\* The workflow takes the outcome of a request it was waiting for.
Settle(o) ==
    IF o.ok
    THEN /\ answer' = [answer EXCEPT ![stage] = o.out]
         /\ stage' = After(stage, The(o.out))
         /\ tries' = 0
    ELSE /\ UNCHANGED answer
         /\ IF o.retry /\ tries + 1 < MaxTries
            THEN tries' = tries + 1 /\ UNCHANGED stage
            ELSE tries' = 0 /\ stage' = "failed"

\* Call c answers o and is over.
Return(c, o) ==
    /\ calls' = [calls EXCEPT ![c] = Free]
    /\ IF calls[c].heard THEN Settle(o) ELSE UNCHANGED workflow

\* The answer is lost, or the activity that waits for it; the service does
\* not notice.
GiveUp(c) ==
    /\ calls[c].heard /\ Spend(1)
    /\ Settle(Again)
    /\ calls' = [calls EXCEPT ![c].heard = FALSE]
    /\ UNCHANGED <<doc, inflight, engine, model, store>>

\* A person rejects the document, or approves its fields as they are or with
\* all of them filled in.
Review ==
    /\ stage = "review"
    /\ LET e == The(answer["extract"]) IN
       \/ stage' = "rejected" /\ UNCHANGED answer
       \/ /\ stage' = "revalidate"
          /\ \E r \in {[fields |-> e.fields, odd |-> e.odd],
                       [fields |-> Schema[e.route], odd |-> {}]} :
               answer' = [answer EXCEPT !["review"] = {r}]
    /\ UNCHANGED <<doc, tries, calls, inflight, engine, model, store, faults>>

-----------------------------------------------------------------------------
(* Slots and threads *)

Busy(s) == inflight[s] >= MaxInflight[s]
Taken(s) == [inflight EXCEPT ![s] = @ + 1]
Released(s) == [inflight EXCEPT ![s] = IF @ > 0 THEN @ - 1 ELSE 0]

\* The workflow asks for its stage; a service without a free slot says so.
Call(c) ==
    /\ stage \in Stages
    /\ \A d \in Calls : ~calls[d].heard
    /\ calls[c] = Free
    /\ LET s == ServiceOf(stage) IN
       \/ /\ Busy(s)
          /\ Settle(Again)
          /\ UNCHANGED <<calls, inflight>>
       \/ /\ ~Busy(s)
          /\ calls' = [calls EXCEPT ![c] =
                 [stage |-> stage, phase |-> "queued", heard |-> TRUE, waits |-> TRUE, val |-> {}]]
          /\ inflight' = Taken(s)
          /\ UNCHANGED workflow
    /\ UNCHANGED <<doc, engine, model, store, faults>>

\* Mutant: a request that is no longer waited for gives its slot back at once.
TimeOutAndRelease(c) ==
    /\ calls[c].waits /\ calls[c].phase \in {"queued", "running"} /\ Spend(1)
    /\ inflight' = Released(ServiceOf(calls[c].stage))
    /\ calls' = [calls EXCEPT ![c].waits = FALSE, ![c].heard = FALSE]
    /\ IF calls[c].heard THEN Settle(Again) ELSE UNCHANGED workflow
    /\ UNCHANGED <<doc, engine, model, store>>

\* The handler's wait ends before the thread does.  OCR shields its thread;
\* elsewhere a thread that has not begun never will, and gives its slot back.
TimeOut(c) ==
    /\ calls[c].waits /\ calls[c].phase \in {"queued", "running"} /\ Spend(1)
    /\ IF calls[c].phase = "queued" /\ calls[c].stage # "ocr"
       THEN /\ inflight' = Released(ServiceOf(calls[c].stage))
            /\ calls' = [calls EXCEPT ![c] = Free]
       ELSE /\ calls' = [calls EXCEPT ![c].waits = FALSE, ![c].heard = FALSE]
            /\ UNCHANGED inflight
    /\ IF calls[c].heard THEN Settle(Again) ELSE UNCHANGED workflow
    /\ UNCHANGED <<doc, engine, model, store>>

\* A service stops with everything it had in hand, and starts again.
Restart(s) ==
    LET hit == {c \in Calls : ServiceOf(calls[c].stage) = s} IN
    /\ hit # {} /\ Spend(1)
    /\ calls' = [c \in Calls |-> IF c \in hit THEN Free ELSE calls[c]]
    /\ inflight' = [inflight EXCEPT ![s] = 0]
    /\ IF \E c \in hit : calls[c].heard THEN Settle(Again) ELSE UNCHANGED workflow
    /\ engine' \in IF s = "ocr" THEN Engines ELSE {engine}
    /\ model' = IF s = "layout" THEN "unset" ELSE model
    /\ UNCHANGED <<doc, store>>

-----------------------------------------------------------------------------
(* What a thread reads and computes; a download or an upload may fail *)

PreprocessWork == IF Admitted(doc) THEN {Done(Len(doc.pixels)), Again} ELSE {Refused, Again}

OcrOutcome(r) ==
    CASE r.reason = ""          -> Done(r.read)
      [] r.reason \in Permanent -> Refused
      [] OTHER                  -> Again

OcrWork ==
    {OcrOutcome(ReadPages(doc, engine, f, g)) :
        f \in {"none", "download", "garbled", "execution"}, g \in {"none", "garbled", "any"}}

LayoutWork(m) == {Done(Layout(doc, The(store[<<"ocr", "main">>]), m)), Again}

RouteWork == {Done(Classify(doc, The(store[<<"ocr", "main">>]))), Again}

\* The text for extraction; OCR's confidence comes with the request.
ContextWork ==
    LET ocr == The(store[<<"ocr", "main">>])
        ctx == Context(ocr, The(store[<<"layout", "main">>]))
        cnf == The(answer["ocr"]).conf
    IN  {Done([ctx |-> ctx, fallback |-> ocr.fallback,
               conf |-> IF cnf > 0 THEN cnf ELSE ocr.conf]), Again}

\* The judged request: the stored extraction, or the request's own fields if
\* it cannot be loaded or if a person has approved them.
Request(e, fields, odd, human) ==
    [fields |-> fields, odd |-> odd, conf |-> e.conf, vlm |-> e.vlm, sure |-> e.conf,
     route |-> "none", human |-> human]
Stored(a) ==
    [fields |-> a.fields, odd |-> a.odd, conf |-> a.conf, vlm |-> a.vlm, sure |-> a.sure,
     route |-> a.route, human |-> FALSE]
Verdict(p, loaded) ==
    LET j == Judge(p) IN
    Done([verdict |-> j.verdict, route |-> j.route, fields |-> p.fields, loaded |-> loaded])

ValidateWork(s) ==
    LET e == The(answer["extract"])
        r == The(answer["review"])
        loaded == store[<<"extraction", e.bucket>>]
    IN  IF s = "revalidate"
        THEN {Verdict(Request(e, r.fields, r.odd, TRUE), FALSE), Again}
        ELSE {Verdict(Request(e, e.fields, e.odd, FALSE), FALSE), Again}
               \cup {Verdict(Stored(a), TRUE) : a \in loaded}

Work(s, m) ==
    CASE s = "preprocess" -> PreprocessWork
      [] s = "ocr"        -> OcrWork
      [] s = "layout"     -> LayoutWork(m)
      [] s = "classify"   -> RouteWork
      [] s = "extract"    -> ContextWork
      [] OTHER            -> ValidateWork(s)

\* A thread begins: it reads its inputs.  The first page starts the layout
\* model, for better or for worse.
Begin(c) ==
    /\ calls[c].phase = "queued"
    /\ model' \in IF calls[c].stage = "layout" /\ model = "unset"
                  THEN {"ready", "broken"} ELSE {model}
    /\ \E o \in Work(calls[c].stage, model') :
         /\ calls' = [calls EXCEPT ![c].phase = "running", ![c].val = {o}]
         /\ Spend(IF o = Again THEN 1 ELSE 0)
    /\ UNCHANGED <<doc, workflow, inflight, engine, store>>

-----------------------------------------------------------------------------
(* The end of a request *)

\* Mutant: one key for the verdict of the rules and for that of a person.
TargetShared(s) ==
    CASE s = "layout" -> {<<"layout", "main">>}
      [] s \in {"validate", "revalidate"} -> {"review"} \X {"main", "spare"}
      [] OTHER -> {}

\* Where the thread writes its result itself, whoever still waits for it.
Target(s) ==
    CASE s = "layout"     -> {<<"layout", "main">>}
      [] s = "validate"   -> {"validation"} \X {"main", "spare"}
      [] s = "revalidate" -> {"review"} \X {"main", "spare"}
      [] OTHER            -> {}

Answered(s, x, k) ==
    IF s \in {"validate", "revalidate"}
    THEN [verdict |-> x.verdict, route |-> x.route, loaded |-> x.loaded,
          fields |-> x.fields, bucket |-> k[2]]
    ELSE x

Finish(c) ==
    LET s == calls[c].stage
        o == The(calls[c].val)
    IN  /\ calls[c].phase = "running"
        /\ inflight' = Released(ServiceOf(s))
        /\ IF s \in {"ocr", "extract"} /\ o.ok /\ calls[c].waits
           THEN /\ calls' = [calls EXCEPT ![c].phase = "handling"]
                /\ UNCHANGED <<workflow, store, faults>>
           ELSE IF Target(s) = {} \/ ~o.ok
           THEN /\ Return(c, o)
                /\ UNCHANGED <<store, faults>>
           ELSE \E k \in Target(s) :
                  LET x == Answered(s, The(o.out), k) IN
                  /\ store' = [store EXCEPT ![k] = {x}]
                  /\ Return(c, Done(x))
                  /\ Spend(IF k[2] = "spare" THEN 1 ELSE 0)
        /\ UNCHANGED <<doc, engine, model>>

\* The OCR handler stores what its thread read.
StoreOcr(c) ==
    /\ calls[c].phase = "handling" /\ calls[c].stage = "ocr"
    /\ LET o == The(calls[c].val) IN
       \/ /\ store' = [store EXCEPT ![<<"ocr", "main">>] = o.out]
          /\ Return(c, o)
          /\ UNCHANGED faults
       \/ Return(c, Again) /\ Spend(1) /\ UNCHANGED store
    /\ UNCHANGED <<doc, inflight, engine, model>>

\* The extraction handler applies the rules and, where it may, asks the model.
Extract(c) ==
    /\ calls[c].phase = "handling" /\ calls[c].stage = "extract"
    /\ LET x == The(The(calls[c].val).out)
           route == The(answer["classify"])
           rules == Fill(x.conf, Cardinality(Found(route, x.ctx.text)), x.ctx.used)
       IN  \E vlm \in VlmAnswers(AsksVlm(route, rules, x.fallback), LlmAnswers) :
             calls' = [calls EXCEPT ![c].phase = "storing",
                           ![c].val = {Done(Extraction(doc, route, x.ctx, x.conf, vlm))}]
    /\ UNCHANGED <<doc, workflow, inflight, engine, model, store, faults>>

\* It stores the result, in the layout's bucket if its own refuses it.
StoreExtraction(c) ==
    /\ calls[c].phase = "storing"
    /\ LET x == The(The(calls[c].val).out) IN
       \/ \E b \in {"main", "spare"} :
            /\ store' = [store EXCEPT ![<<"extraction", b>>] = {x}]
            /\ Return(c, Done([fields |-> x.fields, odd |-> x.odd, conf |-> x.conf,
                               vlm |-> x.vlm, route |-> x.route, bucket |-> b]))
            /\ Spend(IF b = "spare" THEN 1 ELSE 0)
       \/ Return(c, Again) /\ Spend(1) /\ UNCHANGED store
    /\ UNCHANGED <<doc, inflight, engine, model>>

CallStep(c) ==
    \/ Call(c) \/ GiveUp(c) \/ TimeOut(c)
    \/ Begin(c) \/ Finish(c) \/ StoreOcr(c) \/ Extract(c) \/ StoreExtraction(c)

Next ==
    \/ \E c \in Calls : CallStep(c)
    \/ \E s \in Services : Restart(s)
    \/ Review

Spec == Init /\ [][Next]_vars

-----------------------------------------------------------------------------
(* Properties *)

Holds(c, s) == calls[c].phase \in {"queued", "running"} /\ ServiceOf(calls[c].stage) = s

TypeOK ==
    /\ doc \in Documents
    /\ stage \in Stages \cup Ends \cup {"review"}
    /\ tries \in 0..MaxTries - 1
    /\ DOMAIN answer = Stages \cup {"review"} /\ DOMAIN store = Keys
    /\ \A s \in DOMAIN answer : Cardinality(answer[s]) <= 1
    /\ \A k \in Keys : Cardinality(store[k]) <= 1
    /\ \A c \in Calls :
         /\ calls[c].stage \in Stages \cup {"none"}
         /\ calls[c].phase \in {"free", "queued", "running", "handling", "storing"}
         /\ calls[c].heard => calls[c].stage = stage
    /\ inflight \in [Services -> Nat] /\ faults \in 0..MaxFaults
    /\ engine \in Engines /\ model \in {"unset", "ready", "broken"}

\* A slot is taken for each thread that is running or may still run, whether
\* or not anybody waits for it, and for nothing else; and no service ever has
\* more of them than it has slots.
SlotsAreHeld ==
    \A s \in Services :
      /\ inflight[s] = Cardinality({c \in Calls : Holds(c, s)})
      /\ inflight[s] <= MaxInflight[s]

Approved == stage = "delivered" /\ answer["review"] = {}

\* What is delivered without a person was judged by the rules of the route
\* that classification chose, also when the verdict had to infer it.
RouteIsKept == Approved => The(answer["validate"]).route = The(answer["classify"])

\* The reading is at least that sure, in thousandths of a percent.
AtLeast(sure, least) == 100000 * sure >= least * Full

\* What is delivered without a person was read well: strict routes need 83.325%
\* whatever the model claims, and a generic one 46.66% when the confidences of
\* its fields could be loaded; above these the scores round to 0.90 and 0.60.
\* A reading that came without any confidence is judged by what the store says
\* of it, which may be another attempt's.
WellRead ==
    LET sure == The(answer["ocr"]).conf
        v    == The(answer["validate"])
    IN  Approved /\ sure > 0 =>
            /\ v.route \in Strict => AtLeast(sure, 83325)
            /\ v.loaded => AtLeast(sure, 46660)

\* No race of a request with its retries, and no missing artifact, turns a
\* document that the policy sends to a person into one it approves.
ApprovalIsEarned == RouteIsKept /\ WellRead

\* The stored result of a review is the approval of the fields the person
\* left, and no thread of an earlier request writes over it.
ReviewStands ==
    stage = "delivered" /\ answer["review"] # {} =>
        LET v == The(answer["revalidate"]) IN
        /\ store[<<"review", v.bucket>>] = {v}
        /\ v.verdict = "human_approved"
        /\ v.fields = The(answer["review"]).fields

-----------------------------------------------------------------------------
(* validation_service/README.md:89, "Invalid configured date or money fields *)
(* route to `review`."                                                      *)

\* No field that is ill-formed is delivered without a person.
OddFieldsAreReviewed ==
    Approved => The(answer["extract"]).odd \cap Rules[The(answer["classify"])].formatted = {}
=============================================================================
