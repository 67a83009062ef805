------------------------- MODULE StageServicesProofs -------------------------
(***************************************************************************)
(* Theorems of StageServices, for any documents, model answers, requests,   *)
(* slots, attempts and faults: slots are those of the threads, what is      *)
(* approved is earned, and the result of a review stands.                   *)
(*                                                                         *)
(* The argument has three parts.  Types: what each variable and each        *)
(* request looks like.  Order: the answers come one after the other and     *)
(* none is ever replaced, so a late request finds the answers that it was   *)
(* made from.  Results: what is stored, answered or still on its way from   *)
(* an attempt fits those answers, whichever attempt it is of.               *)
(***************************************************************************)
EXTENDS StageServices, FiniteSetTheorems, TLAPS

-----------------------------------------------------------------------------
(* The inductive invariant *)

Asking  == Stages \cup {"review"}
Phases  == {"free", "queued", "running", "handling", "storing"}
Working == {"running", "handling", "storing"}

Single(S) == S = {} \/ S = {The(S)}

\* What a request comes to: a result, or an error.
Outcome(o) == /\ o.ok \in BOOLEAN
              /\ o.ok => o.out = {The(o.out)}

\* A request, while the workflow is at stage s.
Shape(r, s) ==
    /\ DOMAIN r = {"stage", "phase", "heard", "waits", "val"}
    /\ r.stage \in Stages \cup {"none"} /\ r.phase \in Phases
    /\ r.heard \in BOOLEAN /\ r.waits \in BOOLEAN
    /\ r.phase = "free" <=> r.stage = "none"
    /\ r.heard => r.waits /\ r.stage = s /\ s \in Stages
    /\ r.phase \in Working => r.val = {The(r.val)} /\ Outcome(The(r.val))
    /\ r.phase = "handling" => r.stage \in {"ocr", "extract"} /\ The(r.val).ok
    /\ r.phase = "storing" => r.stage = "extract" /\ The(r.val).ok

WorkflowTyped ==
    /\ stage \in Asking \cup Ends /\ tries \in 0 .. MaxTries - 1
    /\ DOMAIN answer = Asking /\ \A s \in Asking : Single(answer[s])

CallsTyped ==
    /\ DOMAIN calls = Calls
    /\ \A c \in Calls : Shape(calls[c], stage)
    /\ \A c, d \in Calls : calls[c].heard /\ calls[d].heard => c = d

OthersTyped ==
    /\ doc \in Documents
    /\ DOMAIN store = Keys /\ \A k \in Keys : Single(store[k])
    /\ inflight \in [Services -> Nat] /\ faults \in 0 .. MaxFaults
    /\ engine \in Engines /\ model \in {"unset", "ready", "broken"}

Types == WorkflowTyped /\ CallsTyped /\ OthersTyped

\* The answer that a stage is asked with.
Before(s) ==
    CASE s = "ocr"        -> "preprocess"
      [] s = "layout"     -> "ocr"
      [] s = "classify"   -> "layout"
      [] s = "extract"    -> "classify"
      [] s = "validate"   -> "extract"
      [] s = "review"     -> "validate"
      [] s = "revalidate" -> "review"

Begun(s) == stage = s \/ answer[s] # {} \/ \E c \in Calls : calls[c].stage = s

Order1 == stage \in Asking => answer[stage] = {}
Order2 == \A s \in Asking \ {"preprocess"} : Begun(s) => answer[Before(s)] # {}
Order3 ==
    stage = "delivered" =>
      /\ answer["validate"] # {}
      /\ answer["review"] = {} => The(answer["validate"]).verdict = "auto_approved"
      /\ answer["review"] # {} => /\ answer["revalidate"] # {}
                                  /\ The(answer["revalidate"]).verdict = "human_approved"

InOrder == Order1 /\ Order2 /\ Order3

\* The confidence of the reading and the route, as the workflow was told them.
Sure  == The(answer["ocr"]).conf
Route == The(answer["classify"])
Routes == Strict \cup {"generic"}

\* Fields of the route; without the model they cannot be surer than the reading.
Drawn(a) ==
    /\ a.route = Route /\ a.fields \subseteq Schema[Route]
    /\ Sure > 0 /\ ~ a.vlm /\ a.conf >= 9000 => AtLeast(Sure, 83325)

Extracted(a) == Drawn(a) /\ (Sure > 0 /\ a.sure >= 6000 => AtLeast(Sure, 46660))

Judged(v) ==
    v.verdict = "auto_approved" =>
      /\ v.route = Route
      /\ Sure > 0 => /\ v.route \in Strict => AtLeast(Sure, 83325)
                     /\ v.loaded => AtLeast(Sure, 46660)

\* What the rules say of the fields that a person left.
Human ==
    LET e == The(answer["extract"])
        r == The(answer["review"])
    IN  The(Verdict(Request(e, r.fields, r.odd, TRUE), FALSE).out)
HumanAt(b) == Answered("revalidate", Human, <<"review", b>>)

Fits(s, phase, x) ==
    /\ s = "ocr" => x.conf \in Nat
    /\ s = "classify" => x \in Routes
    /\ s = "extract" /\ phase # "storing" /\ Sure > 0 => x.conf = Sure
    /\ s = "extract" /\ phase = "storing" => Extracted(x)
    /\ s = "validate" => Judged(x)
    /\ s = "revalidate" => x = Human

RowFits(r) ==
    r.phase \in Working /\ The(r.val).ok => Fits(r.stage, r.phase, The(The(r.val).out))

CallsFit == \A c \in Calls : RowFits(calls[c])

AnswerFits(s, x) ==
    /\ s = "ocr" => x.conf \in Nat
    /\ s = "classify" => x \in Routes
    /\ s = "extract" => Drawn(x) /\ x.bucket \in {"main", "spare"}
    /\ s = "validate" => Judged(x)
    /\ s = "revalidate" => \E b \in {"main", "spare"} : x = HumanAt(b) /\ store[<<"review", b>>] # {}

AnswersFit == \A s \in Asking : answer[s] # {} => AnswerFits(s, The(answer[s]))

StoreFits == \A b \in {"main", "spare"} :
    /\ store[<<"extraction", b>>] # {} => /\ answer["classify"] # {}
                                          /\ Extracted(The(store[<<"extraction", b>>]))
    /\ store[<<"review", b>>] # {} => /\ answer["review"] # {}
                                      /\ store[<<"review", b>>] = {HumanAt(b)}

Results == CallsFit /\ AnswersFit /\ StoreFits

IInv == Types /\ InOrder /\ Results /\ SlotsAreHeld

-----------------------------------------------------------------------------
(* Operators *)

LEMMA TheOne == ASSUME NEW x PROVE The({x}) = x
BY DEF The

LEMMA SingleOne == ASSUME NEW x PROVE Single({x})
BY TheOne DEF Single

LEMMA SingleCardinality == ASSUME NEW S, Single(S) PROVE Cardinality(S) <= 1
<1>1. CASE S = {}
  BY <1>1, FS_EmptySet
<1>2. CASE S = {The(S)}
  BY <1>2, FS_Singleton
<1> QED BY <1>1, <1>2 DEF Single

LEMMA Outcomes ==
    /\ Outcome(Again) /\ ~ Again.ok /\ Outcome(Refused) /\ ~ Refused.ok
    /\ \A x : Outcome(Done(x)) /\ Done(x).ok /\ The(Done(x).out) = x
BY TheOne DEF Outcome, Again, Refused, Done

\* What a thread comes to is an outcome, at every stage.
LEMMA WorkOutcome == ASSUME NEW s \in Stages, NEW m, NEW o \in Work(s, m) PROVE Outcome(o)
<1>1. CASE s = "preprocess"
  BY <1>1, Outcomes DEF Work, PreprocessWork
<1>2. CASE s = "ocr"
  <2>1. \A r : OcrOutcome(r) \in {Done(r.read), Refused, Again}
    BY DEF OcrOutcome
  <2> QED BY <1>2, <2>1, Outcomes DEF Work, OcrWork
<1>3. CASE s = "layout"
  BY <1>3, Outcomes DEF Work, LayoutWork
<1>4. CASE s = "classify"
  BY <1>4, Outcomes DEF Work, RouteWork
<1>5. CASE s = "extract"
  BY <1>5, Outcomes DEF Work, ContextWork
<1>6. CASE s \in {"validate", "revalidate"}
  BY <1>6, Outcomes DEF Work, ValidateWork, Verdict
<1> QED BY <1>1, <1>2, <1>3, <1>4, <1>5, <1>6 DEF Stages, Services

-----------------------------------------------------------------------------
(* Types *)

LEMMA InitialTypes == Init => Types
<1> SUFFICES ASSUME Init PROVE Types
  OBVIOUS
<1>1. WorkflowTyped
  BY ServicesAssumption DEF Init, WorkflowTyped, Asking, Stages, Services, Single
<1>2. CallsTyped
  BY DEF Init, CallsTyped, Shape, Free, Phases, Working
<1>3. OthersTyped
  BY ServicesAssumption DEF Init, OthersTyped, Single
<1> QED BY <1>1, <1>2, <1>3 DEF Types

\* The workflow takes an outcome, at whatever stage it is.
LEMMA SettleTypes ==
    ASSUME WorkflowTyped, stage \in Stages, NEW o, Outcome(o), Settle(o)
    PROVE  WorkflowTyped'
<1>1. CASE o.ok
  <2>1. /\ answer' = [answer EXCEPT ![stage] = o.out]
        /\ stage' = After(stage, The(o.out)) /\ tries' = 0
    BY <1>1 DEF Settle
  <2>2. After(stage, The(o.out)) \in Asking \cup Ends
    BY DEF After, Asking, Ends, Stages, Services
  <2>3. Single(o.out)
    BY <1>1 DEF Outcome, Single
  <2>4. DOMAIN answer' = Asking /\ \A s \in Asking : Single(answer'[s])
    BY <2>1, <2>3 DEF WorkflowTyped
  <2> QED BY <2>1, <2>2, <2>4, ServicesAssumption DEF WorkflowTyped
<1>2. CASE ~ o.ok
  BY <1>2, ServicesAssumption DEF Settle, WorkflowTyped, Ends
<1> QED BY <1>1, <1>2

\* One request changes, and the workflow moves on only if it waits for that one.
LEMMA RowTypes ==
    ASSUME CallsTyped, NEW c \in Calls, NEW r, calls' = [calls EXCEPT ![c] = r],
           Shape(r, stage'),
           r.heard => \A d \in Calls \ {c} : ~ calls[d].heard,
           stage' = stage \/ \A d \in Calls \ {c} : ~ calls[d].heard
    PROVE  CallsTyped'
<1>1. DOMAIN calls' = Calls /\ calls'[c] = r /\ \A d \in Calls \ {c} : calls'[d] = calls[d]
  BY DEF CallsTyped
<1>2. ASSUME NEW d \in Calls \ {c} PROVE Shape(calls[d], stage')
  BY <1>2 DEF CallsTyped, Shape
<1>3. \A d \in Calls : Shape(calls'[d], stage')
  BY <1>1, <1>2
<1>4. \A d, e \in Calls : calls'[d].heard /\ calls'[e].heard => d = e
  BY <1>1 DEF CallsTyped
<1> QED BY <1>1, <1>3, <1>4 DEF CallsTyped

LEMMA FreeShape == \A s : Shape(Free, s) /\ ~ Free.heard
BY DEF Shape, Free, Phases, Working

\* Somebody waits for at most one request, and for that of the present stage.
LEMMA HeardOne ==
    ASSUME CallsTyped, NEW c \in Calls, calls[c].heard
    PROVE  stage \in Stages /\ calls[c].stage = stage /\ \A d \in Calls \ {c} : ~ calls[d].heard
BY DEF CallsTyped, Shape

\* Call c is over, or nobody waits for it any more: the workflow takes o.
LEMMA PartTypes ==
    ASSUME Types, NEW c \in Calls, NEW r, calls' = [calls EXCEPT ![c] = r],
           \A s : Shape(r, s), ~ r.heard, NEW o, Outcome(o),
           IF calls[c].heard THEN Settle(o) ELSE UNCHANGED workflow
    PROVE  WorkflowTyped' /\ CallsTyped'
<1>1. CASE calls[c].heard
  <2>1. stage \in Stages /\ \A d \in Calls \ {c} : ~ calls[d].heard
    BY <1>1, HeardOne DEF Types
  <2>2. WorkflowTyped'
    BY <1>1, <2>1, SettleTypes DEF Types
  <2>3. CallsTyped'
    BY <2>1, RowTypes DEF Types
  <2> QED BY <2>2, <2>3
<1>2. CASE ~ calls[c].heard
  <2>1. stage' = stage /\ tries' = tries /\ answer' = answer
    BY <1>2 DEF workflow
  <2>2. WorkflowTyped'
    BY <2>1 DEF Types, WorkflowTyped
  <2>3. CallsTyped'
    BY <2>1, RowTypes DEF Types
  <2> QED BY <2>2, <2>3
<1> QED BY <1>1, <1>2

LEMMA ReturnTypes ==
    ASSUME Types, NEW c \in Calls, NEW o, Outcome(o), Return(c, o)
    PROVE  WorkflowTyped' /\ CallsTyped'
BY PartTypes, FreeShape DEF Return

\* The row of a request that nobody waits for any more.
LEMMA UnheardShape ==
    ASSUME NEW r, NEW s, Shape(r, s), NEW w \in BOOLEAN
    PROVE  LET q == [r EXCEPT !.waits = w, !.heard = FALSE]
           IN  ~ q.heard /\ q.val = r.val /\ q.stage = r.stage /\ q.phase = r.phase
                 /\ \A z : Shape(q, z)
<1> DEFINE q == [r EXCEPT !.waits = w, !.heard = FALSE]
<1>1. /\ DOMAIN q = {"stage", "phase", "heard", "waits", "val"}
      /\ q.val = r.val /\ q.stage = r.stage /\ q.phase = r.phase
      /\ q.heard = FALSE /\ q.waits = w
  BY DEF Shape
<1> QED BY <1>1 DEF Shape

\* Another phase of a request, with what its thread or its handler made of it.
\* q is the row r in another phase, with what came of it.
Becomes(q, r, ph, o) ==
    /\ DOMAIN q = {"stage", "phase", "heard", "waits", "val"}
    /\ q.stage = r.stage /\ q.heard = r.heard /\ q.waits = r.waits
    /\ q.phase = ph /\ q.val = {o}

LEMMA PhaseShape ==
    ASSUME NEW r, NEW s, Shape(r, s), r.stage \in Stages, NEW ph \in Working, NEW o, Outcome(o),
           ph = "handling" => r.stage \in {"ocr", "extract"} /\ o.ok,
           ph = "storing" => r.stage = "extract" /\ o.ok,
           NEW q, Becomes(q, r, ph, o)
    PROVE  Shape(q, s) /\ q.heard = r.heard
<1>1. The(q.val) = o
  BY TheOne DEF Becomes
<1>2. ph \in Phases /\ ph # "free" /\ r.stage # "none"
  BY DEF Phases, Working, Stages, Services
<1>3. Shape(q, s)
  BY <1>1, <1>2 DEF Shape, Becomes
<1> QED BY <1>3 DEF Becomes

\* The same, of a request.
LEMMA PhaseTypes ==
    ASSUME CallsTyped, NEW c \in Calls, NEW ph \in Working, NEW o, Outcome(o),
           calls[c].stage \in Stages,
           ph = "handling" => calls[c].stage \in {"ocr", "extract"} /\ o.ok,
           ph = "storing" => calls[c].stage = "extract" /\ o.ok,
           calls' = [calls EXCEPT ![c].phase = ph, ![c].val = {o}], stage' = stage
    PROVE  CallsTyped' /\ Becomes(calls'[c], calls[c], ph, o)
<1> DEFINE q == [calls[c] EXCEPT !.phase = ph, !.val = {o}]
<1>1. Shape(calls[c], stage) /\ DOMAIN calls = Calls
  BY DEF CallsTyped
<1>2. Becomes(q, calls[c], ph, o)
  BY <1>1 DEF Shape, Becomes
<1>3. calls' = [calls EXCEPT ![c] = q]
  BY <1>1
<1> HIDE DEF q
<1>4. Shape(q, stage) /\ q.heard = calls[c].heard
  BY <1>1, <1>2, PhaseShape
<1>5. q.heard => \A d \in Calls \ {c} : ~ calls[d].heard
  BY <1>4, HeardOne
<1>6. CallsTyped'
  BY <1>3, <1>4, <1>5, RowTypes
<1>7. calls'[c] = q
  BY <1>1, <1>3
<1> QED BY <1>2, <1>6, <1>7

LEMMA Slots ==
    ASSUME inflight \in [Services -> Nat]
    PROVE  /\ \A s \in Services : Taken(s) \in [Services -> Nat] /\ Released(s) \in [Services -> Nat]
           /\ \A s \in Stages : ServiceOf(s) \in Services
BY DEF Taken, Released, ServiceOf, Stages, Services

LEMMA Spending ==
    ASSUME faults \in 0 .. MaxFaults, NEW n \in Nat, Spend(n) PROVE faults' \in 0 .. MaxFaults
BY ServicesAssumption DEF Spend

\* A request that is queued or whose thread runs is one for a stage.
LEMMA BusyRow ==
    ASSUME CallsTyped, NEW c \in Calls, calls[c].phase # "free"
    PROVE  calls[c].stage \in Stages /\ Shape(calls[c], stage)
BY DEF CallsTyped, Shape

LEMMA CallTypes == ASSUME Types, NEW c \in Calls, Call(c) PROVE Types'
<1> USE DEF Types
<1>1. OthersTyped'
  BY Slots, TheOne DEF Call, OthersTyped
<1>2. CASE Settle(Again) /\ UNCHANGED calls
  <2>1. WorkflowTyped'
    BY <1>2, SettleTypes, Outcomes DEF Call
  <2>2. \A d \in Calls : Shape(calls[d], stage')
    BY DEF Call, CallsTyped, Shape
  <2>3. CallsTyped'
    BY <1>2, <2>2 DEF CallsTyped
  <2> QED BY <1>1, <2>1, <2>3
<1>3. CASE /\ UNCHANGED workflow
           /\ calls' = [calls EXCEPT ![c] =
                [stage |-> stage, phase |-> "queued", heard |-> TRUE, waits |-> TRUE, val |-> {}]]
  <2>1. WorkflowTyped' /\ stage' = stage
    BY <1>3 DEF workflow, WorkflowTyped
  <2>2. Shape([stage |-> stage, phase |-> "queued", heard |-> TRUE, waits |-> TRUE, val |-> {}], stage)
    BY DEF Call, Shape, Phases, Working, Stages, Services
  <2>3. \A d \in Calls \ {c} : ~ calls[d].heard
    BY DEF Call
  <2>4. CallsTyped'
    BY <1>3, <2>1, <2>2, <2>3, RowTypes
  <2> QED BY <1>1, <2>1, <2>4
<1> QED BY <1>2, <1>3 DEF Call

LEMMA GiveUpTypes == ASSUME Types, NEW c \in Calls, GiveUp(c) PROVE Types'
<1> DEFINE q == [calls[c] EXCEPT !.heard = FALSE]
<1>1. Shape(calls[c], stage) /\ DOMAIN calls = Calls
  BY DEF Types, CallsTyped
<1>2. ~ q.heard /\ \A z : Shape(q, z)
  <2>1. /\ DOMAIN q = {"stage", "phase", "heard", "waits", "val"}
        /\ q.val = calls[c].val /\ q.stage = calls[c].stage /\ q.phase = calls[c].phase
        /\ q.heard = FALSE /\ q.waits = calls[c].waits
    BY <1>1 DEF Shape
  <2> QED BY <1>1, <2>1 DEF Shape
<1>3. calls' = [calls EXCEPT ![c] = q] /\ calls[c].heard /\ Settle(Again)
  BY DEF GiveUp
<1>4. WorkflowTyped' /\ CallsTyped'
  BY <1>2, <1>3, PartTypes, Outcomes
<1>5. OthersTyped'
  BY Spending DEF Types, OthersTyped, GiveUp
<1> QED BY <1>4, <1>5 DEF Types

LEMMA TimeOutTypes == ASSUME Types, NEW c \in Calls, TimeOut(c) PROVE Types'
<1>1. calls[c].stage \in Stages /\ Shape(calls[c], stage)
  BY BusyRow DEF Types, TimeOut
<1>2. OthersTyped'
  BY <1>1, Spending, Slots DEF Types, OthersTyped, TimeOut
<1>3. CASE calls' = [calls EXCEPT ![c] = Free]
  BY <1>2, <1>3, FreeShape, PartTypes, Outcomes DEF TimeOut, Types
<1>4. CASE calls' = [calls EXCEPT ![c].waits = FALSE, ![c].heard = FALSE]
  <2> DEFINE q == [calls[c] EXCEPT !.waits = FALSE, !.heard = FALSE]
  <2>1. calls' = [calls EXCEPT ![c] = q]
    BY <1>4 DEF Types, CallsTyped
  <2>2. ~ q.heard /\ \A z : Shape(q, z)
    BY <1>1, UnheardShape
  <2>3. IF calls[c].heard THEN Settle(Again) ELSE UNCHANGED workflow
    BY DEF TimeOut
  <2> HIDE DEF q
  <2> QED BY <1>2, <2>1, <2>2, <2>3, PartTypes, Outcomes DEF Types
<1> QED BY <1>3, <1>4 DEF TimeOut

LEMMA RestartTypes == ASSUME Types, NEW s \in Services, Restart(s) PROVE Types'
<1> DEFINE hit == {c \in Calls : ServiceOf(calls[c].stage) = s}
<1>1. calls' = [c \in Calls |-> IF c \in hit THEN Free ELSE calls[c]]
  BY DEF Restart
<1>2. OthersTyped'
  BY Spending DEF Types, OthersTyped, Restart, Engines
<1>3. \A c, d \in Calls : calls'[c].heard /\ calls'[d].heard => c = d
  BY <1>1, FreeShape DEF Types, CallsTyped
<1>4. CASE \E c \in hit : calls[c].heard
  <2>1. PICK c \in hit : calls[c].heard
    BY <1>4
  <2>2. stage \in Stages /\ \A d \in Calls \ {c} : ~ calls[d].heard
    BY <2>1, HeardOne DEF Types
  <2>3. WorkflowTyped'
    BY <1>4, <2>2, SettleTypes, Outcomes DEF Restart, Types
  <2>4. \A d \in Calls : Shape(calls'[d], stage')
    BY <1>1, <2>1, <2>2, FreeShape DEF Types, CallsTyped, Shape
  <2> QED BY <1>1, <1>2, <1>3, <2>3, <2>4 DEF Types, CallsTyped
<1>5. CASE ~ \E c \in hit : calls[c].heard
  <2>1. stage' = stage /\ tries' = tries /\ answer' = answer
    BY <1>5 DEF Restart, workflow
  <2>2. WorkflowTyped'
    BY <2>1 DEF Types, WorkflowTyped
  <2>3. \A d \in Calls : Shape(calls'[d], stage')
    BY <1>1, <2>1, FreeShape DEF Types, CallsTyped
  <2> QED BY <1>1, <1>2, <1>3, <2>2, <2>3 DEF Types, CallsTyped
<1> QED BY <1>4, <1>5

LEMMA BeginTypes == ASSUME Types, NEW c \in Calls, Begin(c) PROVE Types'
<1>1. calls[c].stage \in Stages /\ Shape(calls[c], stage)
  BY BusyRow DEF Types, Begin
<1>2. PICK o \in Work(calls[c].stage, model') :
        /\ calls' = [calls EXCEPT ![c].phase = "running", ![c].val = {o}]
        /\ Spend(IF o = Again THEN 1 ELSE 0)
  BY DEF Begin
<1>3. UNCHANGED workflow /\ stage' = stage
  BY DEF Begin, workflow
<1>4. Outcome(o)
  BY <1>1, <1>2, WorkOutcome
<1>5. CallsTyped'
  <2>1. "running" \in Working /\ "running" # "handling" /\ "running" # "storing"
    BY DEF Working
  <2> QED BY <1>1, <1>2, <1>3, <1>4, <2>1, PhaseTypes DEF Types
<1>6. OthersTyped'
  BY <1>2, Spending DEF Types, OthersTyped, Begin
<1> QED BY <1>3, <1>5, <1>6 DEF Types, WorkflowTyped, workflow

\* What a running, handling or storing request holds.
LEMMA Held ==
    ASSUME CallsTyped, NEW c \in Calls, calls[c].phase \in Working
    PROVE  /\ Outcome(The(calls[c].val)) /\ calls[c].stage \in Stages
           /\ calls[c].phase = "handling" => The(calls[c].val).ok
           /\ calls[c].phase = "storing" => The(calls[c].val).ok /\ calls[c].stage = "extract"
BY BusyRow DEF CallsTyped, Shape, Working

LEMMA TargetKeys ==
    \A s : Target(s) \subseteq {<<"layout", "main">>}
             \cup ({"validation", "review"} \X {"main", "spare"})
BY DEF Target

\* An artifact is written.
LEMMA WriteTypes ==
    ASSUME DOMAIN store = Keys, \A k \in Keys : Single(store[k]),
           NEW k \in Keys, NEW x, store' = [store EXCEPT ![k] = {x}]
    PROVE  DOMAIN store' = Keys /\ \A z \in Keys : Single(store'[z])
BY SingleOne

LEMMA FinishTypes == ASSUME Types, NEW c \in Calls, Finish(c) PROVE Types'
<1> DEFINE s == calls[c].stage
           o == The(calls[c].val)
<1>1. /\ Outcome(o) /\ s \in Stages /\ Shape(calls[c], stage) /\ calls[c].phase = "running"
      /\ inflight' = Released(ServiceOf(s))
  BY Held, BusyRow DEF Types, Finish, Working
<1>2. inflight' \in [Services -> Nat]
  BY <1>1, Slots DEF Types, OthersTyped
<1>3. CASE /\ s \in {"ocr", "extract"} /\ o.ok
           /\ calls' = [calls EXCEPT ![c].phase = "handling"]
           /\ UNCHANGED <<workflow, store, faults>>
  <2>1. calls[c].val = {o}
    BY <1>1 DEF Shape, Working
  <2>2. [calls[c] EXCEPT !.phase = "handling"] = [calls[c] EXCEPT !.phase = "handling", !.val = {o}]
    BY <1>1, <2>1 DEF Shape
  <2>3. calls' = [calls EXCEPT ![c].phase = "handling", ![c].val = {o}]
    BY <1>3, <2>2 DEF Types, CallsTyped
  <2>4. stage' = stage /\ "handling" \in Working /\ "handling" # "storing"
    BY <1>3 DEF workflow, Working
  <2>5. CallsTyped'
    BY <1>1, <1>3, <2>3, <2>4, PhaseTypes DEF Types
  <2> QED BY <1>2, <1>3, <2>5 DEF Finish, Types, WorkflowTyped, OthersTyped, workflow
<1>4. CASE Return(c, o) /\ UNCHANGED <<store, faults>>
  <2>1. WorkflowTyped' /\ CallsTyped'
    BY <1>1, <1>4, ReturnTypes
  <2> QED BY <1>2, <1>4, <2>1 DEF Finish, Types, OthersTyped
<1>5. CASE \E k \in Target(s) :
             LET x == Answered(s, The(o.out), k) IN
             /\ store' = [store EXCEPT ![k] = {x}]
             /\ Return(c, Done(x))
             /\ Spend(IF k[2] = "spare" THEN 1 ELSE 0)
  <2>1. PICK k, x :
          /\ k \in Target(s) /\ store' = [store EXCEPT ![k] = {x}] /\ Return(c, Done(x))
          /\ Spend(IF k[2] = "spare" THEN 1 ELSE 0)
    BY <1>5
  <2>2. WorkflowTyped' /\ CallsTyped'
    BY <2>1, ReturnTypes, Outcomes
  <2>3. k \in Keys
    BY <2>1, TargetKeys DEF Keys
  <2>4. DOMAIN store' = Keys /\ \A z \in Keys : Single(store'[z])
    BY <2>1, <2>3, WriteTypes DEF Types, OthersTyped
  <2>5. faults' \in 0 .. MaxFaults
    BY <2>1, Spending DEF Types, OthersTyped
  <2> QED BY <1>2, <2>2, <2>4, <2>5 DEF Finish, Types, OthersTyped
<1> QED BY <1>3, <1>4, <1>5 DEF Finish

LEMMA StoreOcrTypes == ASSUME Types, NEW c \in Calls, StoreOcr(c) PROVE Types'
<1> DEFINE o == The(calls[c].val)
<1>1. Outcome(o) /\ o.ok
  BY Held DEF Types, StoreOcr, Working
<1>2. UNCHANGED <<doc, inflight, engine, model>>
  BY DEF StoreOcr
<1>3. CASE store' = [store EXCEPT ![<<"ocr", "main">>] = o.out] /\ Return(c, o) /\ UNCHANGED faults
  <2>1. o.out = {The(o.out)} /\ <<"ocr", "main">> \in Keys
    BY <1>1 DEF Outcome, Keys
  <2>2. DOMAIN store' = Keys /\ \A z \in Keys : Single(store'[z])
    BY <1>3, <2>1, WriteTypes DEF Types, OthersTyped
  <2> QED BY <1>1, <1>2, <1>3, <2>2, ReturnTypes DEF Types, OthersTyped
<1>4. CASE Return(c, Again) /\ Spend(1) /\ UNCHANGED store
  BY <1>2, <1>4, ReturnTypes, Outcomes, Spending DEF Types, OthersTyped
<1> QED BY <1>3, <1>4 DEF StoreOcr

LEMMA ExtractTypes == ASSUME Types, NEW c \in Calls, Extract(c) PROVE Types'
<1>1. /\ Shape(calls[c], stage) /\ calls[c].stage = "extract"
      /\ UNCHANGED <<doc, workflow, inflight, engine, model, store, faults>>
  BY BusyRow DEF Types, Extract
<1>2. PICK x : calls' = [calls EXCEPT ![c].phase = "storing", ![c].val = {Done(x)}]
  BY DEF Extract
<1>3. stage' = stage /\ "storing" \in Working /\ "storing" # "handling"
  BY <1>1 DEF workflow, Working
<1>4. CallsTyped'
  BY <1>1, <1>2, <1>3, Outcomes, PhaseTypes DEF Types, Stages, Services
<1> QED BY <1>1, <1>4 DEF Types, WorkflowTyped, OthersTyped, workflow

LEMMA StoreExtractionTypes == ASSUME Types, NEW c \in Calls, StoreExtraction(c) PROVE Types'
<1>1. UNCHANGED <<doc, inflight, engine, model>>
  BY DEF StoreExtraction
<1>2. ASSUME NEW b \in {"main", "spare"}, NEW x, NEW y,
             store' = [store EXCEPT ![<<"extraction", b>>] = {x}],
             Return(c, Done(y)), Spend(IF b = "spare" THEN 1 ELSE 0)
      PROVE  Types'
  <2>1. <<"extraction", b>> \in Keys
    BY DEF Keys
  <2>2. DOMAIN store' = Keys /\ \A z \in Keys : Single(store'[z])
    BY <1>2, <2>1, WriteTypes DEF Types, OthersTyped
  <2>3. faults' \in 0 .. MaxFaults
    BY <1>2, Spending DEF Types, OthersTyped
  <2> QED BY <1>1, <1>2, <2>2, <2>3, ReturnTypes, Outcomes DEF Types, OthersTyped
<1>3. CASE Return(c, Again) /\ Spend(1) /\ UNCHANGED store
  BY <1>1, <1>3, ReturnTypes, Outcomes, Spending DEF Types, OthersTyped
<1> QED BY <1>2, <1>3 DEF StoreExtraction

LEMMA ReviewTypes == ASSUME Types, Review PROVE Types'
<1>1. stage = "review" /\ stage' \in {"rejected", "revalidate"}
  BY DEF Review
<1>2. answer' = answer \/ \E r : answer' = [answer EXCEPT !["review"] = {r}]
  BY DEF Review
<1>3. WorkflowTyped'
  <2>1. DOMAIN answer' = Asking /\ \A s \in Asking : Single(answer'[s])
    BY <1>2, SingleOne DEF Types, WorkflowTyped
  <2>2. stage' \in Asking \cup Ends /\ tries' = tries
    BY <1>1 DEF Review, Asking, Ends, Stages, Services
  <2> QED BY <2>1, <2>2 DEF Types, WorkflowTyped
<1>4. CallsTyped'
  <2>1. \A c \in Calls : ~ calls[c].heard
    BY <1>1 DEF Types, CallsTyped, Shape, Stages, Services
  <2>2. \A c \in Calls : Shape(calls[c], stage')
    BY <2>1 DEF Types, CallsTyped, Shape
  <2> QED BY <2>2 DEF Review, Types, CallsTyped
<1> QED BY <1>3, <1>4 DEF Review, Types, OthersTyped

LEMMA StepTypes == ASSUME Types, [Next]_vars PROVE Types'
<1>1. ASSUME NEW c \in Calls, CallStep(c) PROVE Types'
  BY <1>1, CallTypes, GiveUpTypes, TimeOutTypes, BeginTypes, FinishTypes, StoreOcrTypes,
     ExtractTypes, StoreExtractionTypes DEF CallStep
<1>2. CASE UNCHANGED vars
  BY <1>2 DEF vars, workflow, Types, WorkflowTyped, CallsTyped, OthersTyped
<1> QED BY <1>1, <1>2, RestartTypes, ReviewTypes DEF Next

LEMMA TypesTypeOK == ASSUME Types PROVE TypeOK
<1>1. stage \in Stages \cup Ends \cup {"review"} /\ tries \in 0 .. MaxTries - 1
  BY DEF Types, WorkflowTyped, Asking
<1>2. /\ DOMAIN answer = Stages \cup {"review"}
      /\ \A s \in DOMAIN answer : Cardinality(answer[s]) <= 1
  BY SingleCardinality DEF Types, WorkflowTyped, Asking
<1>3. DOMAIN store = Keys /\ \A k \in Keys : Cardinality(store[k]) <= 1
  BY SingleCardinality DEF Types, OthersTyped
<1>4. \A c \in Calls :
        /\ calls[c].stage \in Stages \cup {"none"} /\ calls[c].phase \in Phases
        /\ calls[c].heard => calls[c].stage = stage
  BY DEF Types, CallsTyped, Shape
<1> QED BY <1>1, <1>2, <1>3, <1>4 DEF TypeOK, Types, OthersTyped, Phases

-----------------------------------------------------------------------------
(* Order *)

\* What a step does to the workflow: nothing, a failure, an answer taken, or
\* the review.
Left       == UNCHANGED <<stage, answer>>
Fails      == stage \in Stages /\ UNCHANGED answer /\ stage' = "failed"
Settled(x) == /\ stage \in Stages
              /\ answer' = [answer EXCEPT ![stage] = {x}]
              /\ stage' = After(stage, x)

LEMMA SettleMoves ==
    ASSUME stage \in Stages, NEW o, Outcome(o), Settle(o)
    PROVE  IF o.ok THEN Settled(The(o.out)) ELSE Left \/ Fails
BY DEF Settle, Outcome, Settled, Left, Fails

\* The workflow takes the answer of the one request that it waits for.
LEMMA PartMoves ==
    ASSUME Types, NEW c \in Calls, NEW o, Outcome(o),
           IF calls[c].heard THEN Settle(o) ELSE UNCHANGED workflow
    PROVE  \/ Left \/ Fails
           \/ calls[c].heard /\ calls[c].stage = stage /\ o.ok /\ Settled(The(o.out))
<1>1. CASE calls[c].heard
  BY <1>1, HeardOne, SettleMoves DEF Types
<1>2. CASE ~ calls[c].heard
  BY <1>2 DEF Left, workflow
<1> QED BY <1>1, <1>2

\* A request never changes its stage; a new one is for the present stage.
StagesKept ==
    \A c \in Calls : \/ calls'[c].stage \in {calls[c].stage, "none"}
                     \/ calls'[c].stage = stage /\ Left

LEMMA PartKeeps ==
    ASSUME Types, NEW c \in Calls, NEW r, calls' = [calls EXCEPT ![c] = r],
           r.stage \in {calls[c].stage, "none"}
    PROVE  StagesKept
BY DEF Types, CallsTyped, StagesKept

LEMMA FreeStage == Free.stage = "none"
BY DEF Free

LEMMA CallMoves ==
    ASSUME Types, NEW c \in Calls, Call(c) PROVE (Left \/ Fails) /\ StagesKept
<1>1. CASE Settle(Again) /\ UNCHANGED calls
  BY <1>1, SettleMoves, Outcomes DEF Call, StagesKept
<1>2. CASE /\ UNCHANGED workflow
           /\ calls' = [calls EXCEPT ![c] =
                [stage |-> stage, phase |-> "queued", heard |-> TRUE, waits |-> TRUE, val |-> {}]]
  BY <1>2 DEF workflow, Left, StagesKept, Types, CallsTyped
<1> QED BY <1>1, <1>2 DEF Call

LEMMA GiveUpMoves ==
    ASSUME Types, NEW c \in Calls, GiveUp(c) PROVE (Left \/ Fails) /\ StagesKept
<1>1. Left \/ Fails
  BY HeardOne, SettleMoves, Outcomes DEF GiveUp, Types
<1>2. \A d \in Calls : calls'[d].stage = calls[d].stage
  BY DEF GiveUp, Types, CallsTyped, Shape
<1> QED BY <1>1, <1>2 DEF StagesKept

LEMMA TimeOutMoves ==
    ASSUME Types, NEW c \in Calls, TimeOut(c) PROVE (Left \/ Fails) /\ StagesKept
<1>1. Left \/ Fails
  BY PartMoves, Outcomes DEF TimeOut
<1>2. CASE calls' = [calls EXCEPT ![c] = Free]
  BY <1>1, <1>2, PartKeeps, FreeStage
<1>3. CASE calls' = [calls EXCEPT ![c].waits = FALSE, ![c].heard = FALSE]
  <2>1. \A d \in Calls : calls'[d].stage = calls[d].stage
    BY <1>3 DEF Types, CallsTyped, Shape
  <2> QED BY <1>1, <2>1 DEF StagesKept
<1> QED BY <1>2, <1>3 DEF TimeOut

LEMMA RestartMoves ==
    ASSUME Types, NEW s \in Services, Restart(s) PROVE (Left \/ Fails) /\ StagesKept
<1> DEFINE hit == {c \in Calls : ServiceOf(calls[c].stage) = s}
<1>1. Left \/ Fails
  <2>1. CASE \E c \in hit : calls[c].heard
    BY <2>1, HeardOne, SettleMoves, Outcomes DEF Restart, Types
  <2>2. CASE ~ \E c \in hit : calls[c].heard
    BY <2>2 DEF Restart, Left, workflow
  <2> QED BY <2>1, <2>2
<1>2. calls' = [c \in Calls |-> IF c \in hit THEN Free ELSE calls[c]]
  BY DEF Restart
<1> QED BY <1>1, <1>2, FreeStage DEF StagesKept

LEMMA BeginMoves ==
    ASSUME Types, NEW c \in Calls, Begin(c) PROVE Left /\ StagesKept
<1>1. \A d \in Calls : calls'[d].stage = calls[d].stage
  BY DEF Begin, Types, CallsTyped, Shape
<1> QED BY <1>1 DEF Begin, Left, workflow, StagesKept

LEMMA ReturnKeeps ==
    ASSUME Types, NEW c \in Calls, NEW o, Return(c, o) PROVE StagesKept
BY PartKeeps, FreeStage DEF Return

LEMMA ReturnMoves ==
    ASSUME Types, NEW c \in Calls, NEW o, Outcome(o), Return(c, o)
    PROVE  \/ Left \/ Fails
           \/ calls[c].heard /\ calls[c].stage = stage /\ o.ok /\ Settled(The(o.out))
BY PartMoves DEF Return

Moves == Left \/ Fails \/ Review \/ \E x : Settled(x)

LEMMA FinishMoves == ASSUME Types, NEW c \in Calls, Finish(c) PROVE Moves /\ StagesKept
<1> DEFINE s == calls[c].stage
           o == The(calls[c].val)
<1>1. Outcome(o)
  BY Held DEF Types, Finish, Working
<1>2. CASE calls' = [calls EXCEPT ![c].phase = "handling"] /\ UNCHANGED workflow
  <2>1. \A d \in Calls : calls'[d].stage = calls[d].stage
    BY <1>2 DEF Types, CallsTyped, Shape
  <2> QED BY <1>2, <2>1 DEF StagesKept, Moves, Left, workflow
<1>3. CASE Return(c, o)
  BY <1>1, <1>3, ReturnMoves, ReturnKeeps DEF Moves
<1>4. CASE \E x : Return(c, Done(x))
  BY <1>4, Outcomes, ReturnMoves, ReturnKeeps DEF Moves
<1> QED BY <1>2, <1>3, <1>4 DEF Finish

LEMMA StoreOcrMoves == ASSUME Types, NEW c \in Calls, StoreOcr(c) PROVE Moves /\ StagesKept
<1>1. Outcome(The(calls[c].val))
  BY Held DEF Types, StoreOcr, Working
<1> QED BY <1>1, Outcomes, ReturnMoves, ReturnKeeps DEF Moves, StoreOcr

LEMMA ExtractMoves == ASSUME Types, NEW c \in Calls, Extract(c) PROVE Moves /\ StagesKept
<1>1. PICK x : calls' = [calls EXCEPT ![c].phase = "storing", ![c].val = {Done(x)}]
  BY DEF Extract
<1>2. \A d \in Calls : calls'[d].stage = calls[d].stage
  BY <1>1 DEF Types, CallsTyped, Shape
<1> QED BY <1>2 DEF Extract, Moves, Left, workflow, StagesKept

LEMMA StoreExtractionMoves ==
    ASSUME Types, NEW c \in Calls, StoreExtraction(c) PROVE Moves /\ StagesKept
<1>1. PICK o : Return(c, o) /\ Outcome(o)
  BY Outcomes DEF StoreExtraction
<1> QED BY <1>1, ReturnMoves, ReturnKeeps DEF Moves

LEMMA StepMoves == ASSUME Types, [Next]_vars PROVE Moves /\ StagesKept
<1>1. ASSUME NEW c \in Calls, CallStep(c) PROVE Moves /\ StagesKept
  BY <1>1, CallMoves, GiveUpMoves, TimeOutMoves, BeginMoves, FinishMoves, StoreOcrMoves,
     ExtractMoves, StoreExtractionMoves DEF CallStep, Moves
<1>2. ASSUME NEW s \in Services, Restart(s) PROVE Moves /\ StagesKept
  BY <1>2, RestartMoves DEF Moves
<1>3. CASE Review
  BY <1>3 DEF Review, Moves, StagesKept
<1>4. CASE UNCHANGED vars
  BY <1>4 DEF vars, workflow, Moves, Left, StagesKept
<1> QED BY <1>1, <1>2, <1>3, <1>4 DEF Next

\* No answer is ever replaced.
Stand == \A s \in Asking : answer[s] # {} => answer'[s] = answer[s]

LEMMA AnswersStand == ASSUME Types, InOrder, Moves PROVE Stand
<1>1. ASSUME NEW x, Settled(x) PROVE Stand
  BY <1>1 DEF Settled, Stand, Types, WorkflowTyped, InOrder, Order1, Asking
<1>2. CASE Review
  BY <1>2 DEF Review, Stand, Types, WorkflowTyped, InOrder, Order1, Asking
<1> QED BY <1>1, <1>2 DEF Moves, Left, Fails, Stand

\* The stage after an answer asks with that answer.
LEMMA AfterBefore ==
    ASSUME NEW s \in Stages, NEW x, After(s, x) \in Asking
    PROVE  After(s, x) # s /\ After(s, x) # "preprocess" /\ Before(After(s, x)) = s
BY DEF After, Before, Asking, Stages, Services

LEMMA BeforeAsking == \A s \in Asking \ {"preprocess"} : Before(s) \in Asking
BY DEF Before, Asking, Stages, Services

\* What has been begun stays begun, and what is begun now was so, or comes next.
LEMMA OrderStep == ASSUME Types, InOrder, Moves, StagesKept PROVE InOrder'
<1>1. Stand
  BY AnswersStand
<1>2. ASSUME Left PROVE InOrder'
  <2>1. \A s \in Asking : Begun(s)' => Begun(s)
    BY <1>2 DEF Left, StagesKept, Begun, Asking, Stages, Services
  <2> QED BY <1>2, <2>1 DEF Left, InOrder, Order1, Order2, Order3
<1>3. ASSUME UNCHANGED answer, stage' \in {"failed", "rejected"}, stage \in Asking PROVE InOrder'
  <2>1. \A c \in Calls : calls'[c].stage \in {calls[c].stage, "none"}
    BY <1>3 DEF StagesKept, Left, Asking, Stages, Services
  <2>2. \A s \in Asking : Begun(s)' => Begun(s)
    BY <1>3, <2>1 DEF Begun, Asking, Stages, Services
  <2> QED BY <1>3, <2>2 DEF InOrder, Order1, Order2, Order3, Asking, Stages, Services
<1>4. ASSUME NEW x, answer' = [answer EXCEPT ![stage] = {x}], stage \in Asking, stage' # stage,
             stage' \in Asking => stage' # "preprocess" /\ Before(stage') = stage
      PROVE  Order1' /\ Order2'
  <2>1. answer[stage] = {} /\ answer'[stage] = {x}
    BY <1>4 DEF InOrder, Order1, Types, WorkflowTyped
  <2>2. \A c \in Calls : calls'[c].stage \in {calls[c].stage, "none"}
    BY <1>4 DEF StagesKept, Left
  <2>3. \A s \in Asking : Begun(s)' => Begun(s) \/ s = stage'
    BY <1>4, <2>2 DEF Begun, Asking, Stages, Services, Types, WorkflowTyped
  <2>4. Order2'
    <3> SUFFICES ASSUME NEW s \in Asking \ {"preprocess"}, Begun(s)' PROVE answer'[Before(s)] # {}
      BY DEF Order2
    <3>1. CASE Begun(s)
      BY <1>1, <3>1, BeforeAsking DEF InOrder, Order2, Stand
    <3>2. CASE s = stage'
      BY <1>4, <2>1, <3>2
    <3> QED BY <2>3, <3>1, <3>2
  <2>5. Order1'
    <3> SUFFICES ASSUME stage' \in Asking PROVE answer'[stage'] = {}
      BY DEF Order1
    <3>1. answer'[stage'] = answer[stage']
      BY <1>4 DEF Types, WorkflowTyped
    <3>2. answer[stage'] # {} => answer[stage] # {}
      BY <1>4 DEF InOrder, Order2, Begun
    <3> QED BY <2>1, <3>1, <3>2
  <2> QED BY <2>4, <2>5
<1>5. ASSUME NEW x, Settled(x) PROVE InOrder'
  <2>1. /\ stage \in Asking /\ answer' = [answer EXCEPT ![stage] = {x}]
        /\ stage' = After(stage, x)
    BY <1>5 DEF Settled, Asking
  <2>2. stage' # stage /\ (stage' \in Asking => stage' # "preprocess" /\ Before(stage') = stage)
    BY <1>5, <2>1, AfterBefore DEF Settled, After, Asking, Stages, Services
  <2>3. Order1' /\ Order2'
    BY <1>4, <2>1, <2>2
  <2>4. Order3'
    <3> SUFFICES ASSUME stage' = "delivered" PROVE Order3'
      BY DEF Order3
    <3>1. \/ stage = "validate" /\ x.verdict = "auto_approved"
          \/ stage = "revalidate" /\ x.verdict = "human_approved"
      BY <1>5 DEF Settled, After, Stages, Services
    <3>2. answer'[stage] = {x} /\ The(answer'[stage]) = x /\ answer[stage] = {}
      BY <2>1, TheOne DEF InOrder, Order1, Types, WorkflowTyped
    <3>3. CASE stage = "validate"
      <4>1. answer["review"] = {}
        BY <3>2, <3>3 DEF InOrder, Order2, Begun, Before, Asking
      <4>2. answer'["review"] = {}
        BY <2>1, <3>3, <4>1 DEF Types, WorkflowTyped, Asking
      <4> QED BY <3>1, <3>2, <3>3, <4>2 DEF Order3
    <3>4. CASE stage = "revalidate"
      <4>1. answer["review"] # {}
        BY <3>4 DEF InOrder, Order2, Begun, Before, Asking, Stages
      <4>2. answer["validate"] # {}
        BY <4>1 DEF InOrder, Order2, Begun, Before, Asking
      <4>3. answer'["review"] # {} /\ answer'["validate"] # {}
        BY <1>1, <4>1, <4>2 DEF Stand, Asking, Stages, Services
      <4> QED BY <3>1, <3>2, <3>4, <4>3 DEF Order3
    <3> QED BY <3>1, <3>3, <3>4
  <2> QED BY <2>3, <2>4 DEF InOrder
<1>6. CASE Review
  <2>1. stage = "review" /\ stage \in Asking
    BY <1>6 DEF Review, Asking
  <2>2. CASE stage' = "rejected" /\ UNCHANGED answer
    BY <1>3, <2>1, <2>2
  <2>3. ASSUME NEW r, answer' = [answer EXCEPT !["review"] = {r}], stage' = "revalidate"
        PROVE  InOrder'
    <3>1. stage' # stage /\ stage' # "preprocess" /\ Before(stage') = stage
      BY <2>1, <2>3 DEF Before
    <3>2. Order1' /\ Order2'
      BY <1>4, <2>1, <2>3, <3>1
    <3> QED BY <2>3, <3>2 DEF InOrder, Order3
  <2> QED BY <1>6, <2>2, <2>3 DEF Review
<1>7. CASE Fails
  BY <1>3, <1>7 DEF Fails, Asking
<1> QED BY <1>2, <1>5, <1>6, <1>7 DEF Moves

-----------------------------------------------------------------------------
(* What the services compute *)

LEMMA OneMore ==
    ASSUME NEW S, NEW x, NEW n \in Nat, IsFiniteSet(S), Cardinality(S) <= n
    PROVE  IsFiniteSet(S \cup {x}) /\ Cardinality(S \cup {x}) <= n + 1
<1>1. Cardinality(S) \in Nat
  BY FS_CardinalityType
<1>2. /\ IsFiniteSet(S \cup {x})
      /\ Cardinality(S \cup {x}) = IF x \in S THEN Cardinality(S) ELSE Cardinality(S) + 1
  BY FS_AddElement
<1> QED BY <1>1, <1>2

LEMMA FiveOrLess ==
    ASSUME NEW a, NEW b, NEW c, NEW d, NEW e
    PROVE  IsFiniteSet({a, b, c, d, e}) /\ Cardinality({a, b, c, d, e}) <= 5
<1> DEFINE S1 == {a}
           S2 == S1 \cup {b}
           S3 == S2 \cup {c}
           S4 == S3 \cup {d}
           S5 == S4 \cup {e}
<1>1. IsFiniteSet(S1) /\ Cardinality(S1) <= 1
  <2>1. IsFiniteSet({a}) /\ Cardinality({a}) = 1
    BY ONLY FS_Singleton
  <2> QED BY ONLY <2>1, 1 <= 1
<1>6. S5 = {a, b, c, d, e}
  OBVIOUS
<1> HIDE DEF S1
<1>2. IsFiniteSet(S2) /\ Cardinality(S2) <= 2
  <2>1. 1 \in Nat /\ 1 + 1 = 2
    OBVIOUS
  <2> QED BY ONLY <1>1, <2>1, OneMore
<1> HIDE DEF S2
<1>3. IsFiniteSet(S3) /\ Cardinality(S3) <= 3
  <2>1. 2 \in Nat /\ 2 + 1 = 3
    OBVIOUS
  <2> QED BY ONLY <1>2, <2>1, OneMore
<1> HIDE DEF S3
<1>4. IsFiniteSet(S4) /\ Cardinality(S4) <= 4
  <2>1. 3 \in Nat /\ 3 + 1 = 4
    OBVIOUS
  <2> QED BY ONLY <1>3, <2>1, OneMore
<1> HIDE DEF S4
<1>5. IsFiniteSet(S5) /\ Cardinality(S5) <= 5
  <2>1. 4 \in Nat /\ 4 + 1 = 5
    OBVIOUS
  <2> QED BY ONLY <1>4, <2>1, OneMore
<1> HIDE DEF S5
<1> QED BY ONLY <1>5, <1>6

\* An extractor looks for five fields.
LEMMA SchemaSize ==
    ASSUME NEW r \in Routes
    PROVE  IsFiniteSet(Schema[r]) /\ Cardinality(Schema[r]) <= 5
<1>1. CASE r = "invoice"
  BY <1>1, FiveOrLess DEF Schema
<1>2. CASE r = "receipt"
  BY <1>2, FiveOrLess DEF Schema
<1>3. CASE r = "contract"
  BY <1>3, FiveOrLess DEF Schema
<1>4. CASE r = "purchase_order"
  BY <1>4, FiveOrLess DEF Schema
<1>5. CASE r = "bank_statement"
  BY <1>5, FiveOrLess DEF Schema
<1>6. CASE r = "generic"
  BY <1>6, FiveOrLess DEF Schema
<1> QED BY <1>1, <1>2, <1>3, <1>4, <1>5, <1>6 DEF Routes, Strict

LEMMA FoundSize ==
    ASSUME NEW r \in Routes, NEW text
    PROVE  /\ Found(r, text) \subseteq Schema[r]
           /\ Cardinality(Found(r, text)) \in Nat /\ Cardinality(Found(r, text)) <= 5
<1>1. Found(r, text) \subseteq Schema[r]
  BY DEF Found
<1>2. /\ IsFiniteSet(Found(r, text))
      /\ Cardinality(Found(r, text)) <= Cardinality(Schema[r])
  BY <1>1, SchemaSize, FS_Subset
<1>3. Cardinality(Found(r, text)) \in Nat /\ Cardinality(Schema[r]) \in Nat
  BY <1>2, SchemaSize, FS_CardinalityType
<1> QED BY <1>1, <1>2, <1>3, SchemaSize

LEMMA ClassifyRoutes == ASSUME NEW d, NEW ocr PROVE Classify(d, ocr) \in Routes
<1> DEFINE sure(r)  == Least(9900, 2000 + 100 * Score(d, r) + Part(12, ocr.conf))
           rank(i)  == 10 * sure(Order[i]) + Cardinality(d.matched[Order[i]])
           best     == {i \in DOMAIN Order : \A j \in DOMAIN Order : rank(j) <= rank(i)}
           first    == {i \in best : \A j \in best : i <= j}
           chosen   == {i \in first : sure(Order[i]) >= RouteRules[Order[i]].threshold}
<1>1. Classify(d, ocr) = IF ocr.fallback \/ chosen = {} THEN "generic" ELSE Order[The(chosen)]
  BY DEF Classify
<1>2. chosen \subseteq DOMAIN Order
  OBVIOUS
<1> HIDE DEF chosen
<1>3. chosen # {} => The(chosen) \in DOMAIN Order
  BY <1>2 DEF The
<1>4. \A i \in DOMAIN Order : Order[i] \in Strict
  BY DEF Order, Strict
<1> QED BY <1>1, <1>3, <1>4 DEF Routes

LEMMA ReadConfidence ==
    ASSUME NEW d \in Documents, NEW e, NEW f, NEW g
    PROVE  ReadPages(d, e, f, g).read.conf \in Nat
<1>1. d.primary \in Nat /\ d.secondary \in Nat
  BY ServicesAssumption
<1> QED BY <1>1 DEF ReadPages, Failed, Ocr

\* Fields of one route's schema hint at no other route.
LEMMA Hinted ==
    ASSUME NEW R \in Routes, NEW fields, fields \subseteq Schema[R], NEW i \in DOMAIN Order,
           Hints[Order[i]] \cap fields # {}
    PROVE  Order[i] = R
<1>1. Order[i] \in Strict
  BY DEF Order, Strict
<1>2. \A S \in Strict : S # R => Hints[S] \cap Schema[R] = {}
  BY DEF Strict, Routes, Hints, Schema
<1> QED BY <1>1, <1>2

\* A route that is not given is the one that the fields hint at.
LEMMA InferredRoute ==
    ASSUME NEW R \in Routes, NEW fields, fields \subseteq Schema[R], NEW given \in {R, "none"}
    PROVE  InferRoute(fields, given) \in {R, "generic"}
<1> DEFINE hinted == {i \in DOMAIN Order : Hints[Order[i]] \cap fields # {}}
<1>1. CASE given \in Strict
  BY <1>1 DEF InferRoute, Strict
<1>2. CASE given \notin Strict /\ hinted = {}
  BY <1>2 DEF InferRoute
<1>3. CASE given \notin Strict /\ hinted # {}
  <2> DEFINE k == CHOOSE i \in hinted : \A j \in hinted : i <= j
  <2>1. InferRoute(fields, given) = Order[k]
    BY <1>3 DEF InferRoute
  <2>2. hinted \subseteq 1 .. 5 /\ DOMAIN Order = 1 .. 5
    BY DEF Order
  <2>3. \E i \in hinted : \A j \in hinted : i <= j
    <3>1. ASSUME NEW S \in SUBSET (1 .. 5), S # {} PROVE \E i \in S : \A j \in S : i <= j
      <4>1. CASE 1 \in S
        BY <4>1
      <4>2. CASE 1 \notin S /\ 2 \in S
        BY <4>2
      <4>3. CASE 1 \notin S /\ 2 \notin S /\ 3 \in S
        BY <4>3
      <4>4. CASE 1 \notin S /\ 2 \notin S /\ 3 \notin S
        <5>1. \A j \in S : j = 4 \/ j = 5
          BY <4>4
        <5>2. CASE 4 \in S
          BY <5>1, <5>2
        <5>3. CASE 4 \notin S
          <6>1. \A j \in S : j = 5
            BY <5>1, <5>3
          <6>2. 5 \in S
            BY <3>1, <6>1
          <6> QED BY <6>1, <6>2
        <5> QED BY <5>2, <5>3
      <4> QED BY <4>1, <4>2, <4>3, <4>4
    <3> QED BY <1>3, <2>2, <3>1
  <2> HIDE DEF hinted
  <2>4. k \in hinted
    BY <2>3
  <2>5. k \in DOMAIN Order /\ Hints[Order[k]] \cap fields # {}
    BY <2>4 DEF hinted
  <2> HIDE DEF k
  <2> QED BY <2>1, <2>5, Hinted
<1> QED BY <1>1, <1>2, <1>3

\* What the rules approve without a person has the route that its fields were
\* drawn for, is sure, and is not of the model where that may not be.
LEMMA JudgeEarned ==
    ASSUME NEW R \in Routes, NEW p, p.fields \subseteq Schema[R], p.route \in {R, "none"},
           ~ p.human, Judge(p).verdict = "auto_approved"
    PROVE  Judge(p).route = R /\ p.conf >= 9000 /\ p.sure >= 6000 /\ (R \in Strict => ~ p.vlm)
<1> DEFINE route   == InferRoute(p.fields, p.route)
           rules   == Rules[route]
           missing == rules.required \ p.fields
           gated   == /\ p.sure >= 6000 \/ rules.required \cap p.fields = {}
                      /\ p.conf >= 9000
                      /\ p.vlm => rules.vlm
           reject  == p.fields = {} \/ (~p.human /\ p.conf < 2500 /\ missing # {})
           review  == missing # {} \/ rules.formatted \cap p.odd # {} \/ ~(p.human \/ gated)
<1>1. Judge(p).route = route
  BY DEF Judge
<1>2. ~ reject /\ ~ review
  BY DEF Judge
<1>3. missing = {} /\ gated
  BY <1>2
<1>4. route \in {R, "generic"}
  BY InferredRoute
<1> HIDE DEF route
<1>5. rules.required \subseteq p.fields
  BY <1>3
<1>6. route = R
  <2>1. "summary" \in Schema[R] => R = "generic"
    BY DEF Routes, Strict, Schema
  <2>2. Rules["generic"].required = {"summary"}
    BY DEF Rules, Ruleset
  <2> QED BY <1>4, <1>5, <2>1, <2>2
<1>7. rules.required # {}
  BY <1>6 DEF Rules, Ruleset, Routes, Strict
<1>8. R \in Strict => rules.vlm = FALSE
  BY <1>6 DEF Rules, Ruleset, Strict
<1> QED BY <1>1, <1>3, <1>5, <1>6, <1>7, <1>8

LEMMA Quotient ==
    ASSUME NEW a \in Nat, NEW b \in Nat \ {0}, NEW k \in Nat
    PROVE  a \div b \in Nat /\ (a \div b >= k => b * k <= a)
<1> DEFINE q == a \div b
<1>1. q \in Nat /\ b * q <= a
  OBVIOUS
<1> HIDE DEF q
<1>2. q >= k => b * k <= b * q
  BY <1>1
<1>3. b * k \in Nat /\ b * q \in Nat
  BY <1>1
<1>4. q >= k => b * k <= a
  BY <1>1, <1>2, <1>3
<1> QED BY <1>1, <1>4 DEF q

\* Parts of the reading reach what approval needs only if the reading does.
LEMMA PartBound ==
    ASSUME NEW conf \in Nat
    PROVE  /\ Part(60, conf) \in Nat /\ (Part(60, conf) >= 5000 => AtLeast(conf, 83325))
           /\ Part(75, conf) \in Nat /\ (Part(75, conf) >= 3500 => AtLeast(conf, 46660))
<1> DEFINE a(p) == 200 * p * conf + Full
           b == 2 * Full
<1>0. Full \in Nat \ {0}
  BY ServicesAssumption
<1>1. a(60) \in Nat /\ a(75) \in Nat /\ b \in Nat \ {0}
  BY <1>0
<1>2. Part(60, conf) = a(60) \div b /\ Part(75, conf) = a(75) \div b
  BY DEF Part
<1>3. b * 5000 <= a(60) => AtLeast(conf, 83325)
  BY <1>0 DEF AtLeast
<1>4. b * 3500 <= a(75) => AtLeast(conf, 46660)
  BY <1>0 DEF AtLeast
<1> HIDE DEF a, b
<1>5. a(60) \div b \in Nat /\ (a(60) \div b >= 5000 => b * 5000 <= a(60))
  BY <1>1, Quotient
<1>6. a(75) \div b \in Nat /\ (a(75) \div b >= 3500 => b * 3500 <= a(75))
  BY <1>1, Quotient
<1>7. Part(60, conf) \in Nat /\ (Part(60, conf) >= 5000 => AtLeast(conf, 83325))
  BY <1>2, <1>3, <1>5
<1>8. Part(75, conf) \in Nat /\ (Part(75, conf) >= 3500 => AtLeast(conf, 46660))
  BY <1>2, <1>4, <1>6
<1> QED BY <1>7, <1>8

\* So do the scores of the document and of its fields, whatever layout adds.
LEMMA ScoreBound ==
    ASSUME NEW conf \in Nat, NEW used
    PROVE  /\ \A n \in Nat : n <= 5 =>
                /\ Fill(conf, n, used) \in Nat
                /\ Fill(conf, n, used) >= 9000 => AtLeast(conf, 83325)
           /\ FieldSure(conf, used) >= 6000 => AtLeast(conf, 46660)
<1> DEFINE p == Part(60, conf)
           q == Part(75, conf)
           z == Bonus(used)
<1>1. p \in Nat /\ q \in Nat /\ z \in Nat /\ z <= 500
  BY PartBound DEF Bonus
<1>2. \A n \in Nat : Fill(conf, n, used) = Least(9900, p + 700 * n + z)
  BY DEF Fill
<1>3. FieldSure(conf, used) = Least(9900, q + 2000 + z)
  BY DEF FieldSure
<1>4. (p >= 5000 => AtLeast(conf, 83325)) /\ (q >= 3500 => AtLeast(conf, 46660))
  BY PartBound
<1> HIDE DEF p, q, z
<1>5. \A n \in Nat : n <= 5 =>
        /\ Least(9900, p + 700 * n + z) \in Nat
        /\ Least(9900, p + 700 * n + z) >= 9000 => p >= 5000
  BY <1>1 DEF Least
<1>6. Least(9900, q + 2000 + z) >= 6000 => q >= 3500
  BY <1>1 DEF Least
<1> QED BY <1>2, <1>3, <1>4, <1>5, <1>6

\* The fields are of the route; the model aside, they are as sure as the
\* reading, and the reading is as sure as they have to be.
LEMMA ExtractionBound ==
    ASSUME NEW d, NEW r \in Routes, NEW ctx, NEW conf \in Nat, NEW vlm
    PROVE  LET x == Extraction(d, r, ctx, conf, vlm)
           IN  /\ x.route = r /\ x.fields \subseteq Schema[r]
               /\ ~ x.vlm /\ x.conf >= 9000 => AtLeast(conf, 83325)
               /\ x.sure >= 6000 => AtLeast(conf, 46660)
<1> DEFINE found  == Found(r, ctx.text)
           llm    == IF vlm = {} THEN NoAnswer ELSE The(vlm)
           fields == Merge(r, found, llm)
           rules  == Fill(conf, Cardinality(found), ctx.used)
           raised == Greatest(rules, Least(10000, llm.conf))
           x      == Extraction(d, r, ctx, conf, vlm)
<1>1. /\ x.route = r /\ x.fields = fields
      /\ x.sure = FieldSure(conf, ctx.used)
      /\ x.conf = IF fields = Schema[r] THEN raised
                  ELSE Least(raised, Fill(conf, Cardinality(fields), ctx.used))
  BY DEF Extraction
<1>2. found \subseteq Schema[r] /\ Cardinality(found) \in Nat /\ Cardinality(found) <= 5
  BY FoundSize
<1>3. fields \subseteq Schema[r]
  BY <1>2 DEF Merge
<1>5. \A n \in Nat : n <= 5 =>
        /\ Fill(conf, n, ctx.used) \in Nat
        /\ Fill(conf, n, ctx.used) >= 9000 => AtLeast(conf, 83325)
  BY ScoreBound
<1>6. FieldSure(conf, ctx.used) >= 6000 => AtLeast(conf, 46660)
  BY ScoreBound
<1>7. ASSUME vlm = {} PROVE x.conf = rules
  <2>1. llm = NoAnswer
    BY <1>7
  <2>2. fields = found
    BY <2>1 DEF Merge, NoAnswer
  <2>3. raised = rules
    BY <1>2, <1>5, <2>1 DEF NoAnswer, Greatest, Least
  <2> QED BY <1>1, <2>2, <2>3 DEF Least
<1>8. ~ x.vlm /\ x.conf >= 9000 => AtLeast(conf, 83325)
  <2>1. ~ x.vlm => vlm = {}
    BY DEF Extraction
  <2> HIDE DEF x
  <2> QED BY <1>2, <1>5, <1>7, <2>1
<1> HIDE DEF x, fields
<1>9. /\ x.route = r /\ x.fields \subseteq Schema[r]
      /\ ~ x.vlm /\ x.conf >= 9000 => AtLeast(conf, 83325)
      /\ x.sure >= 6000 => AtLeast(conf, 46660)
  BY <1>1, <1>3, <1>6, <1>8
<1> QED BY <1>9 DEF x

-----------------------------------------------------------------------------
(* Results *)

\* The answers that a request was made from are there.
LEMMA Behind ==
    ASSUME InOrder
    PROVE  /\ Begun("extract") => answer["classify"] # {} /\ answer["ocr"] # {}
           /\ Begun("validate") => answer["extract"] # {} /\ Begun("extract")
           /\ Begun("review") => answer["validate"] # {} /\ Begun("validate")
           /\ Begun("revalidate") => answer["review"] # {} /\ Begun("review")
<1>1. \A s \in Asking \ {"preprocess"} : Begun(s) => answer[Before(s)] # {} /\ Begun(Before(s))
  BY DEF InOrder, Order2, Begun
<1>2. /\ Before("layout") = "ocr" /\ Before("classify") = "layout"
      /\ Before("extract") = "classify" /\ Before("validate") = "extract"
      /\ Before("review") = "validate" /\ Before("revalidate") = "review"
  BY DEF Before
<1>3. {"layout", "classify", "extract", "validate", "review", "revalidate"} \subseteq Asking \ {"preprocess"}
  BY DEF Asking, Stages, Services
<1> QED BY <1>1, <1>2, <1>3

LEMMA SureStands ==
    ASSUME InOrder, Stand, Begun("extract") PROVE Sure' = Sure /\ Route' = Route
BY Behind DEF Stand, Sure, Route, Asking, Stages, Services

LEMMA HumanStands ==
    ASSUME InOrder, Stand, answer["review"] # {}
    PROVE  Human' = Human /\ \A b : HumanAt(b)' = HumanAt(b)
<1>1. answer["extract"] # {}
  BY Behind DEF Begun
<1>2. answer'["extract"] = answer["extract"] /\ answer'["review"] = answer["review"]
  BY <1>1 DEF Stand, Asking, Stages, Services
<1>3. Human' = Human
  BY <1>2 DEF Human
<1> QED BY <1>3 DEF HumanAt

\* What fits goes on fitting, since no answer is replaced.
LEMMA FitsStands ==
    ASSUME InOrder, Stand, NEW s, NEW ph, NEW x, Begun(s), Fits(s, ph, x)
    PROVE  Fits(s, ph, x)'
<1>1. CASE s \notin {"extract", "validate", "revalidate"}
  BY <1>1 DEF Fits
<1>2. CASE s = "extract"
  BY <1>2, SureStands DEF Fits, Extracted, Drawn
<1>3. CASE s = "validate"
  BY <1>3, SureStands, Behind DEF Fits, Judged
<1>4. CASE s = "revalidate"
  BY <1>4, HumanStands, Behind DEF Fits
<1> QED BY <1>1, <1>2, <1>3, <1>4

ReviewsKept ==
    \A b \in {"main", "spare"} : store[<<"review", b>>] # {} => store'[<<"review", b>>] # {}

LEMMA AnswerStands ==
    ASSUME InOrder, Stand, ReviewsKept, NEW s, NEW x, Begun(s), AnswerFits(s, x)
    PROVE  AnswerFits(s, x)'
<1>1. CASE s \notin {"extract", "validate", "revalidate"}
  BY <1>1 DEF AnswerFits
<1>2. CASE s = "extract"
  BY <1>2, SureStands DEF AnswerFits, Drawn
<1>3. CASE s = "validate"
  BY <1>3, SureStands, Behind DEF AnswerFits, Judged
<1>4. CASE s = "revalidate"
  BY <1>4, HumanStands, Behind DEF AnswerFits, ReviewsKept
<1> QED BY <1>1, <1>2, <1>3, <1>4

\* A request that is as far as it was, or that computes nothing.
RowKept(c) ==
    \/ calls'[c].phase \notin Working
    \/ /\ calls'[c].phase = calls[c].phase /\ calls'[c].stage = calls[c].stage
       /\ calls'[c].val = calls[c].val

LEMMA KeptFits ==
    ASSUME InOrder, Stand, CallsFit, NEW c \in Calls, RowKept(c) PROVE RowFits(calls[c])'
<1> SUFFICES ASSUME calls'[c].phase \in Working, The(calls'[c].val).ok
             PROVE  Fits(calls[c].stage, calls[c].phase, The(The(calls[c].val).out))'
  BY DEF RowFits
<1>1. /\ calls'[c].phase = calls[c].phase /\ calls'[c].stage = calls[c].stage
      /\ calls'[c].val = calls[c].val
  BY DEF RowKept
<1>2. PICK z, p, y :
        /\ z = calls[c].stage /\ p = calls[c].phase /\ y = The(The(calls[c].val).out)
        /\ Fits(z, p, y) /\ Begun(z)
  BY <1>1 DEF CallsFit, RowFits, Begun
<1>3. Fits(z, p, y)'
  BY <1>2, FitsStands
<1>4. /\ z = calls'[c].stage /\ p = calls'[c].phase /\ y = The(The(calls'[c].val).out)
  BY <1>1, <1>2
<1> QED BY <1>3, <1>4

\* What is in the store fits as long as it is there.
ExtractionFits(b) ==
    store[<<"extraction", b>>] # {} => /\ answer["classify"] # {}
                                       /\ Extracted(The(store[<<"extraction", b>>]))
ReviewFits(b) ==
    store[<<"review", b>>] # {} => /\ answer["review"] # {}
                                   /\ store[<<"review", b>>] = {HumanAt(b)}

LEMMA StoreFitsParts ==
    /\ StoreFits <=> \A b \in {"main", "spare"} : ExtractionFits(b) /\ ReviewFits(b)
    /\ StoreFits' <=> \A b \in {"main", "spare"} : ExtractionFits(b)' /\ ReviewFits(b)'
BY DEF StoreFits, ExtractionFits, ReviewFits

LEMMA ExtractionKept ==
    ASSUME InOrder, Stand, NEW b, ExtractionFits(b),
           store'[<<"extraction", b>>] = store[<<"extraction", b>>]
    PROVE  ExtractionFits(b)'
<1> SUFFICES ASSUME store[<<"extraction", b>>] # {}
             PROVE  answer'["classify"] # {} /\ Extracted(The(store[<<"extraction", b>>]))'
  BY DEF ExtractionFits
<1>1. answer["classify"] # {} /\ Extracted(The(store[<<"extraction", b>>]))
  BY DEF ExtractionFits
<1>2. answer["ocr"] # {}
  BY <1>1 DEF InOrder, Order2, Begun, Before, Asking, Stages, Services
<1>3. answer'["classify"] = answer["classify"] /\ Sure' = Sure /\ Route' = Route
  BY <1>1, <1>2 DEF Stand, Sure, Route, Asking, Stages, Services
<1> QED BY <1>1, <1>3 DEF Extracted, Drawn

LEMMA ReviewKept ==
    ASSUME InOrder, Stand, NEW b, ReviewFits(b),
           store'[<<"review", b>>] = store[<<"review", b>>]
    PROVE  ReviewFits(b)'
<1>1. CASE store[<<"review", b>>] = {}
  BY <1>1 DEF ReviewFits
<1>2. CASE store[<<"review", b>>] # {}
  <2>1. answer["review"] # {} /\ store[<<"review", b>>] = {HumanAt(b)}
    BY <1>2 DEF ReviewFits
  <2>2. answer'["review"] = answer["review"] /\ HumanAt(b)' = HumanAt(b)
    BY <2>1, HumanStands DEF Stand, Asking
  <2> QED BY <2>1, <2>2 DEF ReviewFits
<1> QED BY <1>1, <1>2

\* The answers fit after a step: those that were there, and the new one.
LEMMA AnswersFitStep ==
    ASSUME Types, InOrder, Stand, ReviewsKept, AnswersFit,
           \/ Left \/ Fails \/ Review
           \/ \E s, x : s = stage /\ Settled(x) /\ AnswerFits(s, x)'
    PROVE  AnswersFit'
<1> SUFFICES ASSUME NEW s \in Asking, answer'[s] # {} PROVE AnswerFits(s, The(answer[s]))'
  BY DEF AnswersFit
<1>1. CASE answer[s] # {}
  <2>1. PICK x : x = The(answer[s]) /\ AnswerFits(s, x)
    BY <1>1 DEF AnswersFit
  <2>2. AnswerFits(s, x)' /\ answer'[s] = answer[s]
    BY <1>1, <2>1, AnswerStands DEF Begun, Stand
  <2> QED BY <2>1, <2>2
<1>2. CASE answer[s] = {}
  <2>1. CASE Left \/ Fails
    BY <1>2, <2>1 DEF Left, Fails
  <2>2. CASE Review
    <3>1. s = "review"
      BY <1>2, <2>2 DEF Review, Types, WorkflowTyped, Asking
    <3> QED BY <3>1 DEF AnswerFits
  <2>3. ASSUME NEW z, NEW x, z = stage, Settled(x), AnswerFits(z, x)'
        PROVE  AnswerFits(s, The(answer[s]))'
    <3>1. s = z /\ x = The(answer'[s])
      BY <1>2, <2>3, TheOne DEF Settled, Types, WorkflowTyped, Asking
    <3> QED BY <2>3, <3>1
  <2> QED BY <2>1, <2>2, <2>3
<1> QED BY <1>1, <1>2

\* A step that computes and stores nothing, and brings no answer.
LEMMA QuietResults ==
    ASSUME Types, InOrder, Stand, Results, UNCHANGED store,
           Left \/ Fails \/ Review, \A c \in Calls : RowKept(c)
    PROVE  Results'
<1>1. CallsFit'
  BY KeptFits DEF Results, CallsFit
<1>2. AnswersFit'
  BY AnswersFitStep DEF Results, ReviewsKept
<1>3. StoreFits'
  BY StoreFitsParts, ExtractionKept, ReviewKept DEF Results
<1> QED BY <1>1, <1>2, <1>3 DEF Results

\* Call c answers o: with an error, or with a result that fits.
LEMMA ReturnResults ==
    ASSUME Types, InOrder, Stand, Results, ReviewsKept,
           NEW c \in Calls, NEW o, Outcome(o), Return(c, o),
           calls[c].heard /\ o.ok => \E s, x : s = calls[c].stage /\ x = The(o.out) /\ AnswerFits(s, x)'
    PROVE  CallsFit' /\ AnswersFit'
<1>1. \A d \in Calls : RowKept(d)
  BY DEF Return, RowKept, Free, Working, Types, CallsTyped
<1>2. CallsFit'
  BY <1>1, KeptFits DEF Results, CallsFit
<1>3. \/ Left \/ Fails
      \/ \E s, x : s = stage /\ Settled(x) /\ AnswerFits(s, x)'
  BY ReturnMoves
<1>4. AnswersFit'
  BY <1>3, AnswersFitStep DEF Results
<1> QED BY <1>2, <1>4

LEMMA FreePhase == Free.phase \notin Working
BY DEF Free, Working

\* A verdict on fields of the route is one that the route has earned.
LEMMA VerdictJudged ==
    ASSUME Route \in Routes, NEW p, NEW v,
           v.verdict = Judge(p).verdict, v.route = Judge(p).route,
           ~ p.human, p.fields \subseteq Schema[Route], p.route \in {Route, "none"},
           Sure > 0 /\ ~ p.vlm /\ p.conf >= 9000 => AtLeast(Sure, 83325),
           v.loaded /\ Sure > 0 /\ p.sure >= 6000 => AtLeast(Sure, 46660)
    PROVE  Judged(v)
<1>1. CASE Judge(p).verdict = "auto_approved"
  <2> DEFINE R == Route
  <2>1. R \in Routes /\ p.fields \subseteq Schema[R] /\ p.route \in {R, "none"} /\ ~ p.human
    OBVIOUS
  <2> HIDE DEF R
  <2>2. /\ Judge(p).route = R /\ p.conf >= 9000 /\ p.sure >= 6000
        /\ R \in Strict => ~ p.vlm
    BY <1>1, <2>1, JudgeEarned
  <2> QED BY <2>2 DEF Judged, R
<1>2. CASE Judge(p).verdict # "auto_approved"
  BY <1>2 DEF Judged
<1> QED BY <1>1, <1>2

LEMMA OfVerdict ==
    ASSUME NEW p, NEW l
    PROVE  /\ The(Verdict(p, l).out).verdict = Judge(p).verdict
           /\ The(Verdict(p, l).out).route = Judge(p).route
           /\ ~ The(Verdict(p, FALSE).out).loaded
<1>1. \A x : The(Done(x).out) = x
  BY Outcomes
<1>2. /\ The(Verdict(p, l).out).verdict = Judge(p).verdict
      /\ The(Verdict(p, l).out).route = Judge(p).route
  BY <1>1 DEF Verdict
<1>3. The(Verdict(p, FALSE).out).loaded = FALSE
  BY <1>1 DEF Verdict
<1> QED BY <1>2, <1>3

\* Whatever a thread computes fits the answers that it was made from.
LEMMA WorkFits ==
    ASSUME Types, InOrder, Results, NEW s \in Stages, Begun(s), NEW m,
           NEW o \in Work(s, m), o.ok
    PROVE  Fits(s, "running", The(o.out))
<1>1. CASE s \in {"preprocess", "layout"}
  BY <1>1 DEF Fits
<1>2. CASE s = "ocr"
  <2>1. PICK f, g : o = OcrOutcome(ReadPages(doc, engine, f, g))
    BY <1>2 DEF Work, OcrWork
  <2>2. o = Done(ReadPages(doc, engine, f, g).read)
    <3>1. \A r : OcrOutcome(r) \in {Done(r.read), Refused, Again}
      BY DEF OcrOutcome
    <3> QED BY <2>1, <3>1, Outcomes
  <2>3. The(o.out).conf \in Nat
    BY <2>2, Outcomes, ReadConfidence DEF Types, OthersTyped
  <2> QED BY <1>2, <2>3 DEF Fits
<1>3. CASE s = "classify"
  <2>1. o = Done(Classify(doc, The(store[<<"ocr", "main">>])))
    BY <1>3, Outcomes DEF Work, RouteWork
  <2> QED BY <1>3, <2>1, Outcomes, ClassifyRoutes DEF Fits
<1>4. CASE s = "extract"
  <2>1. PICK ocr, x, f : /\ o = Done([ctx |-> x, fallback |-> f, conf |-> IF Sure > 0 THEN Sure ELSE ocr])
    BY <1>4, Outcomes DEF Work, ContextWork, Sure
  <2>2. Sure > 0 => The(o.out).conf = Sure
    BY <2>1, Outcomes
  <2> QED BY <1>4, <2>2 DEF Fits
<1>5. CASE s = "validate"
  <2> DEFINE e == The(answer["extract"])
             loaded == store[<<"extraction", e.bucket>>]
             sent   == Verdict(Request(e, e.fields, e.odd, FALSE), FALSE)
             of(a)  == Verdict(Stored(a), TRUE)
             v == The(o.out)
  <2>1. /\ answer["extract"] # {} /\ answer["classify"] # {} /\ answer["ocr"] # {}
        /\ Route \in Routes /\ Sure \in Nat /\ Drawn(e) /\ e.bucket \in {"main", "spare"}
    BY <1>5, Behind DEF Results, AnswersFit, AnswerFits, Asking, Stages, Services, Sure, Route
  <2>2. ASSUME o = sent PROVE Judged(v)
    <3> DEFINE p == Request(e, e.fields, e.odd, FALSE)
    <3>1. v.verdict = Judge(p).verdict /\ v.route = Judge(p).route /\ ~ v.loaded
      BY <2>2, OfVerdict
    <3>2. /\ ~ p.human /\ p.fields = e.fields /\ p.route = "none"
          /\ p.conf = e.conf /\ p.vlm = e.vlm
      BY DEF Request
    <3> HIDE DEF p, v, e
    <3> QED BY <2>1, <3>1, <3>2, VerdictJudged DEF Drawn
  <2>3. ASSUME NEW a \in loaded, o = of(a) PROVE Judged(v)
    <3>1. <<"extraction", e.bucket>> \in Keys
      BY <2>1 DEF Keys
    <3>2. a = The(loaded)
      BY <2>3, <3>1 DEF Types, OthersTyped, Single
    <3>3. Extracted(a)
      BY <2>1, <2>3, <3>2 DEF Results, StoreFits
    <3> DEFINE p == Stored(a)
    <3>4. v.verdict = Judge(p).verdict /\ v.route = Judge(p).route
      BY <2>3, OfVerdict
    <3>5. /\ ~ p.human /\ p.fields = a.fields /\ p.route = a.route
          /\ p.conf = a.conf /\ p.sure = a.sure /\ p.vlm = a.vlm
      BY DEF Stored
    <3> HIDE DEF p, v, e
    <3> QED BY <2>1, <3>3, <3>4, <3>5, VerdictJudged DEF Extracted, Drawn
  <2>4. o = sent \/ \E a \in loaded : o = of(a)
    BY <1>5, Outcomes DEF Work, ValidateWork
  <2> HIDE DEF e, loaded, v, sent, of
  <2>5. Judged(v)
    BY <2>2, <2>3, <2>4
  <2> QED BY <1>5, <2>5 DEF Fits, v
<1>6. CASE s = "revalidate"
  <2> DEFINE e == The(answer["extract"])
             r == The(answer["review"])
  <2>1. o = Verdict(Request(e, r.fields, r.odd, TRUE), FALSE)
    BY <1>6, Outcomes DEF Work, ValidateWork
  <2> QED BY <1>6, <2>1 DEF Fits, Human
<1> QED BY <1>1, <1>2, <1>3, <1>4, <1>5, <1>6 DEF Stages, Services

\* One request changes its phase, and holds a result that fits, or an error.
LEMMA PhaseResults ==
    ASSUME Types, InOrder, Stand, Results, Left, UNCHANGED store,
           NEW c \in Calls, \A d \in Calls \ {c} : calls'[d] = calls[d], RowFits(calls[c])'
    PROVE  Results'
<1>1. ASSUME NEW d \in Calls PROVE RowFits(calls[d])'
  <2>1. CASE d = c
    BY <2>1
  <2>2. CASE d # c
    BY <2>2, KeptFits DEF Results, RowKept
  <2> QED BY <2>1, <2>2
<1>2. CallsFit'
  BY <1>1 DEF CallsFit
<1>3. AnswersFit'
  BY AnswersFitStep DEF Results, ReviewsKept
<1>4. StoreFits'
  BY StoreFitsParts, ExtractionKept, ReviewKept DEF Results
<1> QED BY <1>2, <1>3, <1>4 DEF Results

LEMMA BeginResults ==
    ASSUME Types, InOrder, Stand, Results, NEW c \in Calls, Begin(c) PROVE Results'
<1>1. /\ Left /\ UNCHANGED store /\ answer' = answer
      /\ calls[c].stage \in Stages /\ Shape(calls[c], stage)
  BY BusyRow DEF Begin, Left, workflow, Types
<1>2. PICK s, o : /\ s = calls[c].stage /\ o \in Work(s, model')
                  /\ calls' = [calls EXCEPT ![c].phase = "running", ![c].val = {o}]
  BY DEF Begin
<1>3. /\ calls'[c].phase = "running" /\ calls'[c].stage = s /\ The(calls'[c].val) = o
      /\ \A d \in Calls \ {c} : calls'[d] = calls[d]
  BY <1>1, <1>2, TheOne DEF Shape, Types, CallsTyped
<1>4. CASE o.ok
  <2>1. PICK x : x = The(o.out) /\ Fits(s, "running", x) /\ Begun(s)
    BY <1>1, <1>2, <1>4, WorkFits DEF Begun
  <2>2. Fits(s, "running", x)'
    BY <2>1, FitsStands
  <2>3. RowFits(calls[c])'
    BY <1>3, <2>1, <2>2 DEF RowFits
  <2> QED BY <1>1, <1>3, <2>3, PhaseResults
<1>5. CASE ~ o.ok
  <2>1. RowFits(calls[c])'
    BY <1>3, <1>5 DEF RowFits
  <2> QED BY <1>1, <1>3, <2>1, PhaseResults
<1> QED BY <1>4, <1>5

\* What the extraction handler makes of the text that its thread chose.
LEMMA ExtractResults ==
    ASSUME Types, InOrder, Stand, Results, NEW c \in Calls, Extract(c) PROVE Results'
<1>1. /\ Left /\ UNCHANGED store /\ calls[c].stage = "extract" /\ calls[c].phase = "handling"
      /\ Shape(calls[c], stage) /\ The(calls[c].val).ok
  BY BusyRow, Held DEF Extract, Left, workflow, Types, Working
<1> DEFINE x == The(The(calls[c].val).out)
<1>2. PICK vlm, y : /\ y = Extraction(doc, Route, x.ctx, x.conf, vlm)
                    /\ calls' = [calls EXCEPT ![c].phase = "storing", ![c].val = {Done(y)}]
  BY DEF Extract, Route
<1>3. /\ Begun("extract") /\ Route \in Routes /\ Sure \in Nat
      /\ Sure > 0 => x.conf = Sure
  <2>1. Begun("extract")
    BY <1>1 DEF Begun
  <2>2. Fits("extract", "handling", x)
    BY <1>1 DEF Results, CallsFit, RowFits, Working
  <2> QED BY <2>1, <2>2, Behind DEF Results, AnswersFit, AnswerFits, Asking, Stages, Services,
                                    Sure, Route, Fits
<1> HIDE DEF x
<1>4. Extracted(y)
  <2>1. CASE Sure > 0
    <3>1. /\ y.route = Route /\ y.fields \subseteq Schema[Route]
          /\ ~ y.vlm /\ y.conf >= 9000 => AtLeast(Sure, 83325)
          /\ y.sure >= 6000 => AtLeast(Sure, 46660)
      BY <1>2, <1>3, <2>1, ExtractionBound
    <3> QED BY <3>1 DEF Extracted, Drawn
  <2>2. CASE ~ (Sure > 0)
    <3>1. y.route = Route /\ y.fields \subseteq Schema[Route]
      BY <1>2, <1>3, FoundSize DEF Extraction, Merge
    <3> QED BY <2>2, <3>1 DEF Extracted, Drawn
  <2> QED BY <2>1, <2>2
<1>5. Fits("extract", "storing", y)
  BY <1>4 DEF Fits
<1>6. Fits("extract", "storing", y)'
  BY <1>3, <1>5, FitsStands
<1>7. /\ calls'[c].phase = "storing" /\ calls'[c].stage = "extract"
      /\ The(The(calls'[c].val).out) = y
      /\ \A d \in Calls \ {c} : calls'[d] = calls[d]
  <2>1. /\ calls'[c].phase = "storing" /\ calls'[c].stage = "extract"
        /\ calls'[c].val = {Done(y)} /\ \A d \in Calls \ {c} : calls'[d] = calls[d]
    BY <1>1, <1>2 DEF Shape, Types, CallsTyped
  <2>2. The(calls'[c].val) = Done(y)
    BY <2>1, TheOne
  <2> QED BY <2>1, <2>2, Outcomes
<1>8. RowFits(calls[c])'
  BY <1>6, <1>7 DEF RowFits
<1> QED BY <1>1, <1>7, <1>8, PhaseResults

LEMMA StoreOcrResults ==
    ASSUME Types, InOrder, Stand, Results, NEW c \in Calls, StoreOcr(c) PROVE Results'
<1> DEFINE o == The(calls[c].val)
<1>1. calls[c].stage = "ocr" /\ calls[c].phase = "handling" /\ Outcome(o) /\ o.ok
  BY Held DEF StoreOcr, Types, Working
<1>2. PICK x : x = The(o.out) /\ AnswerFits("ocr", x)
  BY <1>1 DEF Results, CallsFit, RowFits, Fits, AnswerFits, Working
<1>3. AnswerFits("ocr", x)'
  BY <1>2 DEF AnswerFits
<1>4. \A b \in {"main", "spare"} :
        /\ store'[<<"extraction", b>>] = store[<<"extraction", b>>]
        /\ store'[<<"review", b>>] = store[<<"review", b>>]
  <2>1. \A k \in Keys : k # <<"ocr", "main">> => store'[k] = store[k]
    BY DEF StoreOcr, Types, OthersTyped
  <2>2. \A b \in {"main", "spare"} : /\ <<"extraction", b>> \in Keys /\ <<"review", b>> \in Keys
                                    /\ <<"extraction", b>> # <<"ocr", "main">>
                                    /\ <<"review", b>> # <<"ocr", "main">>
    BY DEF Keys
  <2> QED BY <2>1, <2>2
<1>5. CASE Return(c, o)
  BY <1>1, <1>2, <1>3, <1>4, <1>5, ReturnResults, StoreFitsParts, ExtractionKept, ReviewKept
     DEF Results, ReviewsKept
<1>6. CASE Return(c, Again)
  BY <1>4, <1>6, Outcomes, ReturnResults, StoreFitsParts, ExtractionKept, ReviewKept
     DEF Results, ReviewsKept
<1> QED BY <1>5, <1>6 DEF StoreOcr

\* The extraction is stored, and the answer says where and all but how sure
\* its fields are.
LEMMA StoreExtractionResults ==
    ASSUME Types, InOrder, Stand, Results, NEW c \in Calls, StoreExtraction(c) PROVE Results'
<1> DEFINE o == The(calls[c].val)
<1>1. calls[c].stage = "extract" /\ calls[c].phase = "storing" /\ o.ok
  BY Held DEF StoreExtraction, Types, Working
<1>2. PICK x : x = The(o.out) /\ Fits("extract", "storing", x)
  BY <1>1 DEF Results, CallsFit, RowFits, Working
<1>3. Extracted(x) /\ Begun("extract") /\ answer["classify"] # {}
  BY <1>1, <1>2, Behind DEF Fits, Begun
<1>4. Fits("extract", "storing", x)' /\ answer'["classify"] # {}
  BY <1>2, <1>3, FitsStands DEF Stand, Asking, Stages, Services
<1>5. ASSUME NEW b \in {"main", "spare"}, store' = [store EXCEPT ![<<"extraction", b>>] = {x}],
             Return(c, Done([fields |-> x.fields, odd |-> x.odd, conf |-> x.conf,
                             vlm |-> x.vlm, route |-> x.route, bucket |-> b]))
      PROVE  Results'
  <2> DEFINE y == [fields |-> x.fields, odd |-> x.odd, conf |-> x.conf,
                   vlm |-> x.vlm, route |-> x.route, bucket |-> b]
  <2>1. Extracted(x)'
    BY <1>4 DEF Fits
  <2>2. /\ y.fields = x.fields /\ y.conf = x.conf /\ y.vlm = x.vlm /\ y.route = x.route
        /\ y.bucket = b /\ Return(c, Done(y))
    BY <1>5
  <2> HIDE DEF y
  <2>3. PICK z : z = y
    OBVIOUS
  <2>4. AnswerFits("extract", z)'
    BY <2>1, <2>2, <2>3 DEF AnswerFits, Extracted, Drawn
  <2>5. \A d \in {"main", "spare"} : store'[<<"review", d>>] = store[<<"review", d>>]
    BY <1>5 DEF Types, OthersTyped, Keys
  <2>6. CallsFit' /\ AnswersFit'
    BY <1>1, <2>2, <2>3, <2>4, <2>5, Outcomes, ReturnResults DEF ReviewsKept
  <2>7. ASSUME NEW d \in {"main", "spare"} PROVE ExtractionFits(d)'
    <3>1. CASE d = b
      <4>1. store'[<<"extraction", d>>] = {x}
        BY <1>5, <3>1 DEF Types, OthersTyped, Keys
      <4>2. x = The(store'[<<"extraction", d>>])
        BY <4>1, TheOne
      <4> QED BY <1>4, <2>1, <4>2 DEF ExtractionFits
    <3>2. CASE d # b
      <4>1. store'[<<"extraction", d>>] = store[<<"extraction", d>>]
        BY <1>5, <3>2 DEF Types, OthersTyped
      <4> QED BY <4>1, ExtractionKept, StoreFitsParts DEF Results
    <3> QED BY <3>1, <3>2
  <2> QED BY <2>5, <2>6, <2>7, StoreFitsParts, ReviewKept DEF Results
<1>6. CASE Return(c, Again) /\ UNCHANGED store
  BY <1>6, Outcomes, ReturnResults, StoreFitsParts, ExtractionKept, ReviewKept
     DEF Results, ReviewsKept
<1> QED BY <1>2, <1>5, <1>6 DEF StoreExtraction

\* A thread ends: its handler goes on with the result, or it answers, and
\* before it does it may have stored the result.
LEMMA FinishResults ==
    ASSUME Types, InOrder, Stand, Results, NEW c \in Calls, Finish(c) PROVE Results'
<1> DEFINE o == The(calls[c].val)
<1>1. PICK s : s = calls[c].stage /\ s \in Stages
  BY Held DEF Finish, Types, Working
<1>2. /\ Outcome(o) /\ calls[c].phase = "running" /\ Shape(calls[c], stage) /\ Begun(s)
      /\ calls[c].val = {o}
  BY <1>1, Held, BusyRow DEF Finish, Types, Working, Begun, Shape
<1>3. o.ok => Fits(s, "running", The(o.out))
  BY <1>1, <1>2 DEF Results, CallsFit, RowFits, Working
<1>4. CASE /\ s \in {"ocr", "extract"} /\ o.ok
           /\ calls' = [calls EXCEPT ![c].phase = "handling"]
           /\ UNCHANGED <<workflow, store, faults>>
  <2>1. PICK x : x = The(o.out) /\ Fits(s, "handling", x)
    BY <1>3, <1>4 DEF Fits
  <2>2. Fits(s, "handling", x)'
    BY <1>2, <2>1, FitsStands
  <2>3. /\ calls'[c].phase = "handling" /\ calls'[c].stage = s /\ calls'[c].val = {o}
        /\ \A d \in Calls \ {c} : calls'[d] = calls[d]
    BY <1>1, <1>2, <1>4 DEF Shape, Types, CallsTyped
  <2>4. x = The(The(calls'[c].val).out)
    BY <2>1, <2>3, TheOne
  <2>5. RowFits(calls[c])'
    BY <2>2, <2>3, <2>4 DEF RowFits
  <2> QED BY <1>4, <2>3, <2>5, PhaseResults DEF Left, workflow
<1>5. CASE /\ ~ (s \in {"ocr", "extract"} /\ o.ok /\ calls[c].waits)
           /\ Target(s) = {} \/ ~ o.ok
           /\ Return(c, o) /\ UNCHANGED store
  <2>1. ASSUME calls[c].heard, o.ok
        PROVE  \E z, x : z = calls[c].stage /\ x = The(o.out) /\ AnswerFits(z, x)'
    <3>1. s \in {"preprocess", "classify"}
      <4>1. calls[c].waits
        BY <1>2, <2>1 DEF Shape
      <4>2. s \notin {"ocr", "extract"} /\ Target(s) = {}
        BY <1>5, <2>1, <4>1
      <4>3. /\ <<"layout", "main">> \in Target("layout")
            /\ <<"validation", "main">> \in Target("validate")
            /\ <<"review", "main">> \in Target("revalidate")
        BY DEF Target
      <4> QED BY <1>1, <4>2, <4>3 DEF Stages, Services
    <3>2. PICK x : x = The(o.out) /\ (s = "classify" => x \in Routes)
      BY <1>3, <2>1 DEF Fits
    <3>3. AnswerFits(s, x)'
      BY <3>1, <3>2 DEF AnswerFits
    <3> QED BY <1>1, <3>2, <3>3
  <2> QED BY <1>2, <1>5, <2>1, ReturnResults, StoreFitsParts, ExtractionKept, ReviewKept
          DEF Results, ReviewsKept
<1>6. ASSUME NEW k \in Target(s), o.ok, NEW x, x = Answered(s, The(o.out), k),
             store' = [store EXCEPT ![k] = {x}], Return(c, Done(x))
      PROVE  Results'
  <2>1. k \in Keys
    BY TargetKeys DEF Keys
  <2>2. \A z \in Keys : z # k => store'[z] = store[z]
    BY <1>6 DEF Types, OthersTyped
  <2>3. store'[k] = {x}
    BY <1>6, <2>1 DEF Types, OthersTyped
  <2>4. /\ k[1] \in {"layout", "validation", "review"} /\ k[2] \in {"main", "spare"}
        /\ k = <<k[1], k[2]>> /\ (k[1] = "review" => s = "revalidate")
    BY <1>1 DEF Target, Stages, Services
  <2>5. \A b \in {"main", "spare"} : store'[<<"extraction", b>>] = store[<<"extraction", b>>]
    BY <2>2, <2>4 DEF Keys
  <2>6. ReviewsKept
    BY <2>2, <2>3 DEF ReviewsKept, Keys
  <2>7. s = "revalidate" => x = HumanAt(k[2]) /\ answer["review"] # {}
    <3>1. s = "revalidate" => k = <<"review", k[2]>>
      BY <1>6, <2>4 DEF Target
    <3> QED BY <1>2, <1>3, <1>6, <3>1, Behind DEF Fits, HumanAt
  <2>8. AnswerFits(s, x)'
    <3>1. CASE s = "layout"
      BY <3>1 DEF AnswerFits
    <3>2. CASE s = "validate"
      <4>1. x.verdict = The(o.out).verdict /\ x.route = The(o.out).route /\ x.loaded = The(o.out).loaded
        BY <1>6, <3>2 DEF Answered
      <4>2. AnswerFits(s, x)
        BY <1>3, <1>6, <3>2, <4>1 DEF Fits, AnswerFits, Judged
      <4> QED BY <1>2, <2>6, <4>2, AnswerStands
    <3>3. CASE s = "revalidate"
      <4>1. k[1] = "review" /\ store'[<<"review", k[2]>>] # {}
        BY <1>6, <2>3, <2>4, <3>3 DEF Target
      <4>2. x = HumanAt(k[2])'
        BY <2>7, <3>3, HumanStands
      <4> QED BY <2>4, <3>3, <4>1, <4>2 DEF AnswerFits
    <3> QED BY <1>1, <1>6, <3>1, <3>2, <3>3 DEF Target, Stages, Services
  <2>9. CallsFit' /\ AnswersFit'
    BY <1>1, <1>6, <2>6, <2>8, Outcomes, ReturnResults
  <2>10. ASSUME NEW b \in {"main", "spare"} PROVE ReviewFits(b)'
    <3>1. CASE k = <<"review", b>>
      <4>1. s = "revalidate" /\ b = k[2]
        BY <2>4, <3>1
      <4>2. x = HumanAt(b)'
        BY <2>7, <4>1, HumanStands
      <4>3. answer'["review"] # {}
        BY <2>7, <4>1 DEF Stand, Asking
      <4> QED BY <2>3, <3>1, <4>2, <4>3 DEF ReviewFits
    <3>2. CASE k # <<"review", b>>
      <4>1. store'[<<"review", b>>] = store[<<"review", b>>]
        BY <2>2, <3>2 DEF Keys
      <4> QED BY <4>1, ReviewKept, StoreFitsParts DEF Results
    <3> QED BY <3>1, <3>2
  <2> QED BY <2>5, <2>9, <2>10, StoreFitsParts, ExtractionKept DEF Results
<1> QED BY <1>1, <1>4, <1>5, <1>6 DEF Finish

LEMMA InitialResults == ASSUME Init PROVE InOrder /\ Results
<1>1. /\ \A s \in Asking : answer[s] = {}
      /\ \A c \in Calls : calls[c].stage = "none" /\ calls[c].phase \notin Working
      /\ stage = "preprocess"
      /\ \A b \in {"main", "spare"} : store[<<"extraction", b>>] = {} /\ store[<<"review", b>>] = {}
  BY DEF Init, Asking, Free, Working, Keys
<1>2. InOrder
  BY <1>1 DEF InOrder, Order1, Order2, Order3, Begun, Asking, Stages, Services
<1>3. Results
  BY <1>1 DEF Results, CallsFit, RowFits, AnswersFit, StoreFits
<1> QED BY <1>2, <1>3

LEMMA StepResults ==
    ASSUME Types, InOrder, Results, [Next]_vars PROVE InOrder' /\ Results'
<1>1. InOrder' /\ Stand
  BY StepMoves, OrderStep, AnswersStand
<1>2. ASSUME NEW c \in Calls, Call(c) PROVE Results'
  <2>1. (Left \/ Fails) /\ UNCHANGED store
    BY <1>2, CallMoves DEF Call
  <2>2. \A d \in Calls : RowKept(d)
    BY <1>2 DEF Call, RowKept, Types, CallsTyped, Working
  <2> QED BY <1>1, <2>1, <2>2, QuietResults
<1>3. ASSUME NEW c \in Calls, GiveUp(c) PROVE Results'
  <2>1. (Left \/ Fails) /\ UNCHANGED store
    BY <1>3, GiveUpMoves DEF GiveUp
  <2>2. \A d \in Calls : RowKept(d)
    BY <1>3 DEF GiveUp, RowKept, Types, CallsTyped, Shape
  <2> QED BY <1>1, <2>1, <2>2, QuietResults
<1>4. ASSUME NEW c \in Calls, TimeOut(c) PROVE Results'
  <2>1. (Left \/ Fails) /\ UNCHANGED store
    BY <1>4, TimeOutMoves DEF TimeOut
  <2>2. CASE calls' = [calls EXCEPT ![c] = Free]
    <3>1. \A d \in Calls : RowKept(d)
      BY <2>2, FreePhase DEF RowKept, Types, CallsTyped
    <3> QED BY <1>1, <2>1, <3>1, QuietResults
  <2>3. CASE calls' = [calls EXCEPT ![c].waits = FALSE, ![c].heard = FALSE]
    <3>1. \A d \in Calls : RowKept(d)
      BY <2>3 DEF RowKept, Types, CallsTyped, Shape
    <3> QED BY <1>1, <2>1, <3>1, QuietResults
  <2> QED BY <1>4, <2>2, <2>3 DEF TimeOut
<1>5. ASSUME NEW s \in Services, Restart(s) PROVE Results'
  <2>1. (Left \/ Fails) /\ UNCHANGED store
    BY <1>5, RestartMoves DEF Restart
  <2>2. \A d \in Calls : calls'[d] \in {Free, calls[d]}
    BY <1>5 DEF Restart
  <2>3. \A d \in Calls : RowKept(d)
    BY <2>2, FreePhase DEF RowKept
  <2> QED BY <1>1, <2>1, <2>3, QuietResults
<1>6. CASE Review
  BY <1>1, <1>6, QuietResults DEF Review, RowKept
<1>7. CASE UNCHANGED vars
  BY <1>1, <1>7, QuietResults DEF vars, workflow, RowKept, Left
<1> QED BY <1>1, <1>2, <1>3, <1>4, <1>5, <1>6, <1>7, BeginResults, FinishResults, StoreOcrResults,
           ExtractResults, StoreExtractionResults DEF Next, CallStep

-----------------------------------------------------------------------------
(* Slots *)

Holders(s) == {c \in Calls : Holds(c, s)}

\* Of each service, the slots taken are those of its threads.
LEMMA HoldersFinite ==
    \A s : IsFiniteSet(Holders(s)) /\ Cardinality(Holders(s)) \in Nat
<1>1. \A s : IsFiniteSet(Holders(s))
  BY ServicesAssumption, FS_Subset DEF Holders
<1> QED BY <1>1, FS_CardinalityType

\* A request that holds no slot comes to hold one.
LEMMA Enters ==
    ASSUME SlotsAreHeld, inflight \in [Services -> Nat], NEW s \in Services, ~ Busy(s),
           inflight' = Taken(s), NEW c \in Calls, c \notin Holders(s),
           Holders(s)' = Holders(s) \cup {c},
           \A z \in Services \ {s} : Holders(z)' = Holders(z)
    PROVE  SlotsAreHeld'
<1>1. Cardinality(Holders(s)') = Cardinality(Holders(s)) + 1
  BY HoldersFinite, FS_AddElement
<1>2. /\ inflight'[s] = inflight[s] + 1 /\ inflight[s] < MaxInflight[s]
      /\ \A z \in Services \ {s} : inflight'[z] = inflight[z]
  <2>1. inflight[s] \in Nat /\ MaxInflight[s] \in Nat
    BY ServicesAssumption
  <2>2. inflight[s] < MaxInflight[s]
    BY <2>1 DEF Busy
  <2> QED BY <2>2 DEF Taken
<1>3. \A z \in Services : inflight[z] = Cardinality(Holders(z)) /\ inflight[z] <= MaxInflight[z]
  BY DEF SlotsAreHeld, Holders
<1>4. \A z \in Services : inflight'[z] = Cardinality(Holders(z)') /\ inflight'[z] <= MaxInflight[z]
  <2>1. inflight'[s] = Cardinality(Holders(s)') /\ inflight'[s] <= MaxInflight[s]
    <3>1. inflight[s] \in Nat /\ MaxInflight[s] \in Nat
      BY ServicesAssumption
    <3> QED BY <1>1, <1>2, <1>3, <3>1
  <2> QED BY <1>2, <1>3, <2>1
<1> QED BY <1>4 DEF SlotsAreHeld, Holders

\* A request gives its slot back.
LEMMA Leaves ==
    ASSUME SlotsAreHeld, inflight \in [Services -> Nat], NEW s \in Services,
           inflight' = Released(s), NEW c \in Holders(s),
           Holders(s)' = Holders(s) \ {c},
           \A z \in Services \ {s} : Holders(z)' = Holders(z)
    PROVE  SlotsAreHeld'
<1>1. /\ Cardinality(Holders(s)') = Cardinality(Holders(s)) - 1
      /\ Cardinality(Holders(s)) \in Nat
  BY HoldersFinite, FS_RemoveElement
<1>2. Cardinality(Holders(s)) > 0
  BY HoldersFinite, FS_EmptySet
<1>3. inflight[s] = Cardinality(Holders(s)) /\ inflight[s] <= MaxInflight[s]
  BY DEF SlotsAreHeld, Holders
<1>4. /\ inflight'[s] = inflight[s] - 1
      /\ \A z \in Services \ {s} : inflight'[z] = inflight[z]
  BY <1>2, <1>3 DEF Released
<1>5. inflight'[s] = Cardinality(Holders(s)') /\ inflight'[s] <= MaxInflight[s]
  BY <1>1, <1>3, <1>4, ServicesAssumption
<1>6. ASSUME NEW z \in Services \ {s}
      PROVE  inflight'[z] = Cardinality(Holders(z)') /\ inflight'[z] <= MaxInflight[z]
  <2>1. inflight[z] = Cardinality(Holders(z)) /\ inflight[z] <= MaxInflight[z]
    BY DEF SlotsAreHeld, Holders
  <2> QED BY <1>4, <2>1
<1>7. \A z \in Services : inflight'[z] = Cardinality(Holders(z)') /\ inflight'[z] <= MaxInflight[z]
  BY <1>5, <1>6
<1> QED BY <1>7 DEF SlotsAreHeld, Holders

\* Nobody takes a slot or gives one back.
LEMMA Stays ==
    ASSUME SlotsAreHeld, UNCHANGED inflight, \A s \in Services : Holders(s)' = Holders(s)
    PROVE  SlotsAreHeld'
BY DEF SlotsAreHeld, Holders

\* Who holds a slot changes with the request c alone.
LEMMA OneHolder ==
    ASSUME NEW c \in Calls, \A d \in Calls \ {c} : calls'[d].phase = calls[d].phase
                                                     /\ calls'[d].stage = calls[d].stage
    PROVE  /\ (\A s : Holds(c, s)' <=> Holds(c, s)) => \A s : Holders(s)' = Holders(s)
           /\ \A s : Holds(c, s)' => Holders(s)' = Holders(s) \cup {c}
           /\ \A s : ~ Holds(c, s)' => Holders(s)' = Holders(s) \ {c}
BY DEF Holders, Holds

LEMMA CallSlots ==
    ASSUME Types, SlotsAreHeld, NEW c \in Calls, Call(c) PROVE SlotsAreHeld'
<1>1. CASE UNCHANGED <<calls, inflight>>
  BY <1>1, Stays DEF Holders, Holds
<1>2. CASE /\ ~ Busy(ServiceOf(stage)) /\ inflight' = Taken(ServiceOf(stage))
           /\ calls' = [calls EXCEPT ![c] =
                [stage |-> stage, phase |-> "queued", heard |-> TRUE, waits |-> TRUE, val |-> {}]]
  <2>1. PICK s \in Services : s = ServiceOf(stage)
    BY Slots DEF Call, Types, OthersTyped
  <2>2. /\ calls'[c].stage = stage /\ calls'[c].phase = "queued"
        /\ \A d \in Calls \ {c} : calls'[d] = calls[d]
    BY <1>2 DEF Types, CallsTyped
  <2>3. calls[c].phase = "free"
    BY DEF Call, Free
  <2>4. c \notin Holders(s) /\ Holders(s)' = Holders(s) \cup {c}
    BY <2>1, <2>2, <2>3 DEF Holders, Holds
  <2>5. \A z \in Services \ {s} : Holders(z)' = Holders(z)
    BY <2>1, <2>2, <2>3 DEF Holders, Holds
  <2> QED BY <1>2, <2>1, <2>4, <2>5, Enters DEF Types, OthersTyped
<1> QED BY <1>1, <1>2 DEF Call

\* A request gives back the slot that it holds.
LEMMA GivesBack ==
    ASSUME Types, SlotsAreHeld, NEW c \in Calls, calls[c].phase \in {"queued", "running"},
           inflight' = Released(ServiceOf(calls[c].stage)),
           calls'[c].phase \notin {"queued", "running"},
           \A d \in Calls \ {c} : calls'[d] = calls[d]
    PROVE  SlotsAreHeld'
<1>1. PICK s \in Services : s = ServiceOf(calls[c].stage)
  BY BusyRow, Slots DEF Types, OthersTyped
<1>2. c \in Holders(s) /\ Holders(s)' = Holders(s) \ {c}
  BY <1>1 DEF Holders, Holds
<1>3. \A z \in Services \ {s} : Holders(z)' = Holders(z)
  BY <1>1 DEF Holders, Holds
<1> QED BY <1>1, <1>2, <1>3, Leaves DEF Types, OthersTyped

\* A request neither takes a slot nor gives one back.
LEMMA HoldsOn ==
    ASSUME SlotsAreHeld, UNCHANGED inflight,
           \A d \in Calls : \/ calls'[d].phase = calls[d].phase /\ calls'[d].stage = calls[d].stage
                            \/ /\ calls[d].phase \notin {"queued", "running"}
                               /\ calls'[d].phase \notin {"queued", "running"}
                            \/ /\ calls[d].phase = "queued" /\ calls'[d].phase = "running"
                               /\ calls'[d].stage = calls[d].stage
    PROVE  SlotsAreHeld'
<1>1. \A s : Holders(s)' = Holders(s)
  BY DEF Holders, Holds
<1> QED BY <1>1, Stays

LEMMA FreeSlot == Free.phase = "free" /\ Free.stage = "none"
BY DEF Free

LEMMA TimeOutSlots ==
    ASSUME Types, SlotsAreHeld, NEW c \in Calls, TimeOut(c) PROVE SlotsAreHeld'
<1>1. CASE /\ inflight' = Released(ServiceOf(calls[c].stage))
           /\ calls' = [calls EXCEPT ![c] = Free]
  <2>1. calls'[c] = Free /\ \A d \in Calls \ {c} : calls'[d] = calls[d]
    BY <1>1 DEF Types, CallsTyped
  <2> QED BY <1>1, <2>1, FreeSlot, GivesBack DEF TimeOut
<1>2. CASE /\ calls' = [calls EXCEPT ![c].waits = FALSE, ![c].heard = FALSE]
           /\ UNCHANGED inflight
  <2>1. \A d \in Calls : calls'[d].phase = calls[d].phase /\ calls'[d].stage = calls[d].stage
    BY <1>2 DEF Types, CallsTyped, Shape
  <2> QED BY <1>2, <2>1, HoldsOn
<1> QED BY <1>1, <1>2 DEF TimeOut

LEMMA FinishSlots ==
    ASSUME Types, SlotsAreHeld, NEW c \in Calls, Finish(c) PROVE SlotsAreHeld'
<1>1. calls' = [calls EXCEPT ![c].phase = "handling"] \/ calls' = [calls EXCEPT ![c] = Free]
  BY DEF Finish, Return
<1>2. /\ calls'[c].phase \in {"handling", "free"}
      /\ \A d \in Calls \ {c} : calls'[d] = calls[d]
  BY <1>1, FreeSlot DEF Types, CallsTyped, Shape
<1> QED BY <1>2, GivesBack DEF Finish

LEMMA RestartSlots ==
    ASSUME Types, SlotsAreHeld, NEW s \in Services, Restart(s) PROVE SlotsAreHeld'
<1>1. /\ \A d \in Calls : calls'[d] = IF ServiceOf(calls[d].stage) = s THEN Free ELSE calls[d]
      /\ inflight' = [inflight EXCEPT ![s] = 0]
  BY DEF Restart
<1>2. Holders(s)' = {} /\ \A z \in Services \ {s} : Holders(z)' = Holders(z)
  BY <1>1, FreeSlot DEF Holders, Holds
<1>3. /\ inflight'[s] = 0 /\ Cardinality(Holders(s)') = 0
      /\ \A z \in Services \ {s} : inflight'[z] = inflight[z]
  BY <1>1, <1>2, FS_EmptySet DEF Types, OthersTyped
<1>4. \A z \in Services : inflight[z] = Cardinality(Holders(z)) /\ inflight[z] <= MaxInflight[z]
  BY DEF SlotsAreHeld, Holders
<1>5. MaxInflight[s] >= 0
  BY ServicesAssumption
<1>6. \A z \in Services : inflight'[z] = Cardinality(Holders(z)') /\ inflight'[z] <= MaxInflight[z]
  BY <1>2, <1>3, <1>4, <1>5
<1> QED BY <1>6 DEF SlotsAreHeld, Holders

LEMMA StepSlots == ASSUME Types, SlotsAreHeld, [Next]_vars PROVE SlotsAreHeld'
<1>1. ASSUME NEW c \in Calls, GiveUp(c) PROVE SlotsAreHeld'
  <2>1. \A d \in Calls : calls'[d].phase = calls[d].phase /\ calls'[d].stage = calls[d].stage
    BY <1>1 DEF GiveUp, Types, CallsTyped, Shape
  <2> QED BY <1>1, <2>1, HoldsOn DEF GiveUp
<1>2. ASSUME NEW c \in Calls, Begin(c) PROVE SlotsAreHeld'
  <2>1. /\ calls'[c].phase = "running" /\ calls'[c].stage = calls[c].stage
        /\ \A d \in Calls \ {c} : calls'[d] = calls[d]
    BY <1>2 DEF Begin, Types, CallsTyped, Shape
  <2> QED BY <1>2, <2>1, HoldsOn DEF Begin
<1>3. ASSUME NEW c \in Calls, StoreOcr(c) \/ Extract(c) \/ StoreExtraction(c) PROVE SlotsAreHeld'
  <2>1. UNCHANGED inflight /\ calls[c].phase \in {"handling", "storing"}
    BY <1>3 DEF StoreOcr, Extract, StoreExtraction
  <2>2. calls'[c].phase \in {"free", "storing"} /\ \A d \in Calls \ {c} : calls'[d] = calls[d]
    BY <1>3, FreeSlot DEF StoreOcr, Extract, StoreExtraction, Return, Types, CallsTyped, Shape
  <2> QED BY <2>1, <2>2, HoldsOn
<1>4. CASE Review \/ UNCHANGED vars
  BY <1>4, HoldsOn DEF Review, vars
<1> QED BY <1>1, <1>2, <1>3, <1>4, CallSlots, TimeOutSlots, FinishSlots, RestartSlots DEF Next, CallStep

LEMMA InitialSlots == ASSUME Init PROVE SlotsAreHeld
<1>1. \A s \in Services : inflight[s] = 0 /\ {c \in Calls : Holds(c, s)} = {} /\ MaxInflight[s] >= 0
  BY ServicesAssumption DEF Init, Holds, Free
<1> QED BY <1>1, FS_EmptySet DEF SlotsAreHeld

-----------------------------------------------------------------------------
(* Theorems *)

\* The inductive invariant holds initially and is kept by every step.
THEOREM ServicesInvariant == Spec => []IInv
<1>1. Init => IInv
  BY InitialTypes, InitialResults, InitialSlots DEF IInv
<1>2. IInv /\ [Next]_vars => IInv'
  BY StepTypes, StepResults, StepSlots DEF IInv
<1> QED BY <1>1, <1>2, PTL DEF Spec

\* Attempts, answers and requests keep to their types: no stage fails more
\* often than the retry policy allows, and the workflow waits for a request of
\* its own stage only: workflow_orchestrator/app/activities.py:25-81.
THEOREM ServicesTypes == Spec => []TypeOK
<1>1. IInv => TypeOK
  BY TypesTypeOK DEF IInv
<1> QED BY <1>1, ServicesInvariant, PTL

\* The slots taken of a service are those of its threads, waited for or not,
\* and never more than it has: ocr_service/app/main.py:75-88, 530-534.
THEOREM ServicesSlots == Spec => []SlotsAreHeld
<1>1. IInv => SlotsAreHeld
  BY DEF IInv
<1> QED BY <1>1, ServicesInvariant, PTL

\* No retry beside its first attempt, lost answer or artifact that cannot be
\* loaded gets a document approved that its route does not let pass:
\* validation_service/app/main.py:160-381, extraction_service/app/main.py:352-409.
THEOREM ServicesApproval == Spec => []ApprovalIsEarned
<1>1. ASSUME IInv PROVE ApprovalIsEarned
  <2>1. CASE Approved
    <3>1. /\ answer["validate"] # {}
          /\ The(answer["validate"]).verdict = "auto_approved"
      BY <1>1, <2>1 DEF Approved, IInv, InOrder, Order3
    <3>2. Judged(The(answer["validate"]))
      BY <1>1, <3>1 DEF IInv, Results, AnswersFit, AnswerFits, Asking, Stages, Services
    <3> QED BY <3>1, <3>2 DEF Judged, ApprovalIsEarned, RouteIsKept, WellRead, Sure, Route
  <2>2. CASE ~ Approved
    BY <2>2 DEF ApprovalIsEarned, RouteIsKept, WellRead
  <2> QED BY <2>1, <2>2
<1> QED BY <1>1, ServicesInvariant, PTL

\* The stored review is the approval that the person's fields came to, and no
\* late thread has written over it: validation_service/app/main.py:336-386.
THEOREM ServicesReview == Spec => []ReviewStands
<1>1. ASSUME IInv PROVE ReviewStands
  <2> SUFFICES ASSUME stage = "delivered", answer["review"] # {}
               PROVE  LET v == The(answer["revalidate"]) IN
                      /\ store[<<"review", v.bucket>>] = {v}
                      /\ v.verdict = "human_approved"
                      /\ v.fields = The(answer["review"]).fields
    BY DEF ReviewStands
  <2> DEFINE v == The(answer["revalidate"])
  <2>1. answer["revalidate"] # {} /\ v.verdict = "human_approved"
    BY <1>1 DEF IInv, InOrder, Order3
  <2>2. PICK b \in {"main", "spare"} : v = HumanAt(b) /\ store[<<"review", b>>] # {}
    BY <1>1, <2>1 DEF IInv, Results, AnswersFit, AnswerFits, Asking, Stages
  <2>3. store[<<"review", b>>] = {v}
    BY <1>1, <2>2 DEF IInv, Results, StoreFits
  <2>4. v.bucket = b /\ v.fields = Human.fields
    BY <2>2 DEF HumanAt, Answered
  <2>5. Human.fields = The(answer["review"]).fields
    BY Outcomes DEF Human, Verdict, Request
  <2> QED BY <2>1, <2>3, <2>4, <2>5
<1> QED BY <1>1, ServicesInvariant, PTL

=============================================================================
