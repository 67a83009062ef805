--------------------------- MODULE RetentionProofs --------------------------
(***************************************************************************)
(* Theorems of Retention, for any jobs, exceptions, requests and replicas    *)
(* and any number of enforcements that die: what is held is kept, a          *)
(* replacement that waits for its source can have it, the variables keep     *)
(* their types, and requests are settled by what became of replacements.     *)
(***************************************************************************)
EXTENDS Retention, TLAPS

-----------------------------------------------------------------------------
(* The shape of what the properties speak of.  The lists of the reconcilers  *)
(* do not matter here: a row they name changes as its status allows.          *)

JobRow    == [status : Statuses, source : Jobs \cup {None}, named : BOOLEAN]
Requested == [child : Jobs, form : Forms, status : Unresolved \cup Verdicts]
Places    == {"new", "checking", "fetched", "registered", "uploaded", "answered", "refused"}

Shape ==
    /\ job \in [Jobs -> JobRow]
    /\ object \in [Jobs -> {"none", "document", "other"}]
    /\ request \in [Jobs -> Requested \cup {Absent}]
    /\ handler \in [Requests -> [at : Places, child : Jobs \cup {None}]]
    /\ DOMAIN worker = Reconcilers
    /\ \A k \in Reconcilers : worker[k].at = "writing" => worker[k].verdict \in Verdicts
    /\ sweep \in [at : {"off", "deleting"}, left : SUBSET Jobs, drop : SUBSET Jobs,
                  raw : SUBSET Jobs, expired : SUBSET Jobs]
    /\ torn \in SUBSET Jobs

USE DEF Statuses, Unresolved, Verdicts, Places

LEMMA InitialShape == Init => Shape
BY ReprocessingAssumption DEF JobRow, Init, ReprocessingInit, Shape, Off, Resting

\* The row of an interrupted upload moves on, or nothing changes.
LEMMA RowMoves ==
    ASSUME Shape, NEW c, Stored(c) \/ Failed(c)
    PROVE  /\ job' \in [Jobs -> JobRow]
           /\ \A j \in Jobs :
                \/ job'[j] = job[j]
                \/ /\ j = c /\ Received(c) /\ job'[j].status \in {"STORED", "FAILED"}
                   /\ Stored(c) \/ job'[j].named = job[j].named
<1>0. job \in [Jobs -> JobRow]
  BY DEF Shape
<1>1. CASE job' = job
  BY <1>0, <1>1
<1>2. ASSUME NEW row \in JobRow, job' = [job EXCEPT ![c] = row]
      PROVE  /\ job' \in [Jobs -> JobRow]
             /\ \A j \in Jobs : job'[j] = IF j = c THEN row ELSE job[j]
  BY <1>0, <1>2
<1>3. CASE Received(c) /\ Stored(c) /\ c \in Jobs
  <2>1. [job[c] EXCEPT !.status = "STORED", !.named = TRUE] \in JobRow
    BY <1>0, <1>3 DEF JobRow
  <2>2. job' = [job EXCEPT ![c] = [job[c] EXCEPT !.status = "STORED", !.named = TRUE]]
    BY <1>0, <1>3 DEF Stored
  <2>3. [job[c] EXCEPT !.status = "STORED", !.named = TRUE].status = "STORED"
    BY <1>0, <1>3 DEF JobRow
  <2> QED BY <1>2, <1>3, <2>1, <2>2, <2>3
<1>4. CASE Received(c) /\ Failed(c) /\ c \in Jobs
  <2>1. [job[c] EXCEPT !.status = "FAILED"] \in JobRow
    BY <1>0, <1>4 DEF JobRow
  <2>2. job' = [job EXCEPT ![c] = [job[c] EXCEPT !.status = "FAILED"]]
    BY <1>0, <1>4 DEF Failed
  <2>3. /\ [job[c] EXCEPT !.status = "FAILED"].status = "FAILED"
        /\ [job[c] EXCEPT !.status = "FAILED"].named = job[c].named
    BY <1>0, <1>4 DEF JobRow
  <2> QED BY <1>2, <1>4, <2>1, <2>2, <2>3
<1>5. ~ Received(c) \/ c \notin Jobs => job' = job
  BY <1>0 DEF Stored, Failed
<1> QED BY <1>1, <1>3, <1>4, <1>5

LEMMA HandlerShape ==
    ASSUME Shape, NEW r \in Requests,
           Look(r) \/ Register(r) \/ Store(r) \/ Fetch(r) \/ Upload(r) \/ Defer(r) \/ HandlerDies(r),
           UNCHANGED retention
    PROVE  Shape'
<1> USE ReprocessingAssumption
    DEF Shape, JobRow, Goto, Refuse, retention, registry, pipeline
<1>1. TargetOf[r] \in Jobs /\ handler[r].child \in Jobs \cup {None}
  OBVIOUS
<1>2. ASSUME NEW then \in Places, request[TargetOf[r]] # Absent, Meet(r, then)
      PROVE  handler' \in [Requests -> [at : Places, child : Jobs \cup {None}]]
  BY <1>1, <1>2 DEF Meet, Requested
<1>3. CASE Look(r)
  BY <1>1, <1>2, <1>3 DEF Look
<1>4. CASE Fetch(r) BY <1>4 DEF Fetch
<1>5. CASE Register(r)
  <2>1. CASE request[TargetOf[r]] # Absent
    BY <1>2, <1>5, <2>1 DEF Register
  <2>2. ASSUME NEW c \in Jobs, Replace(r, c) PROVE Shape'
    BY <1>1, <1>5, <2>2 DEF Register, Replace, Requested, Forms
  <2> QED BY <1>5, <2>1, <2>2 DEF Register
<1>6. CASE Upload(r) BY <1>1, <1>6 DEF Upload
<1>7. CASE Store(r) BY <1>1, <1>7, RowMoves DEF Store
<1>8. CASE Defer(r) \/ HandlerDies(r) BY <1>1, <1>8 DEF Defer, HandlerDies
<1> QED BY <1>3, <1>4, <1>5, <1>6, <1>7, <1>8

LEMMA ReconcilerShape ==
    ASSUME Shape, NEW k \in Reconcilers,
           \/ List(k) \/ Reject(k) \/ Recover(k) \/ Settle(k) \/ Copy(k) \/ GiveUp(k) \/ Rest(k)
           \/ \E p \in Jobs : Judge(k, p),
           UNCHANGED retention
    PROVE  Shape'
<1> USE ReprocessingAssumption
    DEF Shape, At, Advance, Uploads, Resting, retention, registry, pipeline
<1>1. CASE List(k) BY <1>1 DEF List
<1>2. CASE Reject(k) BY <1>2, RowMoves DEF Reject
<1>3. CASE Recover(k) BY <1>3, RowMoves DEF Recover
<1>4. CASE Settle(k)
  <2>1. worker[k].verdict \in Verdicts
    BY <1>4 DEF Settle
  <2>2. CASE Active(worker[k].parent)
    <3>1. request' = [request EXCEPT ![worker[k].parent].status = worker[k].verdict]
      BY <1>4, <2>2 DEF Settle
    <3>2. worker[k].parent \in Jobs => request[worker[k].parent] \in Requested
      BY <2>2 DEF Active, Absent
    <3>3. request' \in [Jobs -> Requested \cup {Absent}]
      BY <2>1, <3>1, <3>2 DEF Requested
    <3> QED BY <1>4, <3>3 DEF Settle
  <2>3. CASE ~ Active(worker[k].parent)
    BY <1>4, <2>3 DEF Settle
  <2> QED BY <2>2, <2>3
<1>5. CASE Copy(k) BY <1>5 DEF Copy
<1>6. CASE GiveUp(k) BY <1>6 DEF GiveUp
<1>7. CASE Rest(k) BY <1>7 DEF Rest
<1>8. ASSUME NEW p \in Jobs, Judge(k, p) PROVE Shape'
  BY <1>8 DEF Judge, Verdict
<1> QED BY <1>1, <1>2, <1>3, <1>4, <1>5, <1>6, <1>7, <1>8

LEMMA OtherShape ==
    ASSUME Shape, NEW j \in Jobs,
           \/ /\ MarkQueued(j) \/ Submit(j) \/ Deliver(j) \/ Start(j) \/ EndRun(j)
              /\ UNCHANGED retention
           \/ Older(j) \/ Damage(j) \/ Delete(j) \/ DeletePrefix(j)
    PROVE  Shape'
<1> USE ReprocessingAssumption
    DEF Shape, JobRow, retention, reprocessing, registry, pipeline, service
<1>1. CASE MarkQueued(j) /\ UNCHANGED retention
  <2>1. \A p \in Jobs : request[p].status = "requested" =>
          [request[p] EXCEPT !.status = "dispatched"] \in Requested
    BY DEF Requested, Absent
  <2>2. request' \in [Jobs -> Requested \cup {Absent}]
    BY <1>1, <2>1 DEF MarkQueued
  <2> QED BY <1>1, <2>2 DEF MarkQueued
<1>2. CASE (Submit(j) \/ Deliver(j) \/ Start(j) \/ EndRun(j)) /\ UNCHANGED retention
  BY <1>2 DEF Submit, Deliver, Start, EndRun
<1>3. CASE Older(j) BY <1>3 DEF Older
<1>4. CASE Damage(j) BY <1>4 DEF Damage
<1>5. CASE Delete(j) BY <1>5 DEF Delete
<1>6. CASE DeletePrefix(j) BY <1>6 DEF DeletePrefix
<1> QED BY <1>1, <1>2, <1>3, <1>4, <1>5, <1>6

\* What an enforcement selects.
RawSelected     == {j \in Jobs : Exists(j) /\ age[j] >= 1 /\ job[j].named /\ ~ Held(j)}
ExpiredSelected == {j \in Jobs : Exists(j) /\ age[j] = 2 /\ ~ Held(j)}

LEMMA BeginSelects ==
    Begin => /\ sweep' = [at |-> "deleting", left |-> RawSelected, drop |-> ExpiredSelected,
                          raw |-> RawSelected, expired |-> ExpiredSelected]
             /\ ~ Locked /\ UNCHANGED <<reprocessing, torn>>
BY DEF Begin, RawSelected, ExpiredSelected

\* What it forgets of them.
LEMMA CommitMoves ==
    ASSUME Shape, Commit
    PROVE  /\ job' \in [Jobs -> JobRow]
           /\ \A j \in Jobs :
                /\ job'[j].source = job[j].source
                /\ job'[j].status = IF j \in sweep.expired THEN "gone" ELSE job[j].status
                /\ job'[j].named = (job[j].named /\ j \notin sweep.raw \cup sweep.expired)
<1>1. job' = [j \in Jobs |->
                IF j \in sweep.expired THEN [job[j] EXCEPT !.status = "gone", !.named = FALSE]
                ELSE IF j \in sweep.raw THEN [job[j] EXCEPT !.named = FALSE] ELSE job[j]]
  BY DEF Commit
<1>2. \A j \in Jobs : job[j] \in JobRow
  BY DEF Shape
<1>3. ASSUME NEW row \in JobRow, NEW forgotten,
             forgotten = [row EXCEPT !.status = "gone", !.named = FALSE]
      PROVE  /\ forgotten \in JobRow /\ forgotten.status = "gone"
             /\ forgotten.source = row.source /\ forgotten.named = FALSE
  BY <1>3 DEF JobRow
<1>4. ASSUME NEW row \in JobRow, NEW unnamed, unnamed = [row EXCEPT !.named = FALSE]
      PROVE  /\ unnamed \in JobRow /\ unnamed.status = row.status
             /\ unnamed.source = row.source /\ unnamed.named = FALSE
  BY <1>4 DEF JobRow
<1>5. ASSUME NEW j \in Jobs
      PROVE  /\ job'[j] \in JobRow /\ job'[j].source = job[j].source
             /\ job'[j].status = IF j \in sweep.expired THEN "gone" ELSE job[j].status
             /\ job'[j].named = (job[j].named /\ j \notin sweep.raw \cup sweep.expired)
  <2>0. job[j] \in JobRow /\ job[j].named \in BOOLEAN
    BY <1>2 DEF JobRow
  <2>1. CASE j \in sweep.expired
    <3>1. job'[j] = [job[j] EXCEPT !.status = "gone", !.named = FALSE]
      BY <1>1, <2>1
    <3>2. /\ job'[j] \in JobRow /\ job'[j].status = "gone"
          /\ job'[j].source = job[j].source /\ job'[j].named = FALSE
      BY <1>3, <2>0, <3>1
    <3> QED BY <2>1, <3>2
  <2>2. CASE j \in sweep.raw /\ j \notin sweep.expired
    <3>1. job'[j] = [job[j] EXCEPT !.named = FALSE]
      BY <1>1, <2>2
    <3>2. /\ job'[j] \in JobRow /\ job'[j].status = job[j].status
          /\ job'[j].source = job[j].source /\ job'[j].named = FALSE
      BY <1>4, <2>0, <3>1
    <3> QED BY <2>2, <3>2
  <2>3. CASE j \notin sweep.raw \cup sweep.expired
    <3>1. job'[j] = job[j]
      BY <1>1, <2>3
    <3> QED BY <2>0, <2>3, <3>1
  <2> QED BY <2>1, <2>2, <2>3
<1>6. job' \in [Jobs -> JobRow]
  BY <1>1, <1>5
<1> QED BY <1>5, <1>6

LEMMA EnforcementShape ==
    ASSUME Shape, Begin \/ Commit \/ Abort PROVE Shape'
<1> USE ReprocessingAssumption
    DEF Shape, JobRow, reprocessing, registry, pipeline, service
<1>1. CASE Begin
  <2>1. RawSelected \in SUBSET Jobs /\ ExpiredSelected \in SUBSET Jobs
    BY DEF RawSelected, ExpiredSelected
  <2> QED BY <1>1, <2>1, BeginSelects
<1>2. CASE Commit
  <2>1. job' \in [Jobs -> JobRow]
    BY <1>2, CommitMoves
  <2>2. request' \in [Jobs -> Requested \cup {Absent}]
    BY <1>2 DEF Commit
  <2>3. /\ sweep' = Off /\ torn' \in SUBSET Jobs
        /\ UNCHANGED <<object, handler, worker>>
    BY <1>2 DEF Commit
  <2> QED BY <2>1, <2>2, <2>3 DEF Off
<1>3. CASE Abort BY <1>3 DEF Abort, Off
<1> QED BY <1>1, <1>2, <1>3

LEMMA ShapeStep == Shape /\ [Next]_vars => Shape'
<1> SUFFICES ASSUME Shape, [Next]_vars PROVE Shape'
  OBVIOUS
<1>1. CASE UNCHANGED vars
  BY <1>1 DEF vars, Shape, retention, reprocessing, registry, pipeline, service
<1> QED
  BY <1>1, HandlerShape, ReconcilerShape, OtherShape, EnforcementShape
  DEF Next, Reprocess, Enforce, DatabaseStep, OtherStep

LEMMA ShapeInvariant == Spec => []Shape
BY InitialShape, ShapeStep, PTL DEF Spec

-----------------------------------------------------------------------------
(* What is held *)

\* While an enforcement is at work, nothing it has selected is held: those who
\* could hold it wait for its locks.
Unheld == /\ \A j \in sweep.raw \cup sweep.expired : ~ Held(j)
          /\ sweep.left \subseteq sweep.raw /\ sweep.drop \subseteq sweep.expired
          /\ ~ Locked => sweep = Off

LEMMA UnheldStep == Shape /\ Unheld /\ [Next]_vars => Unheld'
<1> SUFFICES ASSUME Shape, Unheld, [Next]_vars PROVE Unheld'
  OBVIOUS
<1> USE DEF retention, reprocessing, registry, pipeline, service
<1>1. ASSUME UNCHANGED sweep, ~ Locked \/ UNCHANGED <<request, operation>> PROVE Unheld'
  BY <1>1 DEF Unheld, Held, Active, Locked, Off
<1>2. CASE OtherStep /\ UNCHANGED retention
  BY <1>1, <1>2 DEF OtherStep, Fetch, Upload, Defer, HandlerDies, Copy, GiveUp, Rest, Start, EndRun
<1>3. CASE ~ Locked /\ DatabaseStep /\ UNCHANGED retention
  BY <1>1, <1>3
<1>4. CASE Begin
  BY <1>4, BeginSelects DEF Unheld, Held, Active, Locked, RawSelected, ExpiredSelected
<1>5. ASSUME NEW j \in Jobs, Delete(j) \/ DeletePrefix(j) PROVE Unheld'
  <2>1. /\ sweep'.at = sweep.at /\ sweep'.raw = sweep.raw /\ sweep'.expired = sweep.expired
        /\ sweep'.left \subseteq sweep.left /\ sweep'.drop \subseteq sweep.drop
        /\ UNCHANGED <<request, operation>>
    BY <1>5 DEF Delete, DeletePrefix, Shape
  <2>2. Locked
    BY <1>5 DEF Delete, DeletePrefix, Unheld, Off
  <2> QED BY <2>1, <2>2 DEF Unheld, Held, Active, Locked
<1>6. CASE Commit \/ Abort
  <2>1. sweep' = Off
    BY <1>6 DEF Commit, Abort
  <2> QED BY <2>1 DEF Unheld, Off
<1>7. ASSUME NEW j \in Jobs, Older(j) \/ Damage(j) PROVE Unheld'
  BY <1>1, <1>7 DEF Older, Damage
<1>8. CASE UNCHANGED vars
  BY <1>1, <1>8 DEF vars
<1> QED BY <1>2, <1>3, <1>4, <1>5, <1>6, <1>7, <1>8 DEF Next, Reprocess, Enforce

LEMMA UnheldInvariant == Spec => []Unheld
<1>1. Init => Unheld
  BY DEF Init, Unheld, Off, Locked
<1> QED BY <1>1, UnheldStep, ShapeInvariant, PTL DEF Spec

\* A raw object goes in one way only.
LEMMA ObjectsGo ==
    ASSUME Shape, [Next]_vars, NEW j \in Jobs, object[j] # "none", object'[j] = "none"
    PROVE  Delete(j)
<1> USE DEF Shape, retention, reprocessing, registry, pipeline, service
<1>1. ASSUME UNCHANGED object PROVE FALSE
  BY <1>1
<1>2. ASSUME NEW i, object' = [object EXCEPT ![i] = "document"] \/ object' = [object EXCEPT ![i] = "other"]
      PROVE  FALSE
  BY <1>2
<1>3. CASE DatabaseStep
  BY <1>1, <1>3
  DEF DatabaseStep, Look, Register, Store, List, Reject, Recover, Settle, Judge, MarkQueued,
      Submit, Deliver
<1>4. CASE OtherStep
  BY <1>1, <1>2, <1>4
  DEF OtherStep, Fetch, Upload, Defer, HandlerDies, Copy, GiveUp, Rest, Start, EndRun
<1>5. CASE Begin \/ Commit \/ Abort
  BY <1>1, <1>5 DEF Begin, Commit, Abort
<1>6. ASSUME NEW i \in Jobs, Older(i) \/ DeletePrefix(i) PROVE FALSE
  BY <1>1, <1>6 DEF Older, DeletePrefix
<1>7. ASSUME NEW i \in Jobs, Damage(i) PROVE FALSE
  BY <1>2, <1>7 DEF Damage
<1>8. ASSUME NEW i \in Jobs, Delete(i) PROVE Delete(j)
  BY <1>8 DEF Delete
<1>9. CASE UNCHANGED vars
  BY <1>1, <1>9 DEF vars
<1> QED BY <1>3, <1>4, <1>5, <1>6, <1>7, <1>8, <1>9 DEF Next, Reprocess, Enforce

\* Rows are forgotten in one way only.
LEMMA RowsGo ==
    ASSUME Shape, [Next]_vars, NEW j \in Jobs, job'[j].status = "gone", job[j].status # "gone"
    PROVE  Commit /\ j \in sweep.expired
<1> USE DEF Shape, JobRow, retention, reprocessing, registry, pipeline, service
<1>1. ASSUME job'[j] = job[j] PROVE FALSE
  BY <1>1
<1>2. ASSUME NEW c, Stored(c) \/ Failed(c) PROVE FALSE
  BY <1>2, RowMoves
<1>3. ASSUME NEW r \in Requests, Look(r) \/ Register(r) \/ Store(r) PROVE FALSE
  <2>1. ASSUME NEW c \in Jobs, Replace(r, c) PROVE FALSE
    <3>1. job' = [job EXCEPT ![c] = [status |-> "RECEIVED", source |-> TargetOf[r], named |-> FALSE]]
      BY <2>1 DEF Replace
    <3> QED BY <1>1, <3>1
  <2> QED BY <1>1, <1>2, <1>3, <2>1 DEF Look, Register, Store
<1>4. ASSUME NEW k \in Reconcilers,
             List(k) \/ Reject(k) \/ Recover(k) \/ Settle(k) \/ \E p \in Jobs : Judge(k, p)
      PROVE  FALSE
  BY <1>1, <1>2, <1>4 DEF List, Reject, Recover, Settle, Judge
<1>5. ASSUME NEW i \in Jobs, MarkQueued(i) \/ Submit(i) \/ Deliver(i) PROVE FALSE
  BY <1>1, <1>5 DEF MarkQueued, Submit, Deliver
<1>6. CASE OtherStep
  BY <1>1, <1>6
  DEF OtherStep, Fetch, Upload, Defer, HandlerDies, Copy, GiveUp, Rest, Start, EndRun
<1>7. CASE Begin \/ Abort
  BY <1>1, <1>7 DEF Begin, Abort
<1>8. ASSUME NEW i \in Jobs, Older(i) \/ Damage(i) \/ Delete(i) \/ DeletePrefix(i) PROVE FALSE
  BY <1>1, <1>8 DEF Older, Damage, Delete, DeletePrefix
<1>9. CASE Commit
  BY <1>9, CommitMoves
<1>10. CASE UNCHANGED vars
  BY <1>1, <1>10 DEF vars
<1> QED
  BY <1>3, <1>4, <1>5, <1>6, <1>7, <1>8, <1>9, <1>10 DEF Next, Reprocess, Enforce, DatabaseStep

\* So are the artifacts of the pipeline.
LEMMA ArtifactsGo ==
    ASSUME [Next]_vars, NEW j \in Jobs, j \notin emptied, j \in emptied'
    PROVE  DeletePrefix(j)
<1> USE DEF retention
<1>1. ASSUME NEW i \in Jobs, Older(i) \/ Damage(i) \/ Delete(i) PROVE FALSE
  BY <1>1 DEF Older, Damage, Delete
<1>2. ASSUME NEW i \in Jobs, DeletePrefix(i) PROVE DeletePrefix(j)
  BY <1>2 DEF DeletePrefix
<1>3. CASE Begin \/ Commit \/ Abort
  BY <1>3 DEF Begin, Commit, Abort
<1>4. CASE UNCHANGED vars
  BY <1>4 DEF vars
<1> QED BY <1>1, <1>2, <1>3, <1>4 DEF Next, Reprocess, Enforce

\* enforce_retention.py:60-202: what an unsettled request or a pending delivery
\* holds is neither deleted nor forgotten, whatever happens beside an
\* enforcement and wherever it dies.
THEOREM HeldIsKeptHolds == Spec => HeldIsKept
<1>1. ASSUME Shape, Unheld, [Next]_vars, NEW j \in Jobs, Held(j)
      PROVE  /\ object[j] # "none" => object'[j] # "none"
             /\ j \notin emptied => j \notin emptied'
             /\ job[j].status # "gone" => job'[j].status # "gone"
  <2>1. j \notin sweep.raw \cup sweep.expired
    BY <1>1 DEF Unheld
  <2>2. ~ Delete(j) /\ ~ DeletePrefix(j)
    BY <1>1, <2>1 DEF Unheld, Delete, DeletePrefix
  <2> QED BY <1>1, <2>1, <2>2, ObjectsGo, RowsGo, ArtifactsGo
<1>2. Shape /\ Unheld /\ [Next]_vars =>
        [\A j \in Jobs : Held(j) =>
           /\ object[j] # "none" => object'[j] # "none"
           /\ j \notin emptied => j \notin emptied'
           /\ job[j].status # "gone" => job'[j].status # "gone"]_vars
  BY <1>1
<1> QED BY <1>2, ShapeInvariant, UnheldInvariant, PTL DEF Spec, HeldIsKept

-----------------------------------------------------------------------------
(* Where a source is *)

\* A job that names an object has one, unless an enforcement deleted it; what a
\* replacement waits for is what its parent names, and the parent is held.
Sourced ==
    /\ \A p \in Jobs : request[p] # Absent => job[request[p].child].status # "unused"
    /\ \A j \in Jobs : job[j].status \in {"unused", "RECEIVED"} => ~ job[j].named
    /\ \A r \in Requests : handler[r].at \in {"registered", "uploaded"} =>
         /\ handler[r].child \in Jobs /\ job[handler[r].child].status # "unused"
         /\ handler[r].at = "uploaded" /\ Received(handler[r].child)
              => object[handler[r].child] # "none"
    /\ \A j \in sweep.raw : job[j].named
    /\ \A j \in Jobs : job[j].named =>
         object[j] # "none" \/ j \in torn \/ j \in sweep.raw \ sweep.left
    /\ SourceSurvives

\* What is known of the replacement of a request.
LEMMA RequestKnown ==
    ASSUME Shape, NEW p \in Jobs, request[p] # Absent
    PROVE  request[p] \in Requested /\ request[p].child \in Jobs
BY DEF Shape, Requested

\* A request that is not settled is there.
LEMMA ActiveIsThere ==
    ASSUME NEW p \in Jobs, Active(p) PROVE request[p] # Absent
BY ReprocessingAssumption DEF Active, Absent

\* Nothing that Sourced speaks of is lost.
LEMMA SourcedStays ==
    ASSUME Shape, Sourced, UNCHANGED <<job, request, handler, torn>>,
           sweep'.raw = sweep.raw, sweep'.left = sweep.left,
           \A j \in Jobs : object[j] # "none" => object'[j] # "none"
    PROVE  Sourced'
<1> USE DEF Sourced
<1>1. \A r \in Requests : handler[r].at = "uploaded" /\ Received(handler[r].child)
                            => object'[handler[r].child] # "none"
  OBVIOUS
<1>2. (\A j \in Jobs : job[j].named =>
         object[j] # "none" \/ j \in torn \/ j \in sweep.raw \ sweep.left)'
  OBVIOUS
<1>3. SourceSurvives'
  <2> SUFFICES ASSUME NEW p \in Jobs, Active(p), Received(request[p].child),
                      object'[request[p].child] = "none"
               PROVE  object'[p] # "none" \/ p \in torn
    BY DEF SourceSurvives, Active, Received
  <2>1. request[p].child \in Jobs
    BY ActiveIsThere, RequestKnown
  <2> QED BY <2>1 DEF SourceSurvives
<1>4. \A j : Received(j)' <=> Received(j)
  BY DEF Received
<1> QED BY <1>1, <1>2, <1>3, <1>4

\* A handler goes on.
LEMMA SourcedGoes ==
    ASSUME Shape, Sourced, UNCHANGED <<job, request, sweep, torn>>,
           NEW r \in Requests, NEW then, NEW c, Goto(r, then, c),
           then \in {"registered", "uploaded"} => c \in Jobs /\ job[c].status # "unused",
           then = "uploaded" => object'[c] # "none",
           \A j \in Jobs : object[j] # "none" => object'[j] # "none"
    PROVE  Sourced'
<1>1. (\A i \in Requests : handler[i].at \in {"registered", "uploaded"} =>
         /\ handler[i].child \in Jobs /\ job[handler[i].child].status # "unused"
         /\ handler[i].at = "uploaded" /\ Received(handler[i].child)
              => object[handler[i].child] # "none")'
  <2> SUFFICES ASSUME NEW i \in Requests, handler'[i].at \in {"registered", "uploaded"}
               PROVE  /\ handler'[i].child \in Jobs /\ job[handler'[i].child].status # "unused"
                      /\ handler'[i].at = "uploaded" /\ Received(handler'[i].child)
                           => object'[handler'[i].child] # "none"
    BY DEF Received
  <2>1. CASE i = r
    <3>1. handler'[i] = [at |-> then, child |-> c]
      BY <2>1 DEF Goto, Shape
    <3> QED BY <3>1
  <2>2. CASE i # r
    <3>1. handler'[i] = handler[i]
      BY <2>2 DEF Goto, Shape
    <3> QED BY <3>1 DEF Sourced
  <2> QED BY <2>1, <2>2
<1>2. (\A j \in Jobs : job[j].named =>
         object[j] # "none" \/ j \in torn \/ j \in sweep.raw \ sweep.left)'
  BY DEF Sourced
<1>3. SourceSurvives'
  <2> SUFFICES ASSUME NEW p \in Jobs, Active(p), Received(request[p].child),
                      object'[request[p].child] = "none"
               PROVE  object'[p] # "none" \/ p \in torn
    BY DEF SourceSurvives, Active, Received
  <2>1. request[p].child \in Jobs
    BY ActiveIsThere, RequestKnown
  <2> QED BY <2>1 DEF Sourced, SourceSurvives
<1> QED BY <1>1, <1>2, <1>3 DEF Sourced

\* An interrupted upload is settled: a row that comes to name an object has it.
LEMMA SourcedSettles ==
    ASSUME Shape, Sourced, NEW c, Stored(c) \/ Failed(c),
           Stored(c) /\ c \in Jobs /\ Received(c) => object[c] # "none",
           UNCHANGED <<object, request, sweep, torn>>, sweep.raw = {},
           \A r \in Requests : handler'[r].at \in {"registered", "uploaded"}
                                 => handler'[r] = handler[r]
    PROVE  Sourced'
<1>1. \A j \in Jobs :
        /\ job'[j].status \in {"unused", "RECEIVED"} => job'[j] = job[j]
        /\ job'[j].status = "unused" <=> job[j].status = "unused"
        /\ Received(j)' => Received(j)
        /\ job'[j].named => job[j].named \/ object[j] # "none"
  BY RowMoves DEF Received
<1>2. (\A p \in Jobs : request[p] # Absent => job[request[p].child].status # "unused")'
  BY <1>1, RequestKnown DEF Sourced
<1>3. (\A j \in Jobs : job[j].status \in {"unused", "RECEIVED"} => ~ job[j].named)'
  BY <1>1 DEF Sourced
<1>4. (\A r \in Requests : handler[r].at \in {"registered", "uploaded"} =>
         /\ handler[r].child \in Jobs /\ job[handler[r].child].status # "unused"
         /\ handler[r].at = "uploaded" /\ Received(handler[r].child)
              => object[handler[r].child] # "none")'
  BY <1>1 DEF Sourced
<1>5. (\A j \in sweep.raw : job[j].named)'
  OBVIOUS
<1>6. (\A j \in Jobs : job[j].named =>
         object[j] # "none" \/ j \in torn \/ j \in sweep.raw \ sweep.left)'
  BY <1>1 DEF Sourced
<1>7. SourceSurvives'
  <2> SUFFICES ASSUME NEW p \in Jobs, Active(p), Received(request[p].child)',
                      object[request[p].child] = "none"
               PROVE  object[p] # "none" \/ p \in torn
    BY DEF SourceSurvives, Active
  <2>1. request[p].child \in Jobs
    BY ActiveIsThere, RequestKnown
  <2>2. Received(request[p].child)
    BY <1>1, <2>1 DEF Received
  <2> QED BY <2>2 DEF Sourced, SourceSurvives
<1> QED BY <1>2, <1>3, <1>4, <1>5, <1>6, <1>7 DEF Sourced

\* A replacement is registered for a parent that names what it is to be copied from.
LEMMA SourcedReplaces ==
    ASSUME Shape, Sourced, NEW r \in Requests, NEW c \in Jobs, Replace(r, c),
           job[c].status = "unused", job[TargetOf[r]].named,
           UNCHANGED <<object, sweep, torn>>, sweep.raw = {}
    PROVE  Sourced'
<1> DEFINE p == TargetOf[r]
<1>0. p \in Jobs
  BY ReprocessingAssumption
<1>1. job'[c] = [status |-> "RECEIVED", source |-> p, named |-> FALSE]
  BY DEF Replace, Shape
<1>2. \A j \in Jobs : j # c => job'[j] = job[j]
  BY DEF Replace, Shape
<1>3. request'[p] = [child |-> c, form |-> FormOf[r], status |-> "requested"]
  BY <1>0 DEF Replace, Shape
<1>4. \A q \in Jobs : q # p => request'[q] = request[q]
  BY DEF Replace, Shape
<1>5. handler'[r] = [at |-> "registered", child |-> c]
  BY DEF Replace, Goto, Shape
<1>6. \A i \in Requests : i # r => handler'[i] = handler[i]
  BY DEF Replace, Goto, Shape
<1>7. (\A q \in Jobs : request[q] # Absent => job[request[q].child].status # "unused")'
  <2> SUFFICES ASSUME NEW q \in Jobs, request'[q] # Absent
               PROVE  job'[request'[q].child].status # "unused"
    BY DEF Absent
  <2>1. CASE q = p
    BY <1>1, <1>3, <2>1
  <2>2. CASE q # p
    <3>1. request[q] # Absent /\ request'[q].child = request[q].child
      BY <1>4, <2>2
    <3>2. request[q].child \in Jobs /\ job[request[q].child].status # "unused"
      BY <3>1, RequestKnown DEF Sourced
    <3> QED BY <1>1, <1>2, <3>1, <3>2
  <2> QED BY <2>1, <2>2
<1>8. (\A j \in Jobs : job[j].status \in {"unused", "RECEIVED"} => ~ job[j].named)'
  BY <1>1, <1>2 DEF Sourced
<1>9. (\A i \in Requests : handler[i].at \in {"registered", "uploaded"} =>
         /\ handler[i].child \in Jobs /\ job[handler[i].child].status # "unused"
         /\ handler[i].at = "uploaded" /\ Received(handler[i].child)
              => object[handler[i].child] # "none")'
  <2> SUFFICES ASSUME NEW i \in Requests, handler'[i].at \in {"registered", "uploaded"}
               PROVE  /\ handler'[i].child \in Jobs /\ job'[handler'[i].child].status # "unused"
                      /\ handler'[i].at = "uploaded" /\ job'[handler'[i].child].status = "RECEIVED"
                           => object[handler'[i].child] # "none"
    BY DEF Received
  <2>1. CASE i = r
    BY <1>1, <1>5, <2>1
  <2>2. CASE i # r
    <3>1. handler'[i] = handler[i]
      BY <1>6, <2>2
    <3>2. handler[i].child \in Jobs /\ job[handler[i].child].status # "unused"
      BY <3>1 DEF Sourced
    <3>3. job'[handler[i].child] = job[handler[i].child]
      BY <1>2, <3>2
    <3> QED BY <3>1, <3>2, <3>3 DEF Sourced, Received
  <2> QED BY <2>1, <2>2
<1>10. (\A j \in sweep.raw : job[j].named)'
  OBVIOUS
<1>11. (\A j \in Jobs : job[j].named =>
         object[j] # "none" \/ j \in torn \/ j \in sweep.raw \ sweep.left)'
  BY <1>1, <1>2 DEF Sourced
<1>12. SourceSurvives'
  <2> SUFFICES ASSUME NEW q \in Jobs, Active(q)', Received(request[q].child)',
                      object[request'[q].child] = "none"
               PROVE  object[q] # "none" \/ q \in torn
    BY DEF SourceSurvives
  <2>1. CASE q = p
    BY <1>0, <2>1 DEF Sourced
  <2>2. CASE q # p
    <3>1. request'[q] = request[q] /\ Active(q)
      BY <1>4, <2>2 DEF Active
    <3>2. request[q].child \in Jobs /\ job[request[q].child].status # "unused"
      BY <3>1, ActiveIsThere, RequestKnown DEF Sourced
    <3>3. Received(request[q].child)
      BY <1>2, <3>1, <3>2 DEF Received
    <3> QED BY <3>1, <3>3 DEF Sourced, SourceSurvives
  <2> QED BY <2>1, <2>2
<1> QED BY <1>7, <1>8, <1>9, <1>10, <1>11, <1>12 DEF Sourced

\* A request is looked at, settled or forgotten, jobs are dispatched or forgotten.
LEMMA SourcedResolves ==
    ASSUME Shape, Sourced, UNCHANGED <<object, handler>>,
           \A j \in Jobs :
             /\ job'[j].named => job[j].named
             /\ job'[j].status \in {"unused", "RECEIVED"} => job'[j].status = job[j].status,
           \A j \in Jobs : job'[j].named =>
             object[j] # "none" \/ j \in torn' \/ j \in sweep'.raw \ sweep'.left,
           \A j \in sweep'.raw : job'[j].named,
           \A p \in Jobs :
             /\ request'[p] # Absent => request[p] # Absent /\ request'[p].child = request[p].child
             /\ Active(p)' => Active(p)
             /\ Active(p)' /\ p \in torn => p \in torn',
           \A j \in Jobs : job'[j].named \in BOOLEAN
    PROVE  Sourced'
<1>1. (\A p \in Jobs : request[p] # Absent => job[request[p].child].status # "unused")'
  BY RequestKnown DEF Sourced, Absent
<1>2. (\A j \in Jobs : job[j].status \in {"unused", "RECEIVED"} => ~ job[j].named)'
  BY DEF Sourced
<1>3. (\A r \in Requests : handler[r].at \in {"registered", "uploaded"} =>
         /\ handler[r].child \in Jobs /\ job[handler[r].child].status # "unused"
         /\ handler[r].at = "uploaded" /\ Received(handler[r].child)
              => object[handler[r].child] # "none")'
  BY DEF Sourced, Received
<1>4. SourceSurvives'
  <2> SUFFICES ASSUME NEW p \in Jobs, Active(p)', Received(request[p].child)',
                      object[request'[p].child] = "none"
               PROVE  object[p] # "none" \/ p \in torn'
    BY DEF SourceSurvives
  <2>1. request[p] # Absent /\ request'[p] # Absent
    BY ReprocessingAssumption DEF Active, Absent
  <2>2. request'[p].child = request[p].child /\ request[p].child \in Jobs
    BY <2>1, RequestKnown
  <2>3. Active(p) /\ Received(request[p].child)
    BY <2>2 DEF Received
  <2> QED BY <2>2, <2>3 DEF Sourced, SourceSurvives
<1> QED BY <1>1, <1>2, <1>3, <1>4 DEF Sourced

LEMMA HandlerSourced ==
    ASSUME Shape, Unheld, Sourced, UNCHANGED retention, NEW r \in Requests,
           \/ ~ Locked /\ (Look(r) \/ Register(r) \/ Store(r))
           \/ Fetch(r) \/ Upload(r) \/ Defer(r) \/ HandlerDies(r)
    PROVE  Sourced'
<1> USE DEF retention, registry, pipeline
<1>0. TargetOf[r] \in Jobs /\ (~ Locked => sweep.raw = {})
  BY ReprocessingAssumption DEF Unheld, Off
<1>1. ASSUME UNCHANGED registry, NEW then, NEW c, Goto(r, then, c),
             then # "uploaded",
             then = "registered" => c \in Jobs /\ job[c].status # "unused"
      PROVE  Sourced'
  BY <1>1, SourcedGoes
<1>2. ASSUME UNCHANGED registry, NEW then \in {"registered", "answered"},
             request[TargetOf[r]] # Absent, Meet(r, then)
      PROVE  Sourced'
  <2>1. /\ request[TargetOf[r]].child \in Jobs
        /\ job[request[TargetOf[r]].child].status # "unused"
    BY <1>0, <1>2, RequestKnown DEF Sourced
  <2> QED BY <1>1, <1>2, <2>1 DEF Meet, Refuse
<1>3. ASSUME UNCHANGED registry, Refuse(r) PROVE Sourced'
  BY <1>1, <1>3 DEF Refuse
<1>4. CASE Look(r)
  BY <1>1, <1>2, <1>3, <1>4 DEF Look
<1>5. CASE Fetch(r)
  BY <1>1, <1>3, <1>5 DEF Fetch
<1>6. CASE ~ Locked /\ Register(r)
  <2>1. CASE request[TargetOf[r]] # Absent
    BY <1>2, <1>6, <2>1 DEF Register
  <2>2. ASSUME NEW c \in Jobs, job[c].status = "unused", Replace(r, c), job[TargetOf[r]].named
        PROVE  Sourced'
    BY <1>0, <1>6, <2>2, SourcedReplaces DEF Register
  <2> QED BY <1>3, <1>6, <2>1, <2>2 DEF Register
<1>7. CASE Upload(r)
  <2>1. handler[r].child \in Jobs /\ job[handler[r].child].status # "unused"
    BY <1>7 DEF Upload, Sourced
  <2>2. /\ object'[handler[r].child] = "document"
        /\ \A j \in Jobs : object[j] # "none" => object'[j] # "none"
    BY <1>7, <2>1 DEF Upload, Shape
  <2> QED BY <1>7, <2>1, <2>2, SourcedGoes DEF Upload
<1>8. CASE ~ Locked /\ Store(r)
  <2>1. \A i \in Requests : handler'[i].at \in {"registered", "uploaded"} => handler'[i] = handler[i]
    BY <1>8 DEF Store, Goto, Shape
  <2>2. Received(handler[r].child) => object[handler[r].child] # "none"
    BY <1>8 DEF Store, Sourced
  <2> QED BY <1>0, <1>8, <2>1, <2>2, SourcedSettles DEF Store
<1>9. CASE Defer(r)
  BY <1>1, <1>9 DEF Defer
<1>10. CASE HandlerDies(r)
  BY <1>3, <1>10 DEF HandlerDies
<1> QED BY <1>4, <1>5, <1>6, <1>7, <1>8, <1>9, <1>10

LEMMA DatabaseSourced ==
    ASSUME Shape, Unheld, Sourced, ~ Locked, UNCHANGED retention,
           \/ \E k \in Reconcilers : Reject(k) \/ Recover(k) \/ Settle(k)
           \/ \E j \in Jobs : MarkQueued(j)
    PROVE  Sourced'
<1> USE DEF retention, registry, pipeline, service
<1>0. sweep.raw = {}
  BY DEF Unheld, Off
<1>1. ASSUME NEW k \in Reconcilers, Reject(k) PROVE Sourced'
  <2>1. Stored(Current(k)) /\ Current(k) \in Jobs /\ Received(Current(k))
          => object[Current(k)] # "none"
    <3>1. job \in [Jobs -> JobRow]
      BY DEF Shape
    <3>2. ASSUME Stored(Current(k)), Current(k) \in Jobs, Received(Current(k)) PROVE FALSE
      <4>1. job'[Current(k)].status = "STORED"
        BY <3>1, <3>2 DEF Stored, JobRow
      <4>2. job'[Current(k)].status = "FAILED"
        BY <1>1, <3>1, <3>2 DEF Reject, Failed, JobRow
      <4> QED BY <4>1, <4>2
    <3> QED BY <3>2
  <2> QED BY <1>0, <1>1, <2>1, SourcedSettles DEF Reject
<1>2. ASSUME NEW k \in Reconcilers, Recover(k) PROVE Sourced'
  BY <1>0, <1>2, SourcedSettles DEF Recover
<1>3. ASSUME UNCHANGED <<object, handler>>,
             \A j \in Jobs : /\ job'[j].named = job[j].named
                             /\ job'[j].status = job[j].status \/
                                  {job'[j].status, job[j].status} \cap {"unused", "RECEIVED"} = {},
             \A p \in Jobs : /\ request'[p] # Absent => request[p] # Absent /\ request'[p].child = request[p].child
                             /\ Active(p)' => Active(p)
      PROVE  Sourced'
  <2>1. \A j \in Jobs : job'[j].named \in BOOLEAN
    BY <1>3 DEF Shape, JobRow
  <2>2. \A j \in Jobs :
             /\ job'[j].named => job[j].named
             /\ job'[j].status \in {"unused", "RECEIVED"} => job'[j].status = job[j].status
    BY <1>3
  <2>3. \A j \in Jobs : job'[j].named =>
             object[j] # "none" \/ j \in torn' \/ j \in sweep'.raw \ sweep'.left
    BY <1>3 DEF Sourced
  <2>4. \A j \in sweep'.raw : job'[j].named
    BY <1>0
  <2> QED BY <1>3, <2>1, <2>2, <2>3, <2>4, SourcedResolves
<1>4. ASSUME NEW k \in Reconcilers, Settle(k) PROVE Sourced'
  <2>1. \A p \in Jobs : Active(p) => request[p] # Absent
    BY ActiveIsThere
  <2>2. \A p \in Jobs : /\ request'[p] # Absent => request[p] # Absent /\ request'[p].child = request[p].child
                        /\ Active(p)' => Active(p)
    <3>1. CASE ~ Active(worker[k].parent)
      BY <1>4, <3>1 DEF Settle, Active
    <3>2. CASE Active(worker[k].parent) /\ worker[k].parent \in Jobs
      <4>1. request[worker[k].parent] \in Requested
        BY <3>2, ActiveIsThere, RequestKnown
      <4>2. /\ request'[worker[k].parent].child = request[worker[k].parent].child
            /\ request'[worker[k].parent].status \in Verdicts
        BY <1>4, <3>2, <4>1 DEF Settle, Shape, Requested
      <4>3. \A p \in Jobs : p # worker[k].parent => request'[p] = request[p]
        BY <1>4, <3>2 DEF Settle, Shape
      <4> QED BY <2>1, <3>2, <4>2, <4>3 DEF Active
    <3>3. CASE Active(worker[k].parent) /\ worker[k].parent \notin Jobs
      BY <1>4, <3>3 DEF Settle, Shape, Active
    <3> QED BY <3>1, <3>2, <3>3
  <2> QED BY <1>3, <1>4, <2>2 DEF Settle
<1>5. ASSUME NEW c \in Jobs, MarkQueued(c) PROVE Sourced'
  <2>1. \A j \in Jobs : /\ job'[j].named = job[j].named
                        /\ job'[j].status = job[j].status \/
                             {job'[j].status, job[j].status} \cap {"unused", "RECEIVED"} = {}
    <3> SUFFICES ASSUME NEW j \in Jobs
                 PROVE  /\ job'[j].named = job[j].named
                        /\ job'[j].status = job[j].status \/
                             {job'[j].status, job[j].status} \cap {"unused", "RECEIVED"} = {}
      OBVIOUS
    <3>1. CASE j = c
      <4>1. job'[j].named = job[j].named /\ job'[j].status = "QUEUED" /\ job[j].status = "STORED"
        BY <1>5, <3>1 DEF MarkQueued, Shape, JobRow
      <4> QED BY <4>1
    <3>2. CASE j # c
      BY <1>5, <3>2 DEF MarkQueued, Shape
    <3> QED BY <3>1, <3>2
  <2>2. \A p \in Jobs : /\ request'[p] # Absent => request[p] # Absent /\ request'[p].child = request[p].child
                        /\ Active(p)' => Active(p)
    <3> SUFFICES ASSUME NEW p \in Jobs
                 PROVE  /\ request'[p] # Absent => request[p] # Absent /\ request'[p].child = request[p].child
                        /\ Active(p)' => Active(p)
      OBVIOUS
    <3>1. CASE request[p].child = c /\ request[p].status = "requested"
      <4>1. request[p] # Absent /\ request[p] \in Requested
        BY <3>1, ReprocessingAssumption, RequestKnown DEF Absent
      <4>2. request'[p] = [request[p] EXCEPT !.status = "dispatched"]
        BY <1>5, <3>1 DEF MarkQueued
      <4>3. request'[p].child = request[p].child
        BY <4>1, <4>2 DEF Requested
      <4> QED BY <3>1, <4>1, <4>3 DEF Active
    <3>2. CASE ~ (request[p].child = c /\ request[p].status = "requested")
      BY <1>5, <3>2 DEF MarkQueued, Active
    <3> QED BY <3>1, <3>2
  <2> QED BY <1>3, <1>5, <2>1, <2>2 DEF MarkQueued
<1> QED BY <1>1, <1>2, <1>4, <1>5

LEMMA EnforcementSourced ==
    ASSUME Shape, Unheld, Sourced, Begin \/ Commit \/ Abort PROVE Sourced'
<1> USE DEF reprocessing, registry, pipeline, service
<1>0. \A j \in Jobs : job[j] \in JobRow /\ job[j].named \in BOOLEAN
  BY DEF Shape, JobRow
<1>1. CASE Begin
  <2>1. /\ sweep'.raw = RawSelected /\ sweep'.left = RawSelected /\ sweep = Off
        /\ UNCHANGED <<job, object, request, handler, torn>>
    BY <1>1, BeginSelects DEF Unheld
  <2>2. \A j \in Jobs : job[j].named => object[j] # "none" \/ j \in torn
    BY <2>1 DEF Sourced, Off
  <2>3. \A j \in RawSelected : job[j].named
    BY DEF RawSelected
  <2> QED BY <1>0, <2>1, <2>2, <2>3, SourcedResolves DEF Active
<1>2. CASE Commit
  <2>1. /\ sweep.left = {} /\ torn' = torn \ sweep.raw /\ sweep' = Off
        /\ UNCHANGED <<object, handler>>
    BY <1>2 DEF Commit
  <2>2. \A p \in Jobs : request'[p] = request[p] \/ request'[p] = Absent
    BY <1>2 DEF Commit
  <2>3. \A p \in Jobs :
             /\ request'[p] # Absent => request[p] # Absent /\ request'[p].child = request[p].child
             /\ Active(p)' => Active(p)
             /\ Active(p)' /\ p \in torn => p \in torn'
    <3> SUFFICES ASSUME NEW p \in Jobs
                 PROVE  /\ request'[p] # Absent => request[p] # Absent /\ request'[p].child = request[p].child
                        /\ Active(p)' => Active(p)
                        /\ Active(p)' /\ p \in torn => p \in torn'
      OBVIOUS
    <3>1. Active(p)' => Active(p)
      BY <2>2, ReprocessingAssumption DEF Active, Absent
    <3>2. Active(p) => p \notin sweep.raw
      BY DEF Unheld, Held
    <3> QED BY <2>1, <2>2, <3>1, <3>2
  <2>4. \A j \in Jobs :
             /\ job'[j].named => job[j].named /\ j \notin sweep.raw
             /\ job'[j].status \in {"unused", "RECEIVED"} => job'[j].status = job[j].status
    BY <1>2, CommitMoves
  <2>5. \A j \in Jobs : job'[j].named \in BOOLEAN
    BY <1>2, CommitMoves DEF JobRow
  <2>6. \A j \in Jobs : job'[j].named =>
             object[j] # "none" \/ j \in torn' \/ j \in sweep'.raw \ sweep'.left
    BY <2>1, <2>4 DEF Sourced
  <2>7. \A j \in sweep'.raw : job'[j].named
    BY <2>1 DEF Off
  <2> QED BY <2>1, <2>3, <2>4, <2>5, <2>6, <2>7, SourcedResolves
<1>3. CASE Abort
  <2>1. /\ sweep' = Off /\ torn' = torn \cup (sweep.raw \ sweep.left)
        /\ UNCHANGED <<job, object, request, handler>>
    BY <1>3 DEF Abort
  <2>2. \A j \in Jobs : job'[j].named =>
             object[j] # "none" \/ j \in torn' \/ j \in sweep'.raw \ sweep'.left
    BY <2>1 DEF Sourced
  <2>3. \A j \in sweep'.raw : job'[j].named
    BY <2>1 DEF Off
  <2> QED BY <1>0, <2>1, <2>2, <2>3, SourcedResolves DEF Active
<1> QED BY <1>1, <1>2, <1>3

LEMMA DeleteSourced ==
    ASSUME Shape, Unheld, Sourced, NEW d \in Jobs, Delete(d) PROVE Sourced'
<1> USE DEF registry, pipeline, service
<1>1. /\ d \in sweep.left /\ d \in sweep.raw /\ ~ Held(d) /\ job[d].named
      /\ sweep'.raw = sweep.raw /\ sweep'.left = sweep.left \ {d}
      /\ UNCHANGED <<job, request, handler, torn>>
  BY DEF Delete, Unheld, Shape, Sourced
<1>2. \A j \in Jobs : j # d => object'[j] = object[j]
  BY DEF Delete, Shape
<1>3. ~ Received(d)
  BY <1>1 DEF Sourced, Received
<1>4. (\A r \in Requests : handler[r].at \in {"registered", "uploaded"} =>
         /\ handler[r].child \in Jobs /\ job[handler[r].child].status # "unused"
         /\ handler[r].at = "uploaded" /\ Received(handler[r].child)
              => object[handler[r].child] # "none")'
  BY <1>1, <1>2, <1>3 DEF Sourced, Received
<1>5. (\A j \in Jobs : job[j].named =>
         object[j] # "none" \/ j \in torn \/ j \in sweep.raw \ sweep.left)'
  BY <1>1, <1>2 DEF Sourced
<1>6. SourceSurvives'
  <2> SUFFICES ASSUME NEW p \in Jobs, Active(p), Received(request[p].child),
                      object'[request[p].child] = "none"
               PROVE  object'[p] # "none" \/ p \in torn
    BY <1>1 DEF SourceSurvives, Active, Received
  <2>1. request[p].child \in Jobs
    BY ActiveIsThere, RequestKnown
  <2>2. p # d /\ request[p].child # d
    BY <1>1 DEF Held
  <2> QED BY <1>2, <2>1, <2>2 DEF Sourced, SourceSurvives
<1> QED BY <1>1, <1>4, <1>5, <1>6 DEF Sourced

LEMMA SourcedStep == Shape /\ Unheld /\ Sourced /\ [Next]_vars => Sourced'
<1> SUFFICES ASSUME Shape, Unheld, Sourced, [Next]_vars PROVE Sourced'
  OBVIOUS
<1> USE DEF retention, reprocessing, registry, pipeline, service
<1>1. ASSUME UNCHANGED <<registry, handler, torn>>, UNCHANGED sweep PROVE Sourced'
  BY <1>1, SourcedStays
<1>2. ASSUME NEW r \in Requests, UNCHANGED retention,
             \/ ~ Locked /\ (Look(r) \/ Register(r) \/ Store(r))
             \/ Fetch(r) \/ Upload(r) \/ Defer(r) \/ HandlerDies(r)
      PROVE  Sourced'
  BY <1>2, HandlerSourced
<1>3. ASSUME NEW k \in Reconcilers, UNCHANGED retention,
             \/ ~ Locked /\ (Reject(k) \/ Recover(k) \/ Settle(k))
             \/ ~ Locked /\ (List(k) \/ \E p \in Jobs : Judge(k, p))
             \/ GiveUp(k) \/ Rest(k)
      PROVE  Sourced'
  <2>1. CASE ~ Locked /\ (Reject(k) \/ Recover(k) \/ Settle(k))
    BY <1>3, <2>1, DatabaseSourced
  <2>2. CASE List(k) \/ GiveUp(k) \/ Rest(k) \/ \E p \in Jobs : Judge(k, p)
    BY <1>1, <1>3, <2>2 DEF List, GiveUp, Rest, Judge
  <2> QED BY <1>3, <2>1, <2>2
<1>4. ASSUME NEW k \in Reconcilers, UNCHANGED retention, Copy(k) PROVE Sourced'
  <2>1. \A j \in Jobs : object[j] # "none" => object'[j] # "none"
    BY <1>4 DEF Copy, Shape
  <2> QED BY <1>4, <2>1, SourcedStays DEF Copy
<1>5. ASSUME NEW j \in Jobs, UNCHANGED retention,
             ~ Locked /\ MarkQueued(j)
      PROVE  Sourced'
  BY <1>5, DatabaseSourced
<1>6. ASSUME NEW j \in Jobs, UNCHANGED retention, Submit(j) \/ Deliver(j) \/ Start(j) \/ EndRun(j)
      PROVE  Sourced'
  BY <1>1, <1>6 DEF Submit, Deliver, Start, EndRun
<1>7. CASE Begin \/ Commit \/ Abort
  BY <1>7, EnforcementSourced
<1>8. ASSUME NEW j \in Jobs, Older(j) PROVE Sourced'
  BY <1>1, <1>8 DEF Older
<1>9. ASSUME NEW j \in Jobs, Damage(j) PROVE Sourced'
  <2>1. \A i \in Jobs : object[i] # "none" => object'[i] # "none"
    BY <1>9 DEF Damage, Shape
  <2> QED BY <1>9, <2>1, SourcedStays DEF Damage
<1>10. ASSUME NEW j \in Jobs, DeletePrefix(j) PROVE Sourced'
  <2>1. sweep'.raw = sweep.raw /\ sweep'.left = sweep.left
    BY <1>10 DEF DeletePrefix, Shape
  <2> QED BY <1>10, <2>1, SourcedStays DEF DeletePrefix
<1>11. ASSUME NEW j \in Jobs, Delete(j) PROVE Sourced'
  BY <1>11, DeleteSourced
<1>12. CASE UNCHANGED vars
  BY <1>1, <1>12 DEF vars
<1>13. CASE Reprocess
  <2>1. CASE ~ Locked /\ DatabaseStep
    BY <1>2, <1>3, <1>5, <1>6, <1>13, <2>1 DEF Reprocess, DatabaseStep
  <2>2. CASE OtherStep
    BY <1>2, <1>3, <1>4, <1>6, <1>13, <2>2 DEF Reprocess, OtherStep
  <2> QED BY <1>13, <2>1, <2>2 DEF Reprocess
<1> QED
  BY <1>7, <1>8, <1>9, <1>10, <1>11, <1>12, <1>13 DEF Next, Enforce

\* enforce_retention.py:60-202, repository.py:495-528: a replacement that waits
\* for its source can have it, unless an enforcement that died had deleted it
\* before the replacement was asked for.
THEOREM SourceSurvivesHolds == Spec => []SourceSurvives
<1>1. Init => Sourced
  <2> SUFFICES ASSUME Init PROVE Sourced
    OBVIOUS
  <2> USE DEF Init, ReprocessingInit
  <2>1. \A p \in Jobs : request[p] = Absent /\ ~ Active(p)
    BY ReprocessingAssumption DEF Active, Absent
  <2>2. \A j \in Jobs : /\ job[j].status \in {"unused", "RECEIVED"} => ~ job[j].named
                        /\ job[j].named => object[j] # "none"
    OBVIOUS
  <2>3. \A r \in Requests : handler[r].at = "new"
    OBVIOUS
  <2> QED BY <2>1, <2>2, <2>3 DEF Sourced, SourceSurvives, Off
<1>2. Sourced => SourceSurvives
  BY DEF Sourced
<1> QED BY <1>1, <1>2, SourcedStep, ShapeInvariant, UnheldInvariant, PTL DEF Spec
-----------------------------------------------------------------------------
(* The types that the shape leaves out *)

Visit == [at : {"idle", "passing", "writing"}, left : SUBSET Jobs,
          parent : Jobs \cup {None}, verdict : Verdicts \cup {None}]

Rows ==
    /\ born \in Seq(Jobs)
    /\ run \in [Jobs -> {"none", "running", "delivering"} \cup Ended]
    /\ operation \in [Jobs -> {"none", "pending", "acknowledged", "dead_letter"}]

Times ==
    /\ emptied \subseteq Jobs
    /\ age \in [Jobs -> 0 .. 2]
    /\ faults \in 0 .. MaxFaults

Types == Rows /\ Times /\ worker \in [Reconcilers -> Visit]

LEMMA InitialTypes == Init => Types
<1> SUFFICES ASSUME Init PROVE Types
  OBVIOUS
<1>1. Rows
  BY DEF Init, ReprocessingInit, Rows, Ended
<1>2. Times
  BY RetentionAssumption DEF Init, Times
<1>3. worker \in [Reconcilers -> Visit]
  BY DEF Init, ReprocessingInit, Resting, Visit
<1> QED BY <1>1, <1>2, <1>3 DEF Types

\* A reconciler goes to another place.
LEMMA VisitGoes ==
    ASSUME Types, NEW k \in Reconcilers,
           \/ List(k) \/ Reject(k) \/ Recover(k) \/ Settle(k) \/ Copy(k) \/ GiveUp(k) \/ Rest(k)
           \/ \E p \in Jobs : Judge(k, p)
    PROVE  worker' \in [Reconcilers -> Visit] /\ UNCHANGED <<born, run, operation>>
<1> USE DEF Types, At, registry, pipeline
<1>1. ASSUME NEW w \in Visit, At(k, w) PROVE worker' \in [Reconcilers -> Visit]
  BY <1>1
<1>2. worker[k] \in Visit /\ worker[k].left \subseteq Jobs
  BY DEF Visit
<1>3. ASSUME NEW S \in SUBSET Jobs PROVE [worker[k] EXCEPT !.left = S] \in Visit
  BY <1>2 DEF Visit
<1>4. CASE List(k)
  <2>1. [Resting EXCEPT !.at = "passing", !.left = {j \in Jobs : Received(j)}] \in Visit
    BY DEF Resting, Visit
  <2> QED BY <1>1, <1>4, <2>1 DEF List
<1>5. CASE Reject(k) \/ Recover(k)
  <2>1. [worker[k] EXCEPT !.left = @ \ {Current(k)}] \in Visit
    BY <1>2, <1>3
  <2> QED BY <1>1, <1>5, <2>1 DEF Reject, Recover, Advance
<1>6. CASE Settle(k)
  <2>1. [Resting EXCEPT !.at = "passing"] \in Visit
    BY DEF Resting, Visit
  <2> QED BY <1>1, <1>6, <2>1 DEF Settle
<1>7. CASE Copy(k)
  BY <1>7 DEF Copy
<1>8. CASE GiveUp(k)
  BY <1>1, <1>3, <1>8 DEF GiveUp
<1>9. CASE Rest(k)
  <2>1. Resting \in Visit
    BY DEF Resting, Visit
  <2> QED BY <1>1, <1>9, <2>1 DEF Rest
<1>10. ASSUME NEW p \in Jobs, Judge(k, p)
       PROVE  worker' \in [Reconcilers -> Visit] /\ UNCHANGED <<born, run, operation>>
  <2>1. Verdict(p) \in Verdicts \cup {None}
    BY DEF Verdict
  <2>2. [Resting EXCEPT !.at = "writing", !.parent = p, !.verdict = Verdict(p)] \in Visit
    BY <2>1 DEF Resting, Visit
  <2> QED BY <1>1, <1>10, <2>2 DEF Judge
<1> QED BY <1>4, <1>5, <1>6, <1>7, <1>8, <1>9, <1>10

LEMMA RowsGoOn ==
    ASSUME Rows,
           \/ \E r \in Requests : \/ Look(r) \/ Register(r) \/ Store(r) \/ Fetch(r)
                                  \/ Upload(r) \/ Defer(r) \/ HandlerDies(r)
           \/ \E j \in Jobs : MarkQueued(j) \/ Submit(j) \/ Deliver(j) \/ Start(j) \/ EndRun(j)
    PROVE  Rows' /\ UNCHANGED worker
<1> USE DEF Rows, registry, pipeline, service
<1>1. ASSUME NEW r \in Requests,
             Look(r) \/ Store(r) \/ Fetch(r) \/ Upload(r) \/ Defer(r) \/ HandlerDies(r)
      PROVE  Rows' /\ UNCHANGED worker
  BY <1>1 DEF Look, Store, Fetch, Upload, Defer, HandlerDies
<1>2. ASSUME NEW r \in Requests, Register(r) PROVE Rows' /\ UNCHANGED worker
  <2>1. ASSUME NEW c \in Jobs, Replace(r, c) PROVE born' \in Seq(Jobs)
    BY <2>1 DEF Replace
  <2>2. born' \in Seq(Jobs)
    BY <1>2, <2>1 DEF Register
  <2> QED BY <1>2, <2>2 DEF Register
<1>3. ASSUME NEW j \in Jobs, MarkQueued(j) \/ Submit(j) \/ Deliver(j) \/ Start(j) \/ EndRun(j)
      PROVE  Rows' /\ UNCHANGED worker
  BY <1>3 DEF MarkQueued, Submit, Deliver, Start, EndRun, Ended
<1> QED BY <1>1, <1>2, <1>3

LEMMA TypesStep == Shape /\ Types /\ [Next]_vars => Types'
<1> SUFFICES ASSUME Shape, Types, [Next]_vars PROVE Types'
  OBVIOUS
<1> USE DEF Types, retention
<1>1. CASE Reprocess
  <2>1. Times'
    BY <1>1 DEF Reprocess, Times
  <2>2. Rows' /\ worker' \in [Reconcilers -> Visit]
    <3>1. ASSUME NEW k \in Reconcilers,
                 \/ List(k) \/ Reject(k) \/ Recover(k) \/ Settle(k) \/ Copy(k) \/ GiveUp(k)
                 \/ Rest(k) \/ \E p \in Jobs : Judge(k, p)
          PROVE  Rows' /\ worker' \in [Reconcilers -> Visit]
      BY <3>1, VisitGoes DEF Rows
    <3> QED BY <1>1, <3>1, RowsGoOn DEF Reprocess, DatabaseStep, OtherStep
  <2> QED BY <2>1, <2>2
<1> USE DEF reprocessing, registry, pipeline, service, Rows
<1>2. CASE Begin
  BY <1>2 DEF Begin, Times
<1>3. CASE Commit
  BY <1>3 DEF Commit, Times
<1>4. CASE Abort
  BY <1>4, RetentionAssumption DEF Abort, Times
<1>5. ASSUME NEW j \in Jobs, Older(j) PROVE Types'
  <2>1. age' \in [Jobs -> 0 .. 2]
    BY <1>5 DEF Older, Times
  <2> QED BY <1>5, <2>1 DEF Older, Times
<1>6. ASSUME NEW j \in Jobs, Damage(j) PROVE Types'
  BY <1>6, RetentionAssumption DEF Damage, Times
<1>7. ASSUME NEW j \in Jobs, Delete(j) \/ DeletePrefix(j) PROVE Types'
  BY <1>7 DEF Delete, DeletePrefix, Times
<1>8. CASE UNCHANGED vars
  BY <1>8 DEF vars, Times
<1> QED BY <1>1, <1>2, <1>3, <1>4, <1>5, <1>6, <1>7, <1>8 DEF Next, Enforce

LEMMA TypesInvariant == Spec => []Types
BY InitialTypes, TypesStep, ShapeInvariant, PTL DEF Spec

\* repository.py:60-86, 155-163: the rows, the requests and what reconcilers and an
\* enforcement hold of them stay in their types; a verdict is a status of a request.
THEOREM TypeCorrect == Spec => []TypeOK
<1>1. Shape /\ Types => TypeOK
  BY DEF Shape, Types, Rows, Times, Visit, JobRow, Requested, TypeOK, ReprocessingTypeOK
<1> QED BY <1>1, ShapeInvariant, TypesInvariant, PTL

-----------------------------------------------------------------------------
(* How a request is settled *)

\* What a verdict says of a replacement.
Says(v, c) ==
    /\ v = "resolved" => run[c] = "delivered"
    /\ v = "needs_attention" => job[c].status = "FAILED" \/ run[c] \in Ended \ {"delivered"}

\* A verdict that waits to be written is about the replacement the request has, if
\* neither the parent nor a replacement of it is forgotten; a request goes with its
\* parent, and has a replacement that was made for that parent.
Truthful ==
    /\ \A p \in Jobs : request[p] # Absent =>
         job[request[p].child].source = p /\ job[request[p].child].status # "unused"
    /\ \A p \in Jobs : job[p].status = "gone" => request[p] = Absent
    /\ \A k \in Reconcilers : worker[k].at = "writing" =>
         \E p \in Jobs :
           /\ p = worker[k].parent
           /\ \/ Forgotten(p) \/ job[p].status = "gone"
              \/ request[p] # Absent /\ Says(worker[k].verdict, request[p].child)
    /\ \A p \in Jobs : request[p].status \in Verdicts =>
         Forgotten(p) \/ Says(request[p].status, request[p].child)

\* How a row and its workflow may move.
Onward(j) ==
    /\ \/ job'[j].source = job[j].source
       \/ job[j].status = "unused" /\ job'[j].status = "RECEIVED"
    /\ job[j].status # "unused" => job'[j].status # "unused"
    /\ job[j].status = "gone" => job'[j].status = "gone"
    /\ job[j].status = "FAILED" => job'[j].status \in {"FAILED", "gone"}
    /\ run[j] \in Ended => run'[j] = run[j]

LEMMA RowsOnward ==
    ASSUME Shape, Types, [Next]_vars, NEW j \in Jobs PROVE Onward(j)
<1> USE DEF retention, reprocessing, registry, pipeline, service
<1>0. job[j] \in JobRow /\ run[j] \in {"none", "running", "delivering"} \cup Ended
  BY DEF Shape, Types, Rows
<1>1. ASSUME UNCHANGED <<job, run>> PROVE Onward(j)
  BY <1>1 DEF Onward
<1>2. ASSUME NEW c, Stored(c) \/ Failed(c), UNCHANGED run PROVE Onward(j)
  BY <1>2, RowMoves DEF Onward, Received, Stored, Failed, Shape, JobRow
<1>3. ASSUME NEW r \in Requests, Look(r) \/ Register(r) \/ Store(r) PROVE Onward(j)
  <2>1. ASSUME NEW c \in Jobs, job[c].status = "unused", Replace(r, c), UNCHANGED run PROVE Onward(j)
    <3>1. job' = [job EXCEPT ![c] = [status |-> "RECEIVED", source |-> TargetOf[r], named |-> FALSE]]
      BY <2>1 DEF Replace
    <3>2. CASE j = c
      <4>1. job'[j].status = "RECEIVED"
        BY <3>1, <3>2 DEF Shape
      <4> QED BY <2>1, <3>2, <4>1 DEF Onward
    <3>3. CASE j # c
      <4>1. job'[j] = job[j]
        BY <3>1, <3>3 DEF Shape
      <4> QED BY <2>1, <4>1 DEF Onward
    <3> QED BY <3>2, <3>3
  <2> QED BY <1>1, <1>2, <1>3, <2>1 DEF Look, Register, Store
<1>4. ASSUME NEW k \in Reconcilers,
             List(k) \/ Reject(k) \/ Recover(k) \/ Settle(k) \/ \E p \in Jobs : Judge(k, p)
      PROVE  Onward(j)
  BY <1>1, <1>2, <1>4 DEF List, Reject, Recover, Settle, Judge
<1>5. ASSUME NEW i \in Jobs, MarkQueued(i) PROVE Onward(j)
  <2>1. job' = [job EXCEPT ![i].status = "QUEUED"] /\ job[i].status = "STORED" /\ run' = run
    BY <1>5 DEF MarkQueued
  <2>2. CASE j = i
    <3>1. job'[j].status = "QUEUED" /\ job'[j].source = job[j].source
      BY <1>0, <2>1, <2>2 DEF Shape, JobRow
    <3> QED BY <2>1, <2>2, <3>1 DEF Onward
  <2>3. CASE j # i
    BY <1>1, <2>1, <2>3 DEF Onward, Shape
  <2> QED BY <2>2, <2>3
<1>6. ASSUME NEW i \in Jobs, Submit(i) \/ Deliver(i) \/ Start(i) \/ EndRun(i) PROVE Onward(j)
  <2>1. job' = job /\ (run[j] \in Ended => run'[j] = run[j])
    BY <1>0, <1>6 DEF Submit, Deliver, Start, EndRun, Ended, Types, Rows
  <2> QED BY <2>1 DEF Onward
<1>7. CASE OtherStep
  BY <1>1, <1>6, <1>7 DEF OtherStep, Fetch, Upload, Defer, HandlerDies, Copy, GiveUp, Rest
<1>8. CASE Begin \/ Abort
  BY <1>1, <1>8 DEF Begin, Abort
<1>9. ASSUME NEW i \in Jobs, Older(i) \/ Damage(i) \/ Delete(i) \/ DeletePrefix(i) PROVE Onward(j)
  BY <1>1, <1>9 DEF Older, Damage, Delete, DeletePrefix
<1>10. CASE Commit
  <2>1. UNCHANGED run
    BY <1>10 DEF Commit
  <2> QED BY <1>10, <2>1, CommitMoves DEF Onward
<1>11. CASE UNCHANGED vars
  BY <1>1, <1>11 DEF vars
<1> QED
  BY <1>3, <1>4, <1>5, <1>6, <1>7, <1>8, <1>9, <1>10, <1>11 DEF Next, Reprocess, Enforce, DatabaseStep

\* What a verdict says stays so until its replacement is forgotten.
LEMMA SaysStays ==
    ASSUME Shape, Types, [Next]_vars, NEW v, NEW c \in Jobs, Says(v, c), job'[c].status # "gone"
    PROVE  Says(v, c)'
BY RowsOnward DEF Says, Onward, Ended

LEMMA ForgottenStays ==
    ASSUME Shape, Types, [Next]_vars, NEW p, Forgotten(p) PROVE Forgotten(p)'
BY RowsOnward DEF Forgotten, Onward

\* How a request may move: it stays, is dispatched, settled by who waits to do it,
\* forgotten with one of its jobs, or asked for anew.
Dispatched(p) ==
    /\ request[p] # Absent /\ request'[p] # Absent
    /\ request'[p].child = request[p].child /\ request'[p].status \in Unresolved

Settled(p) ==
    \E k \in Reconcilers :
        /\ worker[k].at = "writing" /\ worker[k].parent = p /\ request[p] # Absent
        /\ request'[p] # Absent /\ request'[p].child = request[p].child
        /\ request'[p].status = worker[k].verdict

GoneWith(p) ==
    /\ request[p] # Absent /\ request'[p] = Absent
    /\ job'[p].status = "gone" \/ job'[request[p].child].status = "gone"

Anew(p) ==
    /\ request[p] = Absent /\ request'[p] # Absent /\ Exists(p) /\ job'[p].status # "gone"
    /\ request'[p].child \in Jobs /\ request'[p].status = "requested"
    /\ job'[request'[p].child].source = p /\ job'[request'[p].child].status = "RECEIVED"

Answered(p) == request'[p] = request[p] \/ Dispatched(p) \/ Settled(p) \/ GoneWith(p) \/ Anew(p)

LEMMA RequestsAnswered ==
    ASSUME Shape, Types, Unheld, [Next]_vars, NEW p \in Jobs PROVE Answered(p)
<1> USE DEF retention, reprocessing, registry, pipeline, service
<1>1. ASSUME UNCHANGED request PROVE Answered(p)
  BY <1>1 DEF Answered
<1>2. ASSUME NEW r \in Requests, Look(r) \/ Register(r) \/ Store(r) PROVE Answered(p)
  <2>1. ASSUME NEW c \in Jobs, job[c].status = "unused", Replace(r, c),
               request[TargetOf[r]] = Absent, Exists(TargetOf[r])
        PROVE  Answered(p)
    <3>1. CASE p # TargetOf[r]
      BY <2>1, <3>1 DEF Replace, Shape, Answered
    <3>2. CASE p = TargetOf[r]
      <4>1. request'[p] = [child |-> c, form |-> FormOf[r], status |-> "requested"]
        BY <2>1, <3>2 DEF Replace, Shape
      <4>2. job'[c] = [status |-> "RECEIVED", source |-> p, named |-> FALSE]
        BY <2>1, <3>2 DEF Replace, Shape
      <4>3. c # p
        BY <2>1, <3>2 DEF Exists
      <4>4. job'[p] = job[p]
        BY <2>1, <4>3 DEF Replace, Shape
      <4>5. request'[p] # Absent /\ request'[p].child = c /\ request'[p].status = "requested"
        BY <4>1, ReprocessingAssumption DEF Absent
      <4>6. job'[c].status = "RECEIVED" /\ job'[c].source = p
        BY <4>2
      <4> QED BY <2>1, <3>2, <4>4, <4>5, <4>6 DEF Answered, Anew, Exists
    <3> QED BY <3>1, <3>2
  <2> QED BY <1>1, <1>2, <2>1 DEF Look, Register, Store
<1>3. ASSUME NEW k \in Reconcilers, Settle(k) PROVE Answered(p)
  <2>1. CASE Active(worker[k].parent) /\ p = worker[k].parent
    <3>1. request[p] # Absent /\ request[p] \in Requested
      BY <2>1, ActiveIsThere, RequestKnown
    <3>2. /\ request'[p].child = request[p].child
          /\ request'[p].status = worker[k].verdict
          /\ worker[k].verdict \in Verdicts
      BY <1>3, <2>1, <3>1 DEF Settle, Shape, Requested
    <3>3. request'[p] # Absent
      BY <3>2, ReprocessingAssumption DEF Absent
    <3> QED BY <1>3, <2>1, <3>1, <3>2, <3>3 DEF Answered, Settled, Settle
  <2>2. CASE ~ (Active(worker[k].parent) /\ p = worker[k].parent)
    BY <1>3, <2>2 DEF Settle, Shape, Answered
  <2> QED BY <2>1, <2>2
<1>4. ASSUME NEW k \in Reconcilers,
             List(k) \/ Reject(k) \/ Recover(k) \/ \E q \in Jobs : Judge(k, q)
      PROVE  Answered(p)
  BY <1>1, <1>4 DEF List, Reject, Recover, Judge
<1>5. ASSUME NEW j \in Jobs, MarkQueued(j) PROVE Answered(p)
  <2>1. CASE request[p].child = j /\ request[p].status = "requested"
    <3>1. request[p] # Absent
      BY <2>1, ReprocessingAssumption DEF Absent
    <3>2. request[p] \in Requested /\ request'[p] = [request[p] EXCEPT !.status = "dispatched"]
      BY <1>5, <2>1, <3>1, RequestKnown DEF MarkQueued
    <3>3. request'[p].child = request[p].child /\ request'[p].status = "dispatched"
      BY <3>2 DEF Requested
    <3>4. request'[p] # Absent
      BY <3>3, ReprocessingAssumption DEF Absent
    <3> QED BY <3>1, <3>3, <3>4 DEF Answered, Dispatched
  <2>2. CASE ~ (request[p].child = j /\ request[p].status = "requested")
    BY <1>5, <2>2 DEF MarkQueued, Answered
  <2> QED BY <2>1, <2>2
<1>6. ASSUME NEW j \in Jobs, Submit(j) \/ Deliver(j) PROVE Answered(p)
  BY <1>1, <1>6 DEF Submit, Deliver
<1>7. CASE OtherStep
  BY <1>1, <1>7
  DEF OtherStep, Fetch, Upload, Defer, HandlerDies, Copy, GiveUp, Rest, Start, EndRun
<1>8. CASE Begin \/ Abort
  BY <1>1, <1>8 DEF Begin, Abort
<1>9. ASSUME NEW j \in Jobs, Older(j) \/ Damage(j) \/ Delete(j) \/ DeletePrefix(j) PROVE Answered(p)
  BY <1>1, <1>9 DEF Older, Damage, Delete, DeletePrefix
<1>10. CASE Commit
  <2>1. CASE request[p] = Absent
    <3>1. request'[p] = request[p]
      BY <1>10, <2>1 DEF Commit
    <3> QED BY <3>1 DEF Answered
  <2>2. CASE request[p] # Absent /\ {p, request[p].child} \cap sweep.expired # {}
    <3>1. request'[p] = Absent
      BY <1>10, <2>2 DEF Commit
    <3>2. request[p].child \in Jobs
      BY <2>2, RequestKnown
    <3>3. job'[p].status = "gone" \/ job'[request[p].child].status = "gone"
      BY <1>10, <2>2, <3>2, CommitMoves
    <3> QED BY <2>2, <3>1, <3>3 DEF Answered, GoneWith
  <2>3. CASE {p, request[p].child} \cap sweep.expired = {}
    <3>1. request'[p] = request[p]
      BY <1>10, <2>3 DEF Commit
    <3> QED BY <3>1 DEF Answered
  <2> QED BY <2>1, <2>2, <2>3
<1>11. CASE UNCHANGED vars
  BY <1>1, <1>11 DEF vars
<1> QED
  BY <1>2, <1>3, <1>4, <1>5, <1>6, <1>7, <1>8, <1>9, <1>10, <1>11
  DEF Next, Reprocess, Enforce, DatabaseStep

\* A verdict that comes to wait is the one of the rows as they are.
LEMMA VerdictsWait ==
    ASSUME Shape, Types, [Next]_vars, NEW k \in Reconcilers, worker'[k].at = "writing"
    PROVE  \/ worker'[k] = worker[k]
           \/ \E p \in Jobs : /\ Active(p) /\ UNCHANGED <<job, request, run>>
                              /\ worker'[k].parent = p /\ worker'[k].verdict = Verdict(p)
<1> USE DEF retention, reprocessing, registry, pipeline, service
<1>0. worker \in [Reconcilers -> Visit]
  BY DEF Types
<1>1. ASSUME UNCHANGED worker PROVE worker'[k] = worker[k]
  BY <1>1
<1>2. ASSUME NEW i \in Reconcilers, NEW w \in Visit, At(i, w), w.at # "writing"
      PROVE  worker'[k] = worker[k]
  BY <1>0, <1>2 DEF At
<1>3. ASSUME NEW i \in Reconcilers,
             List(i) \/ Reject(i) \/ Recover(i) \/ Settle(i) \/ Copy(i) \/ GiveUp(i) \/ Rest(i)
      PROVE  worker'[k] = worker[k]
  <2>1. CASE List(i) \/ Settle(i) \/ Rest(i)
    <3>1. /\ [Resting EXCEPT !.at = "passing", !.left = {j \in Jobs : Received(j)}] \in Visit
          /\ [Resting EXCEPT !.at = "passing"] \in Visit /\ Resting \in Visit
          /\ [Resting EXCEPT !.at = "passing", !.left = {j \in Jobs : Received(j)}].at = "passing"
          /\ [Resting EXCEPT !.at = "passing"].at = "passing" /\ Resting.at = "idle"
      BY DEF Resting, Visit
    <3> QED BY <1>2, <2>1, <3>1 DEF List, Settle, Rest
  <2>2. CASE Reject(i) \/ Recover(i) \/ GiveUp(i)
    <3>1. worker[i] \in Visit /\ worker[i].at = "passing"
      BY <1>0, <2>2 DEF Reject, Recover, GiveUp, Uploads
    <3>2. ASSUME NEW S \in SUBSET Jobs
          PROVE  /\ [worker[i] EXCEPT !.left = S] \in Visit
                 /\ [worker[i] EXCEPT !.left = S].at = "passing"
      BY <3>1 DEF Visit
    <3>3. \E S \in SUBSET Jobs : At(i, [worker[i] EXCEPT !.left = S])
      <4>1. worker[i].left \ {Current(i)} \in SUBSET Jobs
        BY <3>1 DEF Visit
      <4> QED BY <2>2, <4>1 DEF Reject, Recover, GiveUp, Advance
    <3> QED BY <1>2, <3>2, <3>3
  <2>3. CASE Copy(i)
    BY <2>3 DEF Copy
  <2> QED BY <1>3, <2>1, <2>2, <2>3
<1>4. ASSUME NEW i \in Reconcilers, NEW p \in Jobs, Judge(i, p), worker'[k] # worker[k]
      PROVE  /\ Active(p) /\ UNCHANGED <<job, request, run>>
             /\ worker'[k].parent = p /\ worker'[k].verdict = Verdict(p)
  <2>1. i = k
    BY <1>0, <1>4 DEF Judge, At
  <2>2. worker'[k] = [Resting EXCEPT !.at = "writing", !.parent = p, !.verdict = Verdict(p)]
    BY <1>0, <1>4, <2>1 DEF Judge, At
  <2>3. worker'[k].parent = p /\ worker'[k].verdict = Verdict(p)
    BY <2>2 DEF Resting
  <2> QED BY <1>4, <2>3 DEF Judge
<1>5. CASE Reprocess
  BY <1>1, <1>3, <1>4, <1>5, RowsGoOn DEF Reprocess, DatabaseStep, OtherStep, Types
<1>6. CASE Begin \/ Commit \/ Abort
  BY <1>1, <1>6 DEF Begin, Commit, Abort
<1>7. ASSUME NEW j \in Jobs, Older(j) \/ Damage(j) \/ Delete(j) \/ DeletePrefix(j)
      PROVE  worker'[k] = worker[k]
  BY <1>1, <1>7 DEF Older, Damage, Delete, DeletePrefix
<1>8. CASE UNCHANGED vars
  BY <1>1, <1>8 DEF vars
<1> QED BY <1>5, <1>6, <1>7, <1>8 DEF Next, Enforce

LEMMA VerdictSays ==
    ASSUME NEW p \in Jobs PROVE Says(Verdict(p), request[p].child)
BY ReprocessingAssumption DEF Says, Verdict, Ended

LEMMA TruthfulStep == Shape /\ Types /\ Unheld /\ Truthful /\ [Next]_vars => Truthful'
<1> SUFFICES ASSUME Shape, Types, Unheld, Truthful, [Next]_vars PROVE Truthful'
  OBVIOUS
<1>1. ASSUME NEW p \in Jobs PROVE Answered(p)
  BY RequestsAnswered
<1>2. ASSUME NEW p \in Jobs, request[p] # Absent
      PROVE  /\ request[p].child \in Jobs
             /\ job[request[p].child].source = p /\ job[request[p].child].status # "unused"
             /\ job'[request[p].child].source = p /\ job'[request[p].child].status # "unused"
  <2>1. /\ request[p].child \in Jobs
        /\ job[request[p].child].source = p /\ job[request[p].child].status # "unused"
    BY <1>2, RequestKnown DEF Truthful
  <2> QED BY <2>1, RowsOnward DEF Onward
<1>3. ASSUME NEW p \in Jobs, NEW d, request[p] # Absent, request[p].child = d,
             NEW v, Says(v, d), ~ Forgotten(p)'
      PROVE  Says(v, d)'
  <2>1. d \in Jobs /\ job'[d].status # "gone"
    BY <1>2, <1>3 DEF Forgotten
  <2> QED BY <1>3, <2>1, SaysStays
<1>4. ASSUME NEW p \in Jobs, Forgotten(p) \/ job[p].status = "gone"
      PROVE  Forgotten(p)' \/ job'[p].status = "gone"
  BY <1>4, ForgottenStays, RowsOnward DEF Onward
<1>5. (\A p \in Jobs : request[p] # Absent =>
         job[request[p].child].source = p /\ job[request[p].child].status # "unused")'
  <2> SUFFICES ASSUME NEW p \in Jobs, request'[p] # Absent
               PROVE  job'[request'[p].child].source = p /\ job'[request'[p].child].status # "unused"
    BY DEF Absent
  <2>1. CASE Anew(p)
    BY <2>1 DEF Anew
  <2>2. CASE ~ Anew(p)
    <3>1. request[p] # Absent /\ request'[p].child = request[p].child
      BY <1>1, <2>2 DEF Answered, Dispatched, Settled, GoneWith
    <3> QED BY <1>2, <3>1
  <2> QED BY <2>1, <2>2
<1>6. (\A p \in Jobs : job[p].status = "gone" => request[p] = Absent)'
  <2> SUFFICES ASSUME NEW p \in Jobs, job'[p].status = "gone" PROVE request'[p] = Absent
    BY DEF Absent
  <2>1. CASE job[p].status = "gone"
    <3>1. request[p] = Absent /\ ~ Exists(p)
      BY <2>1 DEF Truthful, Exists
    <3> QED BY <1>1, <3>1 DEF Answered, Dispatched, Settled, GoneWith, Anew
  <2>2. CASE job[p].status # "gone"
    BY <2>2, RowsGo DEF Commit
  <2> QED BY <2>1, <2>2
<1>7. (\A k \in Reconcilers : worker[k].at = "writing" =>
         \E p \in Jobs :
           /\ p = worker[k].parent
           /\ \/ Forgotten(p) \/ job[p].status = "gone"
              \/ request[p] # Absent /\ Says(worker[k].verdict, request[p].child))'
  <2> SUFFICES ASSUME NEW k \in Reconcilers, worker'[k].at = "writing"
               PROVE  \E p \in Jobs :
                        /\ p = worker'[k].parent
                        /\ \/ Forgotten(p)' \/ job'[p].status = "gone"
                           \/ request'[p] # Absent /\ Says(worker[k].verdict, request[p].child)'
    BY DEF Absent
  <2>1. CASE worker'[k] = worker[k]
    <3>1. PICK p \in Jobs :
            /\ p = worker[k].parent
            /\ \/ Forgotten(p) \/ job[p].status = "gone"
               \/ request[p] # Absent /\ Says(worker[k].verdict, request[p].child)
      BY <2>1 DEF Truthful
    <3>2. PICK v : v = worker[k].verdict
      OBVIOUS
    <3>3. PICK d : d = request[p].child
      OBVIOUS
    <3>4. ASSUME ~ Forgotten(p)', job'[p].status # "gone"
          PROVE  request'[p] # Absent /\ Says(worker[k].verdict, request[p].child)'
      <4>1. request[p] # Absent /\ Says(v, d)
        BY <1>4, <3>1, <3>2, <3>3, <3>4
      <4>2. Says(v, d)'
        BY <1>3, <3>3, <3>4, <4>1
      <4>3. ~ GoneWith(p)
        BY <1>2, <3>4, <4>1 DEF GoneWith, Forgotten
      <4>4. request'[p] # Absent /\ request'[p].child = d
        BY <1>1, <3>3, <4>1, <4>3 DEF Answered, Dispatched, Settled, Anew
      <4> QED BY <2>1, <3>2, <4>2, <4>4 DEF Says
    <3> QED BY <2>1, <3>1, <3>4
  <2>2. ASSUME NEW p \in Jobs, Active(p), UNCHANGED <<job, request, run>>,
               worker'[k].parent = p, worker'[k].verdict = Verdict(p)
        PROVE  request'[p] # Absent /\ Says(worker[k].verdict, request[p].child)'
    <3>1. Says(Verdict(p), request[p].child)
      BY VerdictSays
    <3> QED BY <2>2, <3>1, ActiveIsThere DEF Says
  <2> QED BY <2>1, <2>2, VerdictsWait
<1>8. (\A p \in Jobs : request[p].status \in Verdicts =>
         Forgotten(p) \/ Says(request[p].status, request[p].child))'
  <2> SUFFICES ASSUME NEW p \in Jobs, request'[p].status \in Verdicts, ~ Forgotten(p)'
               PROVE  Says(request[p].status, request[p].child)'
    OBVIOUS
  <2>1. PICK d : d = request[p].child
    OBVIOUS
  <2>2. PICK v : v = request'[p].status
    OBVIOUS
  <2>3. request'[p] # Absent
    BY ReprocessingAssumption DEF Absent
  <2>4. ~ Dispatched(p) /\ ~ GoneWith(p) /\ ~ Anew(p)
    BY <2>3 DEF Dispatched, GoneWith, Anew
  <2>5. ~ Forgotten(p)
    BY ForgottenStays
  <2>6. request[p] # Absent /\ request'[p].child = d /\ Says(v, d)
    <3>1. CASE request'[p] = request[p]
      BY <2>1, <2>2, <2>3, <2>5, <3>1 DEF Truthful
    <3>2. CASE Settled(p)
      <4>1. PICK k \in Reconcilers :
              /\ worker[k].at = "writing" /\ worker[k].parent = p /\ request[p] # Absent
              /\ request'[p].child = request[p].child
              /\ request'[p].status = worker[k].verdict
        BY <3>2 DEF Settled
      <4>2. job[p].status # "gone"
        BY <4>1 DEF Truthful
      <4>3. Says(worker[k].verdict, request[p].child)
        BY <2>5, <4>1, <4>2 DEF Truthful
      <4> QED BY <2>1, <2>2, <4>1, <4>3
    <3> QED BY <1>1, <2>4, <3>1, <3>2 DEF Answered
  <2>7. Says(v, d)'
    BY <1>3, <2>1, <2>6
  <2> QED BY <2>2, <2>6, <2>7 DEF Says
<1> QED BY <1>5, <1>6, <1>7, <1>8 DEF Truthful

\* repository.py:530-550, reprocessing.py:62-76: a request is settled by what became
\* of its replacement, however many replicas settle it from what they read before,
\* and whatever retention does meanwhile, unless it forgets a replacement before
\* its parent.
THEOREM ResolutionIsTrueHolds == Spec => []ResolutionIsTrue
<1>1. Init => Truthful
  <2> SUFFICES ASSUME Init PROVE Truthful
    OBVIOUS
  <2>1. /\ \A p \in Jobs : request[p] = Absent /\ job[p].status # "gone"
        /\ \A k \in Reconcilers : worker[k].at = "idle"
    BY DEF Init, ReprocessingInit, Resting
  <2>2. \A p \in Jobs : request[p].status \notin Verdicts
    <3>1. Absent.status = None
      BY DEF Absent
    <3>2. None \notin Verdicts
      BY ReprocessingAssumption
    <3> QED BY <2>1, <3>1, <3>2
  <2>3. \A p \in Jobs : request[p].status \in Verdicts =>
           Forgotten(p) \/ Says(request[p].status, request[p].child)
    BY <2>2
  <2>4. \A k \in Reconcilers : worker[k].at # "writing"
    BY <2>1
  <2> HIDE DEF Verdicts
  <2> QED BY <2>1, <2>3, <2>4 DEF Truthful
<1>2. Truthful => ResolutionIsTrue
  BY DEF Truthful, ResolutionIsTrue, Says
<1> QED
  BY <1>1, <1>2, TruthfulStep, ShapeInvariant, TypesInvariant, UnheldInvariant, PTL DEF Spec
=============================================================================
