----------------------- MODULE DocumentPipelineProofs -----------------------
(***************************************************************************)
(* Theorems of DocumentPipeline, for documents of any number of pages.      *)
(***************************************************************************)
EXTENDS DocumentPipeline, FiniteSetTheorems, TLAPS

-----------------------------------------------------------------------------
(* The inductive invariant                                                  *)

\* How far the pages are, and which one failed: one page at a time, or the
\* whole document (page 0) in a history from before the pages.
Progress ==
    /\ at = "preprocess" => page = 0 /\ read = {} /\ laid = {}
    /\ at = "ocr" => (IF Paged THEN page \in Pages ELSE page = 0) /\ read = 1 .. (page - 1) /\ laid = read
    /\ at = "layout" /\ Paged => page \in Pages /\ read = 1 .. page /\ laid = 1 .. (page - 1)
    /\ "exception" \in sent =>
         /\ at \in {"record", "evaluate", "stuck", "closed"}
         /\ read = 1 .. (page - 1) /\ laid = read
         /\ page > 0 <=> Paged
    /\ exception # {} => "exception" \in sent /\ exception = {page}
    /\ outcome = "ocr_exception" => exception # {}

\* No verdict before its stage, and no delivery requested without its verdict.
Approval ==
    /\ at \in (Stages \ {"open_review", "polling", "revalidate"}) \cup {"record"} =>
         valid.first = "none" /\ valid.again = "none"
    /\ at \in {"open_review", "review", "polling", "revalidate"} =>
         valid.first = "needs_review" /\ valid.again = "none"
    /\ at = "revalidate" => decision = "approved"
    /\ valid.again = "passed" => valid.first = "needs_review" /\ decision = "approved"
    /\ at \in Delivery => valid.first = "passed" \/ valid.again = "passed"
    /\ "extracted" \in sent => valid.first = "passed"
    /\ "corrected" \in sent => valid.again = "passed"
    /\ at \in Stages \cup {"review"} \cup Delivery => outcome = "failed"
    /\ outcome \in Withheld \cup {"ocr_exception"} => valid.first # "passed" /\ valid.again # "passed"
    /\ envelope[Job] # "none" => envelope[Job] \in sent

\* A deadline is reset only while there is no outcome.
Honest ==
    /\ at \in Stages \cup {"review"} \cup Delivery => outcome = "failed"
    /\ outcome = "delivered" => status[Job] = "success"
    /\ "document.completed" \in events => status[Job] = "success"
    /\ outcome = "review_timed_out" => expired
    /\ (outcome = "delivery_timed_out" /\ DurableWait) => expired

\* Nothing is announced before the end, and then what the run ends with.
Announcing ==
    /\ at \notin {"announce", "evaluate", "stuck", "closed"} => outcome = "failed"
    /\ at \in Stages \cup {"review", "record"} \cup Delivery => events = {}
    /\ at = "announce" => outcome \notin {"failed", "ocr_exception"}
    /\ at = "announce_failure" => events = {"failed"}
    /\ at \in Endings \ {"record"} =>
         IF outcome \in {"failed", "ocr_exception"} THEN events \subseteq {"failed"}
         ELSE events = {EventOf(outcome)}

\* What the status query shows in each place.
Showing ==
    /\ at \in (Stages \ {"polling", "revalidate"}) \cup {"record"} => shown = "processing"
    /\ at \in {"review", "polling", "revalidate"} => shown = "pending_human_review"
    /\ at \in Delivery \cup {"announce_failure"} => shown \in {"processing"} \cup Waits
    /\ at \in {"announce", "evaluate", "stuck", "closed"} =>
         shown = outcome \/ (outcome = "failed" /\ shown \in {"processing"} \cup Waits)
    /\ at \in Stages \cup {"review", "record", "announce_failure"} \cup Delivery => outcome = "failed"

PipelineInv == TypeOK /\ Progress /\ Approval /\ Honest /\ Announcing /\ Showing

-----------------------------------------------------------------------------
(* Types *)

\* What the delivery ledger does keeps its types.
LEMMA LedgerType ==
    ASSUME TypeOK,
           \/ \E f \in Fields : Ledger!Accept(f)
           \/ \E d \in {"object_storage", "receipt"} : Ledger!Receive(Job, d)
           \/ Ledger!Succeed(Job) \/ Ledger!GiveUp(Job) \/ Ledger!Redrive(Job)
    PROVE  /\ status' \in [{Job} -> {"absent", "pending", "dead_letter", "success"}]
           /\ envelope' \in [{Job} -> Fields \cup {"none"}]
           /\ received' \in [{Job} -> SUBSET {"object_storage", "receipt"}]
<1> USE DEF TypeOK
<1>1. CASE \E f \in Fields : Ledger!Accept(f)
  BY <1>1 DEF Ledger!Accept
<1>2. CASE \E d \in {"object_storage", "receipt"} : Ledger!Receive(Job, d)
  BY <1>2 DEF Ledger!Receive
<1>3. CASE Ledger!Succeed(Job) \/ Ledger!GiveUp(Job) \/ Ledger!Redrive(Job)
  BY <1>3 DEF Ledger!Succeed, Ledger!GiveUp, Ledger!Redrive, Ledger!Move
<1> QED BY <1>1, <1>2, <1>3

\* Types are kept by a run that ends,
LEMMA FinishType ==
    ASSUME TypeOK, NEW o \in Outcomes, Finish(o), UNCHANGED <<console, ledger>>
    PROVE  TypeOK'
<1>1. "announce" \in Endings /\ EventOf(o) \in {"document.completed"} \cup Outcomes
  BY DEF Endings, EventOf
<1> QED
  BY <1>1 DEF TypeOK, Finish, console, ledger

\* by one that fails,
LEMMA FailType ==
    ASSUME TypeOK, NEW c \in {"none", "typed", "network", "malformed", "other"}, Fail(c),
           UNCHANGED <<console, ledger>>
    PROVE  TypeOK'
<1>1. "announce_failure" \in Endings /\ "failed" \in Outcomes
  BY DEF Endings, Outcomes
<1> QED
  BY <1>1 DEF TypeOK, Fail, console, ledger

\* and by one that waits for its delivery.
LEMMA WaitType ==
    ASSUME TypeOK, NEW w \in Waits, NEW k \in BOOLEAN, WaitDelivery(w, k),
           UNCHANGED <<console, ledger>>
    PROVE  TypeOK'
<1>1. "delivery" \in Delivery
  BY DEF Delivery
<1> QED
  BY <1>1 DEF TypeOK, WaitDelivery, console, ledger, history

\* Types hold at first.
LEMMA InitType == Init => TypeOK
<1> SUFFICES ASSUME Init PROVE TypeOK
  OBVIOUS
<1>1. Ledger!Init
  BY DEF Init
<1>2. /\ status \in [{Job} -> {"absent", "pending", "dead_letter", "success"}]
      /\ envelope \in [{Job} -> Fields \cup {"none"}]
      /\ received \in [{Job} -> SUBSET {"object_storage", "receipt"}]
  BY <1>1 DEF Ledger!Init
<1>3. /\ markers \subseteq Patches /\ at \in Stages /\ page \in 0 .. PageCount
      /\ read \subseteq Pages /\ laid \subseteq Pages
      /\ sent \subseteq Fields \cup {"task", "exception"} /\ exception \subseteq 0 .. PageCount
  BY PipelineAssumption DEF Init, Stages
<1>4. /\ valid \in [first : {"none", "passed", "needs_review"}, again : {"none", "passed", "needs_review"}]
      /\ outcome \in Outcomes /\ events \subseteq {"document.completed"} \cup Outcomes
  BY DEF Init, Outcomes
<1> QED BY <1>2, <1>3, <1>4 DEF Init, TypeOK

\* Every step keeps the types.
LEMMA TypeStep == TypeOK /\ Progress /\ [Next]_vars => TypeOK'
<1> SUFFICES ASSUME TypeOK, Progress, [Next]_vars PROVE TypeOK'
  OBVIOUS
<1>a. /\ {"failed", "delivered", "delivery_timed_out", "ocr_exception"} \subseteq Outcomes
      /\ {"rejected", "review_validation_failed", "review_timed_out"} \subseteq Outcomes
      /\ {"pending_human_review", "pending_delivery", "delivery_exception"} \subseteq Waits
      /\ Fields = {"extracted", "corrected"}
  BY DEF Outcomes, Withheld, Waits, Fields
<1> USE PipelineAssumption, <1>a DEF TypeOK, GoTo, run, history, console, ledger, Stages, Delivery, Endings
<1>1. CASE Preprocess
  BY <1>1 DEF Preprocess, Paged
<1>2. CASE Ocr
  <2>1. Current \subseteq Pages
    BY <1>2 DEF Current, Ocr, Progress
  <2> QED BY <1>2, <2>1 DEF Ocr
<1>3. CASE Layout
  <2>1. Current \subseteq Pages
    BY <1>3 DEF Current, Layout, Progress
  <2>2. page' \in 0 .. PageCount
    BY <1>3 DEF Layout
  <2> QED BY <1>3, <2>1, <2>2 DEF Layout
<1>4. CASE Aggregate
  BY <1>4 DEF Aggregate
<1>5. CASE Classify
  BY <1>5 DEF Classify
<1>6. CASE Extract
  BY <1>6 DEF Extract
<1>7. CASE Validate
  <2>1. /\ valid' \in [first : {"none", "passed", "needs_review"}, again : {"none", "passed", "needs_review"}]
        /\ sent' \subseteq Fields \cup {"task", "exception"}
    BY <1>7 DEF Validate, StartDelivery
  <2>2. at' \in {"delivery", "submitting", "open_review"} /\ known' \in BOOLEAN /\ expired' \in BOOLEAN
    BY <1>7 DEF Validate, StartDelivery
  <2> QED BY <1>7, <2>1, <2>2 DEF Validate
<1>8. CASE StageFails
  <2>1. CASE \E c \in {"typed", "network", "malformed", "other"} : Fail(c)
    BY <1>8, <2>1, FailType DEF StageFails
  <2>2. CASE \E c \in {"typed", "network"} : RecordException(c)
    BY <1>8, <2>2 DEF StageFails, RecordException
  <2> QED BY <1>8, <2>1, <2>2 DEF StageFails
<1>9. CASE ReviewUnnamed
  BY <1>9 DEF ReviewUnnamed
<1>10. CASE ReviewOpened
  BY <1>10 DEF ReviewOpened
<1>11. CASE PollReview
  BY <1>11 DEF PollReview
<1>12. CASE ReviewPending
  BY <1>12 DEF ReviewPending
<1>13. CASE ReviewDecided
  <2>1. CASE Finish("rejected")
    BY <1>13, <2>1, FinishType DEF ReviewDecided
  <2>2. CASE GoTo("revalidate") /\ UNCHANGED history
    BY <1>13, <2>2 DEF ReviewDecided
  <2> QED BY <1>13, <2>1, <2>2 DEF ReviewDecided
<1>14. CASE ReviewTimesOut
  BY <1>14, FinishType DEF ReviewTimesOut
<1>15. CASE Revalidate
  <2>1. /\ valid' \in [first : {"none", "passed", "needs_review"}, again : {"none", "passed", "needs_review"}]
        /\ sent' \subseteq Fields \cup {"task", "exception"}
    BY <1>15 DEF Revalidate, StartDelivery
  <2>2. at' \in {"delivery", "submitting", "announce"} /\ known' \in BOOLEAN /\ expired' \in BOOLEAN
    BY <1>15 DEF Revalidate, StartDelivery
  <2>3. /\ shown' \in {"processing"} \cup Waits \cup Outcomes /\ outcome' \in Outcomes
        /\ events' \subseteq {"document.completed"} \cup Outcomes
    BY <1>15 DEF Revalidate
  <2> QED BY <1>15, <2>1, <2>2, <2>3 DEF Revalidate
<1>16. CASE DeliveryTimesOut
  BY <1>16, FinishType DEF DeliveryTimesOut
<1>17. CASE Submit
  BY <1>17 DEF Submit, Delivered
<1>18. CASE PollDelivery
  BY <1>18 DEF PollDelivery
<1>19. CASE Answered
  <2>1. CASE \E o \in Outcomes : Finish(o)
    BY <1>19, <2>1, FinishType DEF Answered
  <2>2. CASE \E w \in Waits, k \in BOOLEAN : WaitDelivery(w, k)
    BY <1>19, <2>2, WaitType DEF Answered
  <2> QED BY <1>19, <2>1, <2>2 DEF Answered
<1>20. CASE Unanswered
  <2>1. CASE Fail("other")
    BY <1>20, <2>1, FailType DEF Unanswered
  <2>2. CASE \E w \in Waits, k \in BOOLEAN : WaitDelivery(w, k)
    BY <1>20, <2>2, WaitType DEF Unanswered
  <2> QED BY <1>20, <2>1, <2>2 DEF Unanswered
<1>21. CASE DeliveryRefused
  BY <1>21, FailType DEF DeliveryRefused
<1>22. CASE Announced
  BY <1>22 DEF Announced
<1>23. CASE Recorded
  BY <1>23 DEF Recorded
<1>24. CASE RecordFails
  BY <1>24 DEF RecordFails
<1>25. CASE Evaluate
  BY <1>25 DEF Evaluate
<1>26. CASE ExecutionTimeout
  BY <1>26 DEF ExecutionTimeout
<1>27. CASE Expire
  BY <1>27 DEF Expire
<1>28. CASE LandTask
  BY <1>28 DEF LandTask
<1>29. CASE LandException
  BY <1>29 DEF LandException
<1>30. CASE LandDelivery
  <2>1. \E f \in Fields : Ledger!Accept(f)
    BY <1>30 DEF LandDelivery
  <2> QED BY <1>30, <2>1, LedgerType DEF LandDelivery
<1>31. CASE Decide
  BY <1>31 DEF Decide
<1>32. CASE LedgerStep
  BY <1>32, LedgerType DEF LedgerStep
<1>33. CASE UNCHANGED vars
  BY <1>33 DEF vars
<1> QED
  BY <1>1, <1>2, <1>3, <1>4, <1>5, <1>6, <1>7, <1>8, <1>9, <1>10, <1>11, <1>12, <1>13, <1>14, <1>15, <1>16, <1>17, <1>18, <1>19, <1>20, <1>21, <1>22, <1>23, <1>24, <1>25, <1>26, <1>27, <1>28, <1>29, <1>30, <1>31, <1>32, <1>33 DEF Next, WorkflowStep

-----------------------------------------------------------------------------
(* Progress: where the pages are *)

\* It holds at first.
LEMMA ProgressInit == Init => Progress
BY PipelineAssumption DEF Init, Ledger!Init, Progress, Pages, Paged, Delivery, Endings

\* Every step keeps what the invariant says of where the pages are.
LEMMA ProgressStep == TypeOK /\ Progress /\ [Next]_vars => Progress'
<1> SUFFICES ASSUME TypeOK, Progress, [Next]_vars PROVE Progress'
  OBVIOUS
<1> USE PipelineAssumption DEF Progress, GoTo, run, history, console, ledger, Pages, Paged, Delivery, Endings
<1>t. page \in 0 .. PageCount
  BY DEF TypeOK
<1>1. CASE Preprocess
  <2>1. 1 .. (1 - 1) = {} /\ 1 .. (0 - 1) = {}
    OBVIOUS
  <2> QED BY <1>1, <2>1, <1>t DEF Preprocess
<1>2. CASE Ocr
  BY <1>2, <1>t DEF Ocr, Current
<1>3. CASE Layout
  BY <1>3, <1>t DEF Layout, Current
<1>4. CASE Aggregate
  BY <1>4, <1>t DEF Aggregate
<1>5. CASE Classify
  BY <1>5, <1>t DEF Classify
<1>6. CASE Extract
  BY <1>6, <1>t DEF Extract
<1>7. CASE Validate
  BY <1>7, <1>t DEF Validate, StartDelivery, DurableWait
<1>8. CASE StageFails
  <2>1. CASE \E c : Fail(c)
    BY <1>8, <2>1, <1>t DEF StageFails, Fail, Stages
  <2>2. CASE \E c : RecordException(c) /\ at = "ocr"
    BY <1>8, <2>2, <1>t DEF StageFails, RecordException
  <2> QED BY <1>8, <2>1, <2>2 DEF StageFails
<1>9. CASE ReviewUnnamed
  BY <1>9, <1>t DEF ReviewUnnamed
<1>10. CASE ReviewOpened
  BY <1>10, <1>t DEF ReviewOpened
<1>11. CASE PollReview
  BY <1>11, <1>t DEF PollReview
<1>12. CASE ReviewPending
  BY <1>12, <1>t DEF ReviewPending
<1>13. CASE ReviewDecided
  BY <1>13, <1>t DEF ReviewDecided, Finish
<1>14. CASE ReviewTimesOut
  BY <1>14, <1>t DEF ReviewTimesOut, Finish
<1>15. CASE Revalidate
  BY <1>15, <1>t DEF Revalidate, StartDelivery, DurableWait
<1>16. CASE DeliveryTimesOut
  BY <1>16, <1>t DEF DeliveryTimesOut, Finish
<1>17. CASE Submit
  BY <1>17, <1>t DEF Submit, Delivered
<1>18. CASE PollDelivery
  BY <1>18, <1>t DEF PollDelivery
<1>19. CASE Answered
  BY <1>19, <1>t DEF Answered, WaitDelivery, Finish, Waits, DurableWait
<1>20. CASE Unanswered
  BY <1>20, <1>t DEF Unanswered, WaitDelivery, Fail, Waits, DurableWait
<1>21. CASE DeliveryRefused
  BY <1>21, <1>t DEF DeliveryRefused, Fail
<1>22. CASE Announced
  BY <1>22, <1>t DEF Announced
<1>23. CASE Recorded
  BY <1>23, <1>t DEF Recorded
<1>24. CASE RecordFails
  BY <1>24, <1>t DEF RecordFails
<1>25. CASE Evaluate
  BY <1>25, <1>t DEF Evaluate
<1>26. CASE ExecutionTimeout
  BY <1>26, <1>t DEF ExecutionTimeout
<1>27. CASE Expire
  BY <1>27, <1>t DEF Expire
<1>28. CASE LandTask
  BY <1>28, <1>t DEF LandTask
<1>29. CASE LandException
  BY <1>29, <1>t DEF LandException
<1>30. CASE LandDelivery
  BY <1>30, <1>t DEF LandDelivery, Ledger!Accept, TypeOK
<1>31. CASE Decide
  BY <1>31, <1>t DEF Decide
<1>32. CASE LedgerStep
  BY <1>32, <1>t DEF LedgerStep, Ledger!Receive, Ledger!Move, Ledger!Succeed, Ledger!GiveUp, Ledger!Redrive, TypeOK
<1>33. CASE UNCHANGED vars
  BY <1>33 DEF vars
<1> QED
  BY <1>1, <1>2, <1>3, <1>4, <1>5, <1>6, <1>7, <1>8, <1>9, <1>10, <1>11, <1>12, <1>13, <1>14, <1>15, <1>16, <1>17, <1>18, <1>19, <1>20, <1>21, <1>22, <1>23, <1>24, <1>25, <1>26, <1>27, <1>28, <1>29, <1>30, <1>31, <1>32, <1>33 DEF Next, WorkflowStep

-----------------------------------------------------------------------------
(* Approval: what was approved *)

\* It holds at first.
LEMMA ApprovalInit == Init => Approval
BY PipelineAssumption DEF Init, Ledger!Init, Approval, Stages, Delivery, Endings, Withheld, Fields

\* Every step keeps what the invariant says of what was approved.
LEMMA ApprovalStep == TypeOK /\ Approval /\ [Next]_vars => Approval'
<1> SUFFICES ASSUME TypeOK, Approval, [Next]_vars PROVE Approval'
  OBVIOUS
<1> USE PipelineAssumption DEF Approval, GoTo, run, history, console, ledger, Stages, Delivery, Endings, Withheld, Fields
<1>t. valid \in [first : {"none", "passed", "needs_review"}, again : {"none", "passed", "needs_review"}]
  BY DEF TypeOK
<1>1. CASE Preprocess
  BY <1>1, <1>t DEF Preprocess, Paged
<1>2. CASE Ocr
  BY <1>2, <1>t DEF Ocr, Current, Paged
<1>3. CASE Layout
  BY <1>3, <1>t DEF Layout, Current, Paged
<1>4. CASE Aggregate
  BY <1>4, <1>t DEF Aggregate
<1>5. CASE Classify
  BY <1>5, <1>t DEF Classify
<1>6. CASE Extract
  BY <1>6, <1>t DEF Extract
<1>7. CASE Validate
  BY <1>7, <1>t DEF Validate, StartDelivery, DurableWait
<1>8. CASE StageFails
  BY <1>8, <1>t DEF StageFails, Fail, RecordException, IsOcrFailure, Paged
<1>9. CASE ReviewUnnamed
  BY <1>9, <1>t DEF ReviewUnnamed
<1>10. CASE ReviewOpened
  BY <1>10, <1>t DEF ReviewOpened
<1>11. CASE PollReview
  BY <1>11, <1>t DEF PollReview
<1>12. CASE ReviewPending
  BY <1>12, <1>t DEF ReviewPending
<1>13. CASE ReviewDecided
  BY <1>13, <1>t DEF ReviewDecided, Finish
<1>14. CASE ReviewTimesOut
  BY <1>14, <1>t DEF ReviewTimesOut, Finish
<1>15. CASE Revalidate
  BY <1>15, <1>t DEF Revalidate, StartDelivery, DurableWait
<1>16. CASE DeliveryTimesOut
  BY <1>16, <1>t DEF DeliveryTimesOut, Finish
<1>17. CASE Submit
  BY <1>17, <1>t DEF Submit, Delivered
<1>18. CASE PollDelivery
  BY <1>18, <1>t DEF PollDelivery
<1>19. CASE Answered
  BY <1>19, <1>t DEF Answered, WaitDelivery, Finish, Waits, DurableWait
<1>20. CASE Unanswered
  BY <1>20, <1>t DEF Unanswered, WaitDelivery, Fail, Waits, DurableWait
<1>21. CASE DeliveryRefused
  BY <1>21, <1>t DEF DeliveryRefused, Fail
<1>22. CASE Announced
  BY <1>22, <1>t DEF Announced
<1>23. CASE Recorded
  BY <1>23, <1>t DEF Recorded
<1>24. CASE RecordFails
  BY <1>24, <1>t DEF RecordFails
<1>25. CASE Evaluate
  BY <1>25, <1>t DEF Evaluate
<1>26. CASE ExecutionTimeout
  BY <1>26, <1>t DEF ExecutionTimeout
<1>27. CASE Expire
  BY <1>27, <1>t DEF Expire
<1>28. CASE LandTask
  BY <1>28, <1>t DEF LandTask
<1>29. CASE LandException
  BY <1>29, <1>t DEF LandException
<1>30. CASE LandDelivery
  BY <1>30, <1>t DEF LandDelivery, Ledger!Accept, TypeOK
<1>31. CASE Decide
  BY <1>31, <1>t DEF Decide
<1>32. CASE LedgerStep
  BY <1>32, <1>t DEF LedgerStep, Ledger!Receive, Ledger!Move, Ledger!Succeed, Ledger!GiveUp, Ledger!Redrive, TypeOK
<1>33. CASE UNCHANGED vars
  BY <1>33 DEF vars
<1> QED
  BY <1>1, <1>2, <1>3, <1>4, <1>5, <1>6, <1>7, <1>8, <1>9, <1>10, <1>11, <1>12, <1>13, <1>14, <1>15, <1>16, <1>17, <1>18, <1>19, <1>20, <1>21, <1>22, <1>23, <1>24, <1>25, <1>26, <1>27, <1>28, <1>29, <1>30, <1>31, <1>32, <1>33 DEF Next, WorkflowStep

-----------------------------------------------------------------------------
(* Honest: what was delivered and timed out *)

\* It holds at first.
LEMMA HonestInit == Init => Honest
BY PipelineAssumption DEF Init, Ledger!Init, Honest, Stages, Delivery, DurableWait, EventOf

\* Every step keeps what the invariant says of what was delivered and timed out.
LEMMA HonestStep == TypeOK /\ Honest /\ [Next]_vars => Honest'
<1> SUFFICES ASSUME TypeOK, Honest, [Next]_vars PROVE Honest'
  OBVIOUS
<1> USE PipelineAssumption DEF Honest, GoTo, run, history, console, ledger, Stages, Delivery, DurableWait, EventOf
<1>1. CASE Preprocess
  BY <1>1 DEF Preprocess, Paged
<1>2. CASE Ocr
  BY <1>2 DEF Ocr, Current, Paged
<1>3. CASE Layout
  BY <1>3 DEF Layout, Current, Paged
<1>4. CASE Aggregate
  BY <1>4 DEF Aggregate
<1>5. CASE Classify
  BY <1>5 DEF Classify
<1>6. CASE Extract
  BY <1>6 DEF Extract
<1>7. CASE Validate
  BY <1>7 DEF Validate, StartDelivery
<1>8. CASE StageFails
  BY <1>8 DEF StageFails, Fail, RecordException, IsOcrFailure, Paged
<1>9. CASE ReviewUnnamed
  BY <1>9 DEF ReviewUnnamed
<1>10. CASE ReviewOpened
  BY <1>10 DEF ReviewOpened
<1>11. CASE PollReview
  BY <1>11 DEF PollReview
<1>12. CASE ReviewPending
  BY <1>12 DEF ReviewPending
<1>13. CASE ReviewDecided
  BY <1>13 DEF ReviewDecided, Finish
<1>14. CASE ReviewTimesOut
  BY <1>14 DEF ReviewTimesOut, Finish
<1>15. CASE Revalidate
  BY <1>15 DEF Revalidate, StartDelivery
<1>16. CASE DeliveryTimesOut
  BY <1>16 DEF DeliveryTimesOut, Finish
<1>17. CASE Submit
  BY <1>17 DEF Submit, Delivered
<1>18. CASE PollDelivery
  BY <1>18 DEF PollDelivery
<1>19. CASE Answered
  BY <1>19 DEF Answered, WaitDelivery, Finish, Waits
<1>20. CASE Unanswered
  BY <1>20 DEF Unanswered, WaitDelivery, Fail, Waits
<1>21. CASE DeliveryRefused
  BY <1>21 DEF DeliveryRefused, Fail
<1>22. CASE Announced
  BY <1>22 DEF Announced
<1>23. CASE Recorded
  BY <1>23 DEF Recorded
<1>24. CASE RecordFails
  BY <1>24 DEF RecordFails
<1>25. CASE Evaluate
  BY <1>25 DEF Evaluate
<1>26. CASE ExecutionTimeout
  BY <1>26 DEF ExecutionTimeout
<1>27. CASE Expire
  BY <1>27 DEF Expire
<1>28. CASE LandTask
  BY <1>28 DEF LandTask
<1>29. CASE LandException
  BY <1>29 DEF LandException
<1>30. CASE LandDelivery
  BY <1>30 DEF LandDelivery, Ledger!Accept, TypeOK
<1>31. CASE Decide
  BY <1>31 DEF Decide
<1>32. CASE LedgerStep
  BY <1>32 DEF LedgerStep, Ledger!Receive, Ledger!Move, Ledger!Succeed, Ledger!GiveUp, Ledger!Redrive, TypeOK
<1>33. CASE UNCHANGED vars
  BY <1>33 DEF vars
<1> QED
  BY <1>1, <1>2, <1>3, <1>4, <1>5, <1>6, <1>7, <1>8, <1>9, <1>10, <1>11, <1>12, <1>13, <1>14, <1>15, <1>16, <1>17, <1>18, <1>19, <1>20, <1>21, <1>22, <1>23, <1>24, <1>25, <1>26, <1>27, <1>28, <1>29, <1>30, <1>31, <1>32, <1>33 DEF Next, WorkflowStep

-----------------------------------------------------------------------------
(* Announcing: what was announced *)

\* It holds at first.
LEMMA AnnouncingInit == Init => Announcing
BY PipelineAssumption DEF Init, Ledger!Init, Announcing, Stages, Delivery, Endings, EventOf, Withheld

\* Every step keeps what the invariant says of what was announced.
LEMMA AnnouncingStep == TypeOK /\ Announcing /\ [Next]_vars => Announcing'
<1> SUFFICES ASSUME TypeOK, Announcing, [Next]_vars PROVE Announcing'
  OBVIOUS
<1> USE PipelineAssumption DEF Announcing, GoTo, run, history, console, ledger, Stages, Delivery, Endings, EventOf, Withheld
<1>1. CASE Preprocess
  BY <1>1 DEF Preprocess, Paged
<1>2. CASE Ocr
  BY <1>2 DEF Ocr, Current, Paged
<1>3. CASE Layout
  BY <1>3 DEF Layout, Current, Paged
<1>4. CASE Aggregate
  BY <1>4 DEF Aggregate
<1>5. CASE Classify
  BY <1>5 DEF Classify
<1>6. CASE Extract
  BY <1>6 DEF Extract
<1>7. CASE Validate
  BY <1>7 DEF Validate, StartDelivery, DurableWait
<1>8. CASE StageFails
  BY <1>8 DEF StageFails, Fail, RecordException, IsOcrFailure, Paged
<1>9. CASE ReviewUnnamed
  BY <1>9 DEF ReviewUnnamed
<1>10. CASE ReviewOpened
  BY <1>10 DEF ReviewOpened
<1>11. CASE PollReview
  BY <1>11 DEF PollReview
<1>12. CASE ReviewPending
  BY <1>12 DEF ReviewPending
<1>13. CASE ReviewDecided
  BY <1>13 DEF ReviewDecided, Finish
<1>14. CASE ReviewTimesOut
  BY <1>14 DEF ReviewTimesOut, Finish
<1>15. CASE Revalidate
  BY <1>15 DEF Revalidate, StartDelivery, DurableWait
<1>16. CASE DeliveryTimesOut
  BY <1>16 DEF DeliveryTimesOut, Finish
<1>17. CASE Submit
  BY <1>17 DEF Submit, Delivered
<1>18. CASE PollDelivery
  BY <1>18 DEF PollDelivery
<1>19. CASE Answered
  BY <1>19 DEF Answered, WaitDelivery, Finish, Waits, DurableWait
<1>20. CASE Unanswered
  BY <1>20 DEF Unanswered, WaitDelivery, Fail, Waits, DurableWait
<1>21. CASE DeliveryRefused
  BY <1>21 DEF DeliveryRefused, Fail
<1>22. CASE Announced
  BY <1>22 DEF Announced
<1>23. CASE Recorded
  BY <1>23 DEF Recorded
<1>24. CASE RecordFails
  BY <1>24 DEF RecordFails
<1>25. CASE Evaluate
  BY <1>25 DEF Evaluate
<1>26. CASE ExecutionTimeout
  BY <1>26 DEF ExecutionTimeout
<1>27. CASE Expire
  BY <1>27 DEF Expire
<1>28. CASE LandTask
  BY <1>28 DEF LandTask
<1>29. CASE LandException
  BY <1>29 DEF LandException
<1>30. CASE LandDelivery
  BY <1>30 DEF LandDelivery, Ledger!Accept, TypeOK
<1>31. CASE Decide
  BY <1>31 DEF Decide
<1>32. CASE LedgerStep
  BY <1>32 DEF LedgerStep, Ledger!Receive, Ledger!Move, Ledger!Succeed, Ledger!GiveUp, Ledger!Redrive, TypeOK
<1>33. CASE UNCHANGED vars
  BY <1>33 DEF vars
<1> QED
  BY <1>1, <1>2, <1>3, <1>4, <1>5, <1>6, <1>7, <1>8, <1>9, <1>10, <1>11, <1>12, <1>13, <1>14, <1>15, <1>16, <1>17, <1>18, <1>19, <1>20, <1>21, <1>22, <1>23, <1>24, <1>25, <1>26, <1>27, <1>28, <1>29, <1>30, <1>31, <1>32, <1>33 DEF Next, WorkflowStep

-----------------------------------------------------------------------------
(* Showing: what is shown *)

\* It holds at first.
LEMMA ShowingInit == Init => Showing
BY PipelineAssumption DEF Init, Ledger!Init, Showing, Stages, Delivery, Waits

\* Every step keeps what the invariant says of what is shown.
LEMMA ShowingStep == TypeOK /\ Showing /\ [Next]_vars => Showing'
<1> SUFFICES ASSUME TypeOK, Showing, [Next]_vars PROVE Showing'
  OBVIOUS
<1> USE PipelineAssumption DEF Showing, GoTo, run, history, console, ledger, Stages, Delivery, Waits
<1>1. CASE Preprocess
  BY <1>1 DEF Preprocess, Paged
<1>2. CASE Ocr
  BY <1>2 DEF Ocr, Current, Paged
<1>3. CASE Layout
  BY <1>3 DEF Layout, Current, Paged
<1>4. CASE Aggregate
  BY <1>4 DEF Aggregate
<1>5. CASE Classify
  BY <1>5 DEF Classify
<1>6. CASE Extract
  BY <1>6 DEF Extract
<1>7. CASE Validate
  BY <1>7 DEF Validate, StartDelivery, DurableWait
<1>8. CASE StageFails
  BY <1>8 DEF StageFails, Fail, RecordException, IsOcrFailure, Paged
<1>9. CASE ReviewUnnamed
  BY <1>9 DEF ReviewUnnamed
<1>10. CASE ReviewOpened
  BY <1>10 DEF ReviewOpened
<1>11. CASE PollReview
  BY <1>11 DEF PollReview
<1>12. CASE ReviewPending
  BY <1>12 DEF ReviewPending
<1>13. CASE ReviewDecided
  BY <1>13 DEF ReviewDecided, Finish
<1>14. CASE ReviewTimesOut
  BY <1>14 DEF ReviewTimesOut, Finish
<1>15. CASE Revalidate
  BY <1>15 DEF Revalidate, StartDelivery, DurableWait
<1>16. CASE DeliveryTimesOut
  BY <1>16 DEF DeliveryTimesOut, Finish
<1>17. CASE Submit
  BY <1>17 DEF Submit, Delivered
<1>18. CASE PollDelivery
  BY <1>18 DEF PollDelivery
<1>19. CASE Answered
  BY <1>19 DEF Answered, WaitDelivery, Finish, DurableWait
<1>20. CASE Unanswered
  BY <1>20 DEF Unanswered, WaitDelivery, Fail, DurableWait
<1>21. CASE DeliveryRefused
  BY <1>21 DEF DeliveryRefused, Fail
<1>22. CASE Announced
  BY <1>22 DEF Announced
<1>23. CASE Recorded
  BY <1>23 DEF Recorded
<1>24. CASE RecordFails
  <2>1. at = "record" /\ at' = "evaluate" /\ shown' = shown /\ outcome' = outcome
    BY <1>24 DEF RecordFails
  <2>2. shown = "processing" /\ outcome = "failed"
    BY <2>1
  <2> QED BY <2>1, <2>2
<1>25. CASE Evaluate
  BY <1>25 DEF Evaluate
<1>26. CASE ExecutionTimeout
  BY <1>26 DEF ExecutionTimeout
<1>27. CASE Expire
  BY <1>27 DEF Expire
<1>28. CASE LandTask
  BY <1>28 DEF LandTask
<1>29. CASE LandException
  BY <1>29 DEF LandException
<1>30. CASE LandDelivery
  BY <1>30 DEF LandDelivery, Ledger!Accept, TypeOK
<1>31. CASE Decide
  BY <1>31 DEF Decide
<1>32. CASE LedgerStep
  BY <1>32 DEF LedgerStep, Ledger!Receive, Ledger!Move, Ledger!Succeed, Ledger!GiveUp, Ledger!Redrive, TypeOK
<1>33. CASE UNCHANGED vars
  BY <1>33 DEF vars
<1> QED
  BY <1>1, <1>2, <1>3, <1>4, <1>5, <1>6, <1>7, <1>8, <1>9, <1>10, <1>11, <1>12, <1>13, <1>14, <1>15, <1>16, <1>17, <1>18, <1>19, <1>20, <1>21, <1>22, <1>23, <1>24, <1>25, <1>26, <1>27, <1>28, <1>29, <1>30, <1>31, <1>32, <1>33 DEF Next, WorkflowStep

-----------------------------------------------------------------------------
(* The theorems *)

\* The invariant of the pipeline: types, the progress of the pages, what was
\* approved, delivered, announced and shown.
THEOREM PipelineInvariant == Spec => []PipelineInv
<1>1. Init => PipelineInv
  BY InitType, ProgressInit, ApprovalInit, HonestInit, AnnouncingInit, ShowingInit DEF PipelineInv
<1>2. PipelineInv /\ [Next]_vars => PipelineInv'
  BY TypeStep, ProgressStep, ApprovalStep, HonestStep, AnnouncingStep, ShowingStep DEF PipelineInv
<1> QED BY <1>1, <1>2, PTL DEF Spec

\* Types hold for documents of any number of pages.
THEOREM TypeCorrect == Spec => []TypeOK
<1>1. PipelineInv => TypeOK
  BY DEF PipelineInv
<1> QED BY <1>1, PipelineInvariant, PTL

\* Only what validation, or a reviewer and validation, approved ever reaches the
\* delivery ledger: _deliver_until_acknowledged is entered on no other path.
THEOREM NoUnapprovedDeliveryHolds == Spec => []NoUnapprovedDelivery
<1>1. ASSUME PipelineInv PROVE NoUnapprovedDelivery
  <2>1. TypeOK /\ Approval
    BY <1>1 DEF PipelineInv
  <2>2. /\ envelope[Job] = "extracted" => valid.first = "passed"
        /\ envelope[Job] = "corrected" =>
             valid.first = "needs_review" /\ decision = "approved" /\ valid.again = "passed"
    BY <2>1 DEF Approval
  <2>3. ASSUME envelope[Job] # "none" PROVE sent \cap Fields = {envelope[Job]}
    <3>1. envelope[Job] \in {"extracted", "corrected"} /\ envelope[Job] \in sent
      BY <2>1, <2>3 DEF TypeOK, Approval, Fields
    <3>2. ~ ("extracted" \in sent /\ "corrected" \in sent)
      BY <2>1 DEF Approval
    <3> QED BY <3>1, <3>2 DEF Fields
  <2>4. ASSUME outcome \in Withheld \cup {"ocr_exception"} PROVE sent \cap Fields = {}
    BY <2>1, <2>4 DEF Approval, Fields
  <2> QED BY <2>2, <2>3, <2>4 DEF NoUnapprovedDelivery
<1> QED BY <1>1, PipelineInvariant, PTL

\* A document is called delivered only when the ledger says so, and timed out
\* only when its deadline passed.
THEOREM HonestOutcomeHolds == Spec => []HonestOutcome
<1>1. PipelineInv => HonestOutcome
  BY DEF PipelineInv, Honest, HonestOutcome
<1> QED BY <1>1, PipelineInvariant, PTL

\* A run ends as an OCR exception only when record_ocr_exception_activity stored
\* it, with the page that failed.
THEOREM ExceptionIsDurableHolds == Spec => []ExceptionIsDurable
<1>1. PipelineInv => ExceptionIsDurable
  BY DEF PipelineInv, Progress, ExceptionIsDurable
<1> QED BY <1>1, PipelineInvariant, PTL

\* A run announces at most one outcome, the one it ends with.
THEOREM OneAnnouncementHolds == Spec => []OneAnnouncement
<1>1. ASSUME PipelineInv PROVE OneAnnouncement
  <2>1. TypeOK /\ Announcing
    BY <1>1 DEF PipelineInv
  <2>2. events = {} \/ \E x : events = {x}
    <3>1. CASE at \in Stages \cup {"review", "record"} \cup Delivery
      BY <2>1, <3>1 DEF Announcing
    <3>2. CASE at \in Endings \ {"record"}
      BY <2>1, <3>2 DEF Announcing
    <3> QED BY <2>1, <3>1, <3>2 DEF TypeOK
  <2>3. Cardinality(events) \in {0, 1}
    BY <2>2, FS_EmptySet, FS_Singleton, Zenon
  <2>4. Cardinality(events) <= 1
    BY <2>3
  <2> QED BY <2>1, <2>4 DEF Announcing, OneAnnouncement, Endings
<1> QED BY <1>1, PipelineInvariant, PTL

\* What is shown moves forward in every step.
LEMMA ForwardStep ==
    ASSUME TypeOK, Showing, [Next]_vars
    PROVE  Rank(shown) <= Rank(shown') /\ (Rank(shown) = 3 => shown' = shown /\ outcome' = outcome)
<1> USE DEF Showing, Rank, Waits, GoTo, run, history, console, ledger, Stages, Delivery
<1>1. CASE Preprocess
  BY <1>1 DEF Preprocess
<1>2. CASE Ocr
  BY <1>2 DEF Ocr, Current
<1>3. CASE Layout
  BY <1>3 DEF Layout, Current
<1>4. CASE Aggregate
  BY <1>4 DEF Aggregate
<1>5. CASE Classify
  BY <1>5 DEF Classify
<1>6. CASE Extract
  BY <1>6 DEF Extract
<1>7. CASE Validate
  BY <1>7 DEF Validate, StartDelivery
<1>8. CASE StageFails
  BY <1>8 DEF StageFails, Fail, RecordException, IsOcrFailure
<1>9. CASE ReviewUnnamed
  BY <1>9 DEF ReviewUnnamed
<1>10. CASE ReviewOpened
  BY <1>10 DEF ReviewOpened
<1>11. CASE PollReview
  BY <1>11 DEF PollReview
<1>12. CASE ReviewPending
  BY <1>12 DEF ReviewPending
<1>13. CASE ReviewDecided
  BY <1>13 DEF ReviewDecided, Finish
<1>14. CASE ReviewTimesOut
  BY <1>14 DEF ReviewTimesOut, Finish
<1>15. CASE Revalidate
  BY <1>15 DEF Revalidate, StartDelivery
<1>16. CASE DeliveryTimesOut
  BY <1>16 DEF DeliveryTimesOut, Finish
<1>17. CASE Submit
  BY <1>17 DEF Submit, Delivered
<1>18. CASE PollDelivery
  BY <1>18 DEF PollDelivery
<1>19. CASE Answered
  BY <1>19 DEF Answered, WaitDelivery, Finish
<1>20. CASE Unanswered
  BY <1>20 DEF Unanswered, WaitDelivery, Fail
<1>21. CASE DeliveryRefused
  BY <1>21 DEF DeliveryRefused, Fail
<1>22. CASE Announced
  BY <1>22 DEF Announced
<1>23. CASE Recorded
  BY <1>23 DEF Recorded
<1>24. CASE RecordFails
  BY <1>24 DEF RecordFails
<1>25. CASE Evaluate
  BY <1>25 DEF Evaluate
<1>26. CASE ExecutionTimeout
  BY <1>26 DEF ExecutionTimeout
<1>27. CASE Expire
  BY <1>27 DEF Expire
<1>28. CASE LandTask
  BY <1>28 DEF LandTask
<1>29. CASE LandException
  BY <1>29 DEF LandException
<1>30. CASE LandDelivery
  BY <1>30 DEF LandDelivery, Ledger!Accept
<1>31. CASE Decide
  BY <1>31 DEF Decide
<1>32. CASE LedgerStep
  BY <1>32 DEF LedgerStep, Ledger!Receive, Ledger!Move, Ledger!Succeed, Ledger!GiveUp, Ledger!Redrive
<1>33. CASE UNCHANGED vars
  BY <1>33 DEF vars
<1> QED
  BY <1>1, <1>2, <1>3, <1>4, <1>5, <1>6, <1>7, <1>8, <1>9, <1>10, <1>11, <1>12, <1>13, <1>14, <1>15, <1>16, <1>17, <1>18, <1>19, <1>20, <1>21, <1>22, <1>23, <1>24, <1>25, <1>26, <1>27, <1>28, <1>29, <1>30, <1>31, <1>32, <1>33 DEF Next, WorkflowStep

\* The status a caller reads of a running workflow never goes back, and a final
\* one is the last.
THEOREM StatusMovesForwardHolds == Spec => StatusMovesForward
<1>1. PipelineInv /\ [Next]_vars =>
        [ Rank(shown) <= Rank(shown') /\ (Rank(shown) = 3 => shown' = shown /\ outcome' = outcome) ]_vars
  BY ForwardStep DEF PipelineInv
<1> QED BY <1>1, PipelineInvariant, PTL DEF Spec, StatusMovesForward
=============================================================================
