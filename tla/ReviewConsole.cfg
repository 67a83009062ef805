SPECIFICATION FairSpec
CONSTANTS
    Creators = {c1, c2}
    Pollers = {p1}
    Reviewers = {m1}
    Verdicts = {approved, rejected}
    Provider = "label_studio"
    FallsBack = TRUE
    MaxInflight = 2
    MaxOthers = 1
    None = None
INVARIANTS TypeOK SlotsAreCounted RetryReusesTask AnsweredIsReviewable
PROPERTIES ImplementsPromise ReviewIsDecided
CHECK_DEADLOCK FALSE
