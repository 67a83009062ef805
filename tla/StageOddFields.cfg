SPECIFICATION Spec
CONSTANTS
    c1 = c1  c2 = c2
    Calls = {c1, c2}
    Documents <- MCDocuments
    LlmAnswers <- MCLlmAnswers
    MaxInflight <- MCMaxInflight
    Secondary = TRUE
    VlmEnabled = TRUE
    MaxPages = 25
    MaxPixels = 50
    Full = 10000
    Enough = 4
    MaxTries = 3
    MaxFaults = 2
INVARIANT OddFieldsAreReviewed
SYMMETRY Symmetry
CHECK_DEADLOCK FALSE
