SPECIFICATION ESpec
CONSTANTS
    PageCount = 2
    MaxAttempts = 1
    RetryMax = 0
INVARIANT OcrFailureIsRecorded
CHECK_DEADLOCK FALSE
