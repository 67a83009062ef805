SPECIFICATION ESpec
CONSTANTS
    PageCount = 3
    MaxAttempts = 2
    RetryMax = 1
INVARIANTS TypeOK NoUnapprovedDelivery HonestOutcome ExceptionIsDurable OneAnnouncement TrackedIsTrue
PROPERTIES StatusMovesForward Closes
CHECK_DEADLOCK FALSE
