SPECIFICATION Spec
CONSTANTS
    s1 = s1  s2 = s2  s3 = s3  s4 = s4
    k1 = k1  k2 = k2
    e1 = e1  e2 = e2
    NoKey = NoKey
    NoJob = NoJob
    ContentOf <- MCContentOf
    KeyOf <- MCKeyOrNone
    Keys = {k1}
    Submissions = {s1, s2}
    Reconcilers = {e1}
    MaxFaults = 0
INVARIANT RetryAfter503IsServed
CHECK_DEADLOCK FALSE
