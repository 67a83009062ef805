SPECIFICATION Spec
CONSTANTS
    s1 = s1  s2 = s2  s3 = s3  s4 = s4
    k1 = k1  k2 = k2
    e1 = e1  e2 = e2
    NoKey = NoKey
    NoJob = NoJob
    ContentOf <- MCContentOf
    KeyOf <- MCKeyOf
    Keys = {k1, k2}
    Submissions = {s1, s3, s4}
    Reconcilers = {e1}
    MaxFaults = 0
CONSTRAINT ThirdIsFresh
INVARIANTS TypeOK OneLiveJob KeyMeansOneJob
CHECK_DEADLOCK FALSE
