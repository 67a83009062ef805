SPECIFICATION FairSpec
CONSTANTS
    p1 = p1  p2 = p2  c1 = c1  c2 = c2
    r1 = r1  r2 = r2  r3 = r3  r4 = r4
    k1 = k1  k2 = k2
    Jobs = {p1, c1}
    Exceptions = {p1}
    Requests = {r1, r2}
    TargetOf <- MCTargetOf
    FormOf <- MCFormOf
    Reconcilers = {k1, k2}
    None = None
    MaxFaults = 1
CONSTRAINT Apart
INVARIANTS TypeOK ResolutionIsTrue SourceSurvives
PROPERTIES HeldIsKept Resolves
CHECK_DEADLOCK FALSE
