SPECIFICATION FairSpec
CONSTANTS
    p1 = p1  p2 = p2  c1 = c1  c2 = c2
    r1 = r1  r2 = r2  r3 = r3  r4 = r4
    k1 = k1  k2 = k2
    Jobs = {p1, p2, c1, c2}
    Exceptions = {p1, p2}
    Requests = {r1, r4}
    TargetOf <- MCTargetOf
    FormOf <- MCFormOf
    Reconcilers = {k1}
    None = None
    MaxFaults = 1
CONSTRAINT ByTurns
PROPERTIES ResolvesAlone
CHECK_DEADLOCK FALSE
