SPECIFICATION Spec
CONSTANTS
    o1 = o1  o2 = o2
    r1 = r1  r2 = r2  r3 = r3  r4 = r4
    k1 = k1
    hook = hook  s3 = s3
    Ops = {o1, o2}
    Requests = {r1, r3, r4}
    Reconcilers = {k1}
    Destinations = {hook}
    Receipt = Receipt
    NoRequest = NoRequest
    OpOf <- MCOpOf
    Fingerprint <- MCFingerprint
    DestsOf <- MCDestsOf
    LegacyOps = {o2}
    MaxAttempts = 2
    MaxRedrives = 0
INVARIANTS TypeOK LeaseMatchesAttempts AcknowledgedOnce FrozenEnvelope
PROPERTIES StaleWorkerIsHarmless
CHECK_DEADLOCK FALSE
