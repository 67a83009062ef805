SPECIFICATION FairSpec
CONSTANTS
    o1 = o1  o2 = o2
    r1 = r1  r2 = r2  r3 = r3  r4 = r4
    k1 = k1
    hook = hook  s3 = s3
    Ops = {o1}
    Requests = {r1}
    Reconcilers = {k1}
    Destinations = {hook, s3}
    Receipt = Receipt
    NoRequest = NoRequest
    OpOf <- MCOpOf
    Fingerprint <- MCFingerprint
    DestsOf <- MCDestsOf
    LegacyOps = {}
    MaxAttempts = 1
    MaxRedrives = 1
INVARIANT AttemptsBounded
PROPERTIES HistoryIsImmutable ImplementsPromise Settles
CHECK_DEADLOCK FALSE
