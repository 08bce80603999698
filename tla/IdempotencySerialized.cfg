SPECIFICATION Spec
CONSTANTS
    c1 = c1  c2 = c2
    k1 = k1  k2 = k2
    s1 = s1  s2 = s2  s3 = s3
    NoSig = NoSig
    NoRecord = NoRecord
    Callers <- TwoCallers
    Keys <- OneKey
    Sigs <- ThreeSigs
    PendingTimeout = 2
    CompletedRetention = 3
    BlockhashLife = 2
    Serialized = TRUE
    Persistent = TRUE
    OperationTimesOut = TRUE
    MaxTime = 6
SYMMETRY Symmetry
CHECK_DEADLOCK FALSE
INVARIANTS TypeOK LiveTransactionIsPending
PROPERTY NoLaunchInWindow
