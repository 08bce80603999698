SPECIFICATION Spec
CONSTANTS
    c1 = c1  c2 = c2
    k1 = k1  k2 = k2
    s1 = s1  s2 = s2  s3 = s3
    NoSig = NoSig
    NoRecord = NoRecord
    Callers <- TwoCallers
    Keys <- TwoKeys
    Sigs <- TwoSigs
    PendingTimeout = 1
    CompletedRetention = 2
    BlockhashLife = 1
    Serialized = FALSE
    Persistent = FALSE
    OperationTimesOut = TRUE
    MaxTime = 3
SYMMETRY Symmetry
CHECK_DEADLOCK FALSE
INVARIANT RecordsAreReal
PROPERTY CompletionIsFinal
