SPECIFICATION FairSpec
CONSTANTS
    c1 = c1  c2 = c2  c3 = c3
    Nobody = Nobody
    Earlier = Earlier
    Callers <- ThreeCallers
    NonceEnd = 4
    BatchSize = 2
    MaxProbe = 3
    MinNonce = 1
    Existing <- OldMarkets
    Dusted <- DustyNonces
CHECK_DEADLOCK FALSE
INVARIANTS TypeOK SkipsOnlyMarkets RetryMovesOn
PROPERTIES OpensAtMostOne CallsEnd
