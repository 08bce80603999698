SPECIFICATION FairSpec
CONSTANTS
    r1 = r1  r2 = r2
    config = config  m1 = m1
    NoEntry = NoEntry
    NoAnswer = NoAnswer
    Readers <- TwoReaders
    ProtocolConfig = config
    Accounts <- MarketOnly
    Ttl = 3
    MaxRetries = 1
    ReplyTime = 2
    Lag = 1
    MaxVersion = 2
INVARIANTS TypeOK BoundedStaleness FreshAfterInvalidation
PROPERTY ReadsEnd
