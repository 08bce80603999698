SPECIFICATION FairSpec
CONSTANTS
    top = top  wrapper = wrapper  leaf = leaf
    paused = paused  other = other
    own = own  foreign = foreign
    Nodes <- SomeNodes
    Root = top
    Codes = {paused, other}
    Programs = {own, foreign}
    OwnProgram = own
    MaxErrorParseNodes = 3
    Errors <- SomeErrors
    None = None
    RetryableCodes = {paused}
    MaxAttempts = 3
INVARIANTS TypeOK NoCodeHidden CodeIsOurs ClientRetriesAreSafe
PROPERTIES CallsEnd
