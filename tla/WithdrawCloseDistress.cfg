SPECIFICATION Spec
CONSTANTS
    c1 = c1  c2 = c2
    NoPosition = NoPosition
    NoEntry = NoEntry
    Calls <- OneCall
    Wad = 3
    MaxU128 = 29
    MaxFactor = 5
    MaxShares = 4
    Amounts <- MixedAmounts
    ShareInputs <- AllOrSome
INVARIANT GuaranteedFullWithdrawal
