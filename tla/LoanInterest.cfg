SPECIFICATION Spec
CONSTANTS
    Wad = 100
    MaxU128 = 35000
    Bps = 10
    SecondsPerDay = 2
    DaysPerYear = 2
    Overflow = Overflow
    Settled = Settled
    Maturity = 7
    AllInRates <- HalfOrAll
    FeeRates <- NoneOrSome
    Amounts <- SmallOrLarge
    MaxDeposited = 14
    MaxRepaid = 4
    EndOfTime = 8
CHECK_DEADLOCK FALSE
INVARIANTS TypeOK PowStaysClose
PROPERTIES QuoteFollowsTheLoan FeeChangesAreNotRetroactive DepositsKeepTheQuote
           QuoteGrowsToMaturity
