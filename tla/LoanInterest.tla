---------------------------- MODULE LoanInterest ----------------------------
(***************************************************************************)
(* LoanInterest: what a borrower still owes in interest and fees, as the   *)
(* SDK computes it from the market account, while the program accrues.     *)
(*                                                                         *)
(* The program accrues up to the moment of every instruction and books the *)
(* protocol's fee at the rate of that moment.  Between two instructions    *)
(* the account is behind; transformedRemainingInterest projects it to now. *)
(* The account, the fee rate and the sum of the fees collected are taken   *)
(* to be read at one moment.  Only products the code checks overflow.      *)
(***************************************************************************)
EXTENDS WadPower

CONSTANTS
    Bps, SecondsPerDay, DaysPerYear,
    Settled,        \* null: the market is settled
    Maturity,       \* counted, like now, from the creation of the market
    AllInRates,     \* the rates a borrower may ask for, in basis points
    FeeRates,       \* the rates of the protocol's fee, in basis points
    Amounts,        \* the tokens of a deposit or a repayment
    MaxDeposited, MaxRepaid, EndOfTime   \* bounds of a run

ASSUME LoanAssumption ==
    /\ {Bps, SecondsPerDay, DaysPerYear} \subseteq Nat \ {0}
    /\ {Maturity, MaxDeposited, MaxRepaid, EndOfTime} \subseteq Nat
    /\ AllInRates \cup FeeRates \cup Amounts \subseteq Nat
    /\ Wad * Wad <= MaxU128
    /\ Settled \notin Nat /\ Overflow # Settled

VARIABLES
    market,     \* the fields of the market account that bear on interest
    feeBps,     \* the fee rate in the protocol's configuration
    collected,  \* the sum of all collect_fees
    now

vars == <<market, feeBps, collected, now>>

AtMost(a, b) == IF a > b THEN b ELSE a
Surplus(a, b) == IF a > b THEN a - b ELSE 0

-----------------------------------------------------------------------------
(* Rates and growth                                                        *)

\* Math.round of allIn * Bps / (Bps + fee).
AllInToStoredBps(allIn, fee) == (2 * allIn * Bps + Bps + fee) \div (2 * (Bps + fee))

StoredRates == {AllInToStoredBps(allIn, fee) : allIn \in AllInRates, fee \in FeeRates}

DailyBase(rate) == Wad + (rate * Wad) \div (DaysPerYear * Bps)

\* Mutant: the increment instead of the factor.
SubDayIncrement(rate, seconds) == (rate * seconds * Wad) \div (SecondsPerDay * DaysPerYear * Bps)

SubDay(rate, seconds) == Wad + (rate * seconds * Wad) \div (SecondsPerDay * DaysPerYear * Bps)

\* A day does not more than double what is owed, and the interest of one second is
\* worth the roundings of all days to maturity.
ASSUME RatesAssumption ==
    \A rate \in StoredRates : rate # 0 =>
        /\ DailyBase(rate) <= 2 * Wad
        /\ (2 * (Maturity \div SecondsPerDay) + 1) * (SecondsPerDay * DaysPerYear * Bps)
             <= rate * Wad

GrowthFactorWad(rate, elapsed) ==
    IF elapsed <= 0 THEN Wad
    ELSE MulWad(PowWad(DailyBase(rate), elapsed \div SecondsPerDay),
                SubDay(rate, elapsed % SecondsPerDay))

\* Mutant: interest goes on after maturity.
UncappedElapsed(m, t) == Surplus(t, m.lastAccrual)

\* The seconds of interest that the account does not include yet.
Elapsed(m, t) == Surplus(AtMost(t, Maturity), m.lastAccrual)

\* estimateInterestAccrual: the factor with the interest up to t.
NewScaleFactor(m, t) ==
    IF Elapsed(m, t) = 0 THEN m.factor
    ELSE MulWad(m.factor, GrowthFactorWad(m.rate, Elapsed(m, t)))

\* The fee on the growth of one accrual, on the balance before it.
FeeDelta(m, growth, fee) ==
    (CalculateNormalizedAmount(m.supply, m.factor)
        * ((Surplus(growth, Wad) * fee) \div Bps)) \div Wad

-----------------------------------------------------------------------------
(* transformedRemainingInterest                                            *)

\* Mutant: prices the fee on all interest at the rate of now.
RemainingAtTheLiveFee(m, total, t, fee) ==
    LET factor == MulWad(m.factor, GrowthFactorWad(m.rate, Elapsed(m, t)))
        gross  == Surplus(CalculateNormalizedAmount(m.supply, factor), m.deposited)
    IN  IF m.settled THEN Settled
        ELSE IF m.supply = 0 THEN 0
        ELSE IF factor = Overflow THEN Overflow
        ELSE Surplus(gross + (gross * fee) \div Bps, m.interestRepaid)

\* Mutant: forgets the fees that were collected.
RemainingAfterSweeps(m, total, t, fee) ==
    LET growth == GrowthFactorWad(m.rate, Elapsed(m, t))
        factor == MulWad(m.factor, growth)
        gross  == Surplus(CalculateNormalizedAmount(m.supply, factor), m.deposited)
    IN  IF m.settled THEN Settled
        ELSE IF m.supply = 0 THEN 0
        ELSE IF factor = Overflow THEN Overflow
        ELSE Surplus(gross + m.fees + FeeDelta(m, growth, fee), m.interestRepaid)

\* Mutant: reads the account without projecting it to now.
RemainingUnprojected(m, total, t, fee) ==
    LET gross == Surplus(CalculateNormalizedAmount(m.supply, m.factor), m.deposited)
    IN  IF m.settled THEN Settled
        ELSE IF m.supply = 0 THEN 0
        ELSE Surplus(gross + m.fees + total, m.interestRepaid)

\* What the lenders earned and the fees ever charged, less what was repaid.
TransformedRemainingInterest(m, total, t, fee) ==
    LET growth == GrowthFactorWad(m.rate, Elapsed(m, t))
        factor == MulWad(m.factor, growth)
        gross  == Surplus(CalculateNormalizedAmount(m.supply, factor), m.deposited)
    IN  IF m.settled THEN Settled
        ELSE IF m.supply = 0 THEN 0
        ELSE IF factor = Overflow THEN Overflow
        ELSE Surplus(gross + m.fees + total + FeeDelta(m, growth, fee), m.interestRepaid)

Quote == TransformedRemainingInterest(market, collected, now, feeBps)

-----------------------------------------------------------------------------
(* The program                                                             *)

Init ==
    /\ feeBps \in FeeRates
    /\ \E allIn \in AllInRates :
        market = [rate |-> AllInToStoredBps(allIn, feeBps), supply |-> 0, factor |-> Wad,
                  deposited |-> 0, interestRepaid |-> 0, lastAccrual |-> 0, fees |-> 0,
                  settled |-> FALSE]
    /\ collected = 0
    /\ now = 0

\* Every instruction accrues first, and fails when that overflows.
Accruable == ~market.settled /\ NewScaleFactor(market, now) # Overflow

Accrued ==
    IF Elapsed(market, now) = 0 THEN market
    ELSE [market EXCEPT
            !.factor = NewScaleFactor(market, now),
            !.fees = @ + FeeDelta(market, GrowthFactorWad(market.rate, Elapsed(market, now)),
                                  feeBps),
            !.lastAccrual = AtMost(now, Maturity)]

Accrue ==
    /\ Accruable /\ market' = Accrued
    /\ UNCHANGED <<feeBps, collected, now>>

Deposit(amount) ==
    LET minted == CalculateScaledAmount(amount, Accrued.factor)
    IN  /\ Accruable /\ now < Maturity
        /\ minted > 0
        /\ market.deposited + amount <= MaxDeposited
        /\ market' = [Accrued EXCEPT !.supply = @ + minted, !.deposited = @ + amount]
        /\ UNCHANGED <<feeBps, collected, now>>

RepayInterest(amount) ==
    /\ Accruable /\ amount > 0
    /\ market.interestRepaid + amount <= MaxRepaid
    /\ market' = [Accrued EXCEPT !.interestRepaid = @ + amount]
    /\ UNCHANGED <<feeBps, collected, now>>

\* As much of the fees as the vault allows.
CollectFees ==
    /\ Accruable
    /\ \E amount \in 1..Accrued.fees :
        /\ market' = [Accrued EXCEPT !.fees = @ - amount]
        /\ collected' = collected + amount
    /\ UNCHANGED <<feeBps, now>>

SetFeeConfig(fee) ==
    /\ fee # feeBps /\ feeBps' = fee
    /\ UNCHANGED <<market, collected, now>>

\* The first withdrawal after maturity.
Settle ==
    /\ Accruable /\ now >= Maturity
    /\ market' = [Accrued EXCEPT !.settled = TRUE]
    /\ UNCHANGED <<feeBps, collected, now>>

Tick ==
    /\ now < EndOfTime /\ now' = now + 1
    /\ UNCHANGED <<market, feeBps, collected>>

Next ==
    \/ Accrue \/ CollectFees \/ Settle \/ Tick
    \/ \E amount \in Amounts : Deposit(amount) \/ RepayInterest(amount)
    \/ \E fee \in FeeRates : SetFeeConfig(fee)

Spec == Init /\ [][Next]_vars

-----------------------------------------------------------------------------
TypeOK ==
    /\ market \in [rate: StoredRates, supply: Nat, factor: Nat, deposited: Nat,
                   interestRepaid: Nat, lastAccrual: 0..Maturity, fees: Nat,
                   settled: BOOLEAN]
    /\ market.factor >= Wad
    /\ feeBps \in FeeRates
    /\ collected \in Nat
    /\ now \in Nat /\ now >= market.lastAccrual

\* The power that compounds the whole days to accrue is never more than the exact
\* one, and each product but the first, by one, loses at most a part in Wad.
PowStaysClose ==
    LET base == DailyBase(market.rate)
        days == Elapsed(market, now) \div SecondsPerDay
        power == PowWad(base, days)
    IN  days > 0 /\ power # Overflow =>
            /\ power * Exact[<<Wad, days - 1>>] <= Exact[<<base, days>>]
            /\ Exact[<<base, days>>] <= power * Exact[<<Wad + 1, days - 1>>]

Repaid == market'.interestRepaid - market.interestRepaid

\* transformedRemainingInterest matches the program "EXACTLY under any ...
\* collect_fees sweep": at one moment no accrual and no sweep moves the quote, and
\* a repayment lowers it by what it pays, however far behind the account was.
QuoteFollowsTheLoan ==
    [][/\ now' = now /\ feeBps' = feeBps /\ market'.deposited = market.deposited
       /\ ~market'.settled /\ Quote # Overflow
       => Quote' = Surplus(Quote, Repaid)]_vars

\* ... "under any mid-loan SetFeeConfig change": the new rate is not charged on
\* interest that the program has accrued.
FeeChangesAreNotRetroactive ==
    [][feeBps' # feeBps /\ Elapsed(market, now) = 0 => Quote' = Quote]_vars

\* A deposit's principal is not taken for interest, nor interest for principal:
\* the quote keeps its value but for the rounding of one share.
DepositsKeepTheQuote ==
    [][/\ market'.deposited # market.deposited /\ market.supply > 0
       => /\ Quote' <= Quote
          /\ (Quote - Quote') * Wad < market'.factor + Wad]_vars

\* Time alone never lowers the quote, and after maturity does not move it.
QuoteGrowsToMaturity ==
    [][now' # now /\ ~market.settled
       => \/ Quote' = Quote
          \/ now < Maturity /\ (Quote' = Overflow \/ Quote' > Quote)]_vars
=============================================================================
