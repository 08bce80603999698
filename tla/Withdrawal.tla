----------------------------- MODULE Withdrawal -----------------------------
(***************************************************************************)
(* The lender's way out of a market: withdrawByUsdc, withdraw,             *)
(* withdrawAndClose, claimHaircut, claimHaircutAndClose and                *)
(* closeLenderPosition, called from several tabs or wallets of one lender. *)
(*                                                                         *)
(* A position counts shares, which are worth factor / Wad tokens each.     *)
(* withdrawByUsdc converts a token amount with the factor of a market that *)
(* may come from the cache and that the program has not accrued since its  *)
(* last instruction, and clamps the result to a freshly read balance.  The *)
(* instructions land later, if ever, in whatever state the market and the  *)
(* position are then: a multisig may hold them back for days.              *)
(*                                                                         *)
(* minPayout is passed through and not modelled; it only adds rejections.  *)
(* The products of shares and factors are taken to fit into a u128.        *)
(***************************************************************************)
EXTENDS WadMath

CONSTANTS
    Calls,       \* calls of the client by one lender for one market
    NoPosition,  \* the account of the position does not exist
    NoEntry,     \* the cache has no usable entry for the market
    MaxFactor,   \* bound on the scale factor
    MaxShares,   \* bound on the shares of the position
    Amounts,     \* the token amounts that callers and depositors choose
    ShareInputs  \* the share amounts that callers of withdraw choose

ASSUME NumberAssumption ==
    /\ {MaxFactor, MaxShares} \subseteq Nat \ {0}
    /\ Wad <= MaxFactor
    /\ Amounts \subseteq Nat
    /\ ShareInputs \subseteq Nat
ASSUME NamesAssumption ==
    /\ NoPosition \notin [shares: Nat, owed: Nat]
    /\ NoEntry \notin Nat

VARIABLES
    market,   \* due: the factor with the interest of now; factor: the stored one
    position, \* the lender's shares, and the tokens owed from distressed withdrawals
    cached,   \* the factor in the client's cache
    call,     \* where each call stands
    shrunk    \* history: calls whose position has lost shares since they read it

vars == <<market, position, cached, call, shrunk>>

Methods == {"none", "withdrawByUsdc", "withdraw", "withdrawAndClose",
            "claimHaircut", "claimHaircutAndClose", "closeLenderPosition"}

\* usdc is the amount asked for, used the factor it is converted with, seen the
\* balance it is clamped to, shares the scaledAmount of the instruction.
CallRecords == [pc: {"idle", "market", "position", "signed"}, method: Methods,
                usdc: Nat, used: Nat, seen: Nat, shares: Nat]
Record(pc, method, usdc, used, seen, shares) ==
    [pc |-> pc, method |-> method, usdc |-> usdc, used |-> used, seen |-> seen,
     shares |-> shares]
Idle == Record("idle", "none", 0, 0, 0, 0)

SharesOf(p) == IF p = NoPosition THEN 0 ELSE p.shares

-----------------------------------------------------------------------------
\* Mutant: the floor to zero is not caught.
OverflowOnly(amount, factor) == amount * Wad > MaxU128

\* The conversion overflows, or it floors to zero, which the program takes for
\* the whole balance.
Unconvertible(amount, factor) ==
    amount * Wad > MaxU128 \/ CalculateScaledAmount(amount, factor) = 0

\* Mutant: the balance is not looked at.
NoClamp(requested, balance) == requested

Clamped(requested, balance) == IF requested > balance THEN balance ELSE requested

-----------------------------------------------------------------------------
\* The program.  Each instruction maps a position to the positions that it may
\* leave behind, none when the program rejects it.
Burn(p, n) ==
    [shares |-> p.shares - n,
     owed   |-> p.owed + CalculateNormalizedAmount(n, market.due)
                       - CalculateSettlementPayout(n, market.due, market.settlement)]

AfterWithdraw(p, n) ==
    LET burnt  == IF n = 0 THEN SharesOf(p) ELSE n
        payout == CalculateSettlementPayout(burnt, market.due, market.settlement)
    IN  IF burnt <= SharesOf(p) /\ payout > 0 THEN {Burn(p, burnt)} ELSE {}

AfterClaim(p) ==
    IF p # NoPosition /\ p.owed > 0
    THEN {[p EXCEPT !.owed = left] : left \in 0..p.owed - 1} ELSE {}

AfterClose(p) ==
    IF p # NoPosition /\ p.shares = 0 /\ p.owed = 0 THEN {NoPosition} ELSE {}

\* The instructions of a call are one transaction: all of them or none.
Outcomes(c) ==
    LET withdrawn == AfterWithdraw(position, call[c].shares)
        claimed   == AfterClaim(position)
    IN  CASE call[c].method \in {"withdrawByUsdc", "withdraw"} -> withdrawn
          [] call[c].method = "withdrawAndClose"     -> UNION {AfterClose(p) : p \in withdrawn}
          [] call[c].method = "claimHaircut"         -> claimed
          [] call[c].method = "claimHaircutAndClose" -> UNION {AfterClose(p) : p \in claimed}
          [] OTHER                                   -> AfterClose(position)

-----------------------------------------------------------------------------
Init ==
    /\ market = [due |-> Wad, factor |-> Wad, matured |-> FALSE, settlement |-> 0]
    /\ position = NoPosition
    /\ cached = NoEntry
    /\ call = [c \in Calls |-> Idle]
    /\ shrunk = {}

\* Mutant: the slot is handed out although it is empty.
EmptySlotServed == {market.factor, cached}

\* What a lookup of the market hands out: the stored factor, or the cached one.
Served == {market.factor} \cup ({cached} \ {NoEntry})

\* Only a positive amount gets past the first check.
WithdrawByUsdc(c, usdc) ==
    /\ call[c].pc = "idle"
    /\ usdc > 0
    /\ call' = [call EXCEPT ![c] = Record("market", "withdrawByUsdc", usdc, 0, 0, 0)]
    /\ UNCHANGED <<market, position, cached, shrunk>>

MarketRead(c) ==
    /\ call[c].pc = "market"
    /\ \E f \in Served :
        /\ cached' = f
        /\ call' = [call EXCEPT ![c] =
                IF f = 0 THEN Idle
                ELSE Record("position", "withdrawByUsdc", call[c].usdc, f, 0, 0)]
    /\ UNCHANGED <<market, position, shrunk>>

\* From here on the caller holds the instruction.  The lookups of withdraw itself
\* only refresh the cache.
PositionRead(c) ==
    LET usdc == call[c].usdc
        used == call[c].used
        seen == SharesOf(position)
    IN  /\ call[c].pc = "position"
        /\ IF seen = 0 \/ Unconvertible(usdc, used)
           THEN /\ call' = [call EXCEPT ![c] = Idle]
                /\ UNCHANGED <<cached, shrunk>>
           ELSE /\ call' = [call EXCEPT ![c] =
                        Record("signed", "withdrawByUsdc", usdc, used, seen,
                               Clamped(CalculateScaledAmount(usdc, used), seen))]
                /\ shrunk' = shrunk \ {c}
                /\ cached' \in Served
        /\ UNCHANGED <<market, position>>

\* A call that builds its instructions from nothing but addresses.
Build(c, method, shares) ==
    /\ call[c].pc = "idle"
    /\ call' = [call EXCEPT ![c] = Record("signed", method, 0, 0, 0, shares)]
    /\ UNCHANGED <<market, position, shrunk>>

Withdraw(c, shares) == Build(c, "withdraw", shares) /\ cached' \in Served

\* Mutant: asks for the balance of the moment instead of all.
WithdrawBalanceAndClose(c) ==
    Build(c, "withdrawAndClose", SharesOf(position)) /\ cached' \in Served

WithdrawAndClose(c) == Build(c, "withdrawAndClose", 0) /\ cached' \in Served

ClaimHaircut(c) ==
    /\ \E method \in {"claimHaircut", "claimHaircutAndClose"} : Build(c, method, 0)
    /\ cached' \in Served

CloseLenderPosition(c) == Build(c, "closeLenderPosition", 0) /\ UNCHANGED cached

\* A read of the call fails for good.
ReadFails(c) ==
    /\ call[c].pc \in {"market", "position"}
    /\ call' = [call EXCEPT ![c] = Idle]
    /\ UNCHANGED <<market, position, cached, shrunk>>

-----------------------------------------------------------------------------
\* What happens to shrunk when the position becomes p.
Notice(p) ==
    shrunk' = IF SharesOf(p) < SharesOf(position)
              THEN {c \in Calls : call[c].pc = "signed"} \cup shrunk ELSE shrunk

\* The program accrues before it does anything else.
Accrued == [market EXCEPT !.factor = market.due]

Land(c) ==
    /\ call[c].pc = "signed"
    /\ \E p \in Outcomes(c) : position' = p /\ Notice(p)
    /\ market' = Accrued
    /\ call' = [call EXCEPT ![c] = Idle]
    /\ UNCHANGED cached

\* Never sent, dropped, or rejected by the program.
Lost(c) ==
    /\ call[c].pc = "signed"
    /\ call' = [call EXCEPT ![c] = Idle]
    /\ UNCHANGED <<market, position, cached, shrunk>>

\* The lender deposits from elsewhere, while the market is open.
Deposit(amount) ==
    LET minted == CalculateScaledAmount(amount, market.due)
    IN  /\ ~market.matured
        /\ minted > 0
        /\ SharesOf(position) + minted <= MaxShares
        /\ position' = IF position = NoPosition
                       THEN [shares |-> minted, owed |-> 0]
                       ELSE [position EXCEPT !.shares = @ + minted]
        /\ market' = Accrued
        /\ UNCHANGED <<cached, call, shrunk>>

\* The borrower pays the lender out into an escrow account.
ForceClose ==
    /\ market.settlement > 0 /\ SharesOf(position) > 0
    /\ position' = Burn(position, position.shares)
    /\ Notice(position')
    /\ market' = Accrued
    /\ UNCHANGED <<cached, call>>

\* Interest falls due, but is stored only by the next instruction.
Earn ==
    /\ ~market.matured
    /\ market.due < MaxFactor
    /\ market' = [market EXCEPT !.due = @ + 1]
    /\ UNCHANGED <<position, cached, call, shrunk>>

\* Another user's instruction.
Accrue ==
    /\ market.factor < market.due
    /\ market' = Accrued
    /\ UNCHANGED <<position, cached, call, shrunk>>

Mature ==
    /\ ~market.matured
    /\ market' = [market EXCEPT !.matured = TRUE]
    /\ UNCHANGED <<position, cached, call, shrunk>>

\* The first withdrawal after maturity locks the settlement factor, by what is in
\* the vault; reSettle may raise it.
Settle ==
    /\ market.matured
    /\ \E s \in market.settlement + 1..Wad :
        market' = [Accrued EXCEPT !.settlement = s]
    /\ UNCHANGED <<position, cached, call, shrunk>>

ClientStep(c) ==
    \/ \E usdc \in Amounts : WithdrawByUsdc(c, usdc)
    \/ MarketRead(c) \/ PositionRead(c) \/ ReadFails(c)
    \/ \E shares \in ShareInputs : Withdraw(c, shares)
    \/ WithdrawAndClose(c) \/ ClaimHaircut(c) \/ CloseLenderPosition(c)
    \/ Land(c) \/ Lost(c)

Next ==
    \/ \E c \in Calls : ClientStep(c)
    \/ \E amount \in Amounts : Deposit(amount)
    \/ ForceClose \/ Earn \/ Accrue \/ Mature \/ Settle

Spec == Init /\ [][Next]_vars

-----------------------------------------------------------------------------
TypeOK ==
    /\ market \in [due: Wad..MaxFactor, factor: Wad..MaxFactor, matured: BOOLEAN,
                   settlement: 0..Wad]
    /\ position \in [shares: Nat, owed: Nat] \cup {NoPosition}
    /\ cached \in (Wad..MaxFactor) \cup {NoEntry}
    /\ call \in [Calls -> CallRecords]
    /\ shrunk \subseteq Calls

\* The step lands what withdrawByUsdc has built for c.
UsdcLands(c) ==
    /\ call[c].method = "withdrawByUsdc"
    /\ call[c].pc = "signed" /\ call'[c] = Idle
    /\ position' # position

Burnt == SharesOf(position) - SharesOf(position')

\* A landed withdrawByUsdc burns the shares that its amount bought at the factor
\* it was converted with, rounded down, or the balance that it read if that is
\* less; never the whole of a larger position, whatever was deposited since.
BurnsWhatWasAsked ==
    [][\A c \in Calls : UsdcLands(c) =>
        /\ Burnt * call[c].used <= call[c].usdc * Wad
        /\ \/ Burnt = call[c].seen
           \/ (Burnt + 1) * call[c].used > call[c].usdc * Wad]_vars

\* On a fully funded market a landed withdrawByUsdc pays its amount, less at most
\* one share and a rounding unless it was clamped, and more only by the interest
\* that the factor of the conversion did not include.
PaysTheTarget ==
    [][\A c \in Calls : UsdcLands(c) /\ market.settlement = Wad =>
        LET paid == CalculateSettlementPayout(Burnt, market.due, Wad)
        IN  /\ paid * call[c].used <= call[c].usdc * market.due
            /\ \/ Burnt = call[c].seen
               \/ (call[c].usdc - paid) * Wad <= call[c].used + Wad - 2]_vars

\* What withdrawByUsdc has built exceeds the position only if the position has
\* lost shares since the balance was read.
ClampCovers ==
    \A c \in Calls :
        call[c].pc = "signed" /\ call[c].method = "withdrawByUsdc" /\ c \notin shrunk
            => /\ call[c].shares > 0
               /\ call[c].shares <= SharesOf(position)

\* A withdrawAndClose that is still to land empties and closes a position that
\* holds shares, also when others have deposited or withdrawn since it was built,
\* if the market pays in full and nothing is owed from before.
FullExitWhenFunded ==
    \A c \in Calls :
        /\ call[c].pc = "signed" /\ call[c].method = "withdrawAndClose"
        /\ market.settlement = Wad
        /\ SharesOf(position) > 0 /\ position.owed = 0
        => Outcomes(c) = {NoPosition}

\* What the documentation of withdrawByUsdc says of withdrawAndClose: for a
\* guaranteed full withdrawal.  Violated: on a distressed market the withdrawal,
\* which the program would accept, leaves haircutOwed behind; the close rejects
\* that, and with it the withdrawal.
GuaranteedFullWithdrawal ==
    \A c \in Calls :
        /\ call[c].pc = "signed" /\ call[c].method = "withdrawAndClose"
        /\ AfterWithdraw(position, 0) # {}
        => Outcomes(c) # {}
=============================================================================
