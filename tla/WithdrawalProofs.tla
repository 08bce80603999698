-------------------------- MODULE WithdrawalProofs --------------------------
(***************************************************************************)
(* Proofs about Withdrawal, for any amounts, any fixed-point one and any   *)
(* number of calls: what the calls build and what lands.                   *)
(***************************************************************************)
EXTENDS Withdrawal, WadMathProofs

-----------------------------------------------------------------------------
(* What the program leaves of a position.                                  *)

Positions == [shares: Nat, owed: Nat]

LEMMA PositionOrNone ==
    ASSUME NEW p \in Positions \cup {NoPosition}
    PROVE  /\ SharesOf(p) \in Nat
           /\ p # NoPosition => p \in Positions /\ SharesOf(p) = p.shares
           /\ SharesOf(p) > 0 => p # NoPosition
    BY NamesAssumption DEF SharesOf, Positions

LEMMA RecordIsNotNone ==
    ASSUME NEW p \in Positions
    PROVE  p # NoPosition /\ SharesOf(p) = p.shares
    BY NamesAssumption DEF SharesOf, Positions

LEMMA MarketTyped ==
    ASSUME TypeOK
    PROVE  /\ market.due \in Nat /\ market.factor \in Nat
           /\ Wad <= market.due /\ Wad <= market.factor
           /\ market.due <= MaxFactor
           /\ market.settlement \in 0..Wad
           /\ market.matured \in BOOLEAN
    BY NumberAssumption, WadAssumption, SMT DEF TypeOK

\* A burn takes the shares and books the haircut, which is never negative.
LEMMA BurnEffect ==
    ASSUME TypeOK, NEW p \in Positions, NEW n \in 0..p.shares
    PROVE  /\ Burn(p, n) \in Positions
           /\ Burn(p, n).shares = p.shares - n
           /\ market.settlement = Wad => Burn(p, n).owed = p.owed
<1>. DEFINE full == CalculateNormalizedAmount(n, market.due)
            paid == CalculateSettlementPayout(n, market.due, market.settlement)
<1>1. n \in Nat /\ p.shares \in Nat /\ p.owed \in Nat /\ n <= p.shares
    BY DEF Positions
<1>2. full \in Nat /\ paid \in Nat /\ paid <= full /\ (market.settlement = Wad => paid = full)
    BY <1>1, MarketTyped, NormalizedBounds, PayoutBounds
<1>3. Burn(p, n) = [shares |-> p.shares - n, owed |-> p.owed + full - paid]
    BY DEF Burn
<1>. HIDE DEF full, paid
<1>. QED
    BY <1>1, <1>2, <1>3 DEF Positions

\* An accepted withdrawal burns what it names, all of it for the sentinel.
LEMMA WithdrawEffect ==
    ASSUME TypeOK, NEW p \in Positions \cup {NoPosition}, NEW n \in Nat,
           NEW q \in AfterWithdraw(p, n)
    PROVE  /\ p \in Positions /\ q \in Positions
           /\ n <= p.shares
           /\ q.shares = IF n = 0 THEN 0 ELSE p.shares - n
           /\ p.shares > 0
           /\ market.settlement = Wad => q.owed = p.owed
<1>. DEFINE burnt == IF n = 0 THEN SharesOf(p) ELSE n
<1>1. /\ burnt <= SharesOf(p)
      /\ CalculateSettlementPayout(burnt, market.due, market.settlement) > 0
      /\ q = Burn(p, burnt)
    BY DEF AfterWithdraw
<1>2. burnt \in Nat
    BY PositionOrNone
<1>3. burnt # 0
    <2>1. SUFFICES ASSUME burnt = 0 PROVE FALSE
        OBVIOUS
    <2>. DEFINE full == CalculateNormalizedAmount(0, market.due)
    <2>2. full \in Nat /\ full * Wad <= 0 * market.due
        BY MarketTyped, NormalizedBounds
    <2>. HIDE DEF full
    <2>3. full = 0
        BY <2>2, MarketTyped, NumberAssumption, WadAssumption, SMT
    <2>. QED
        BY <1>1, <2>1, <2>3, MarketTyped, PayoutBounds DEF full
<1>4. p \in Positions /\ SharesOf(p) = p.shares
    BY <1>1, <1>2, <1>3, PositionOrNone
<1>5. burnt \in 0..p.shares /\ p.shares \in Nat
    BY <1>1, <1>2, <1>4 DEF Positions
<1>6. /\ Burn(p, burnt) \in Positions
      /\ Burn(p, burnt).shares = p.shares - burnt
      /\ market.settlement = Wad => Burn(p, burnt).owed = p.owed
    BY <1>4, <1>5, BurnEffect
<1>. QED
    BY <1>1, <1>3, <1>4, <1>5, <1>6

\* A transaction leaves a position or none.
LEMMA OutcomesTyped ==
    ASSUME TypeOK, NEW c \in Calls, NEW q \in Outcomes(c)
    PROVE  q \in Positions \cup {NoPosition}
<1>1. position \in Positions \cup {NoPosition} /\ call[c].shares \in Nat
    BY DEF TypeOK, Positions, CallRecords
<1>2. \A p \in AfterWithdraw(position, call[c].shares) : p \in Positions
    BY <1>1, WithdrawEffect
<1>3. \A p \in AfterClaim(position) : p \in Positions
    BY <1>1 DEF AfterClaim, Positions
<1>4. \A p : AfterClose(p) \subseteq {NoPosition}
    BY DEF AfterClose
<1>. QED
    BY <1>2, <1>3, <1>4 DEF Outcomes

-----------------------------------------------------------------------------
(* The inductive invariant.                                                *)

\* What withdrawByUsdc puts into its instruction is the converted amount,
\* rounded down, or the balance it has read, and never the sentinel.
Built(r, factor) ==
    /\ r.used \in Wad..factor
    /\ r.shares > 0
    /\ r.shares <= r.seen
    /\ r.shares * r.used <= r.usdc * Wad
    /\ r.shares = r.seen \/ (r.shares + 1) * r.used > r.usdc * Wad

\* The record of a call, when the stored factor is the given one.
Sound(r, factor) ==
    /\ r.pc \in {"market", "position"} => r.method = "withdrawByUsdc" /\ r.usdc > 0
    /\ r.pc = "position" => r.used \in Wad..factor
    /\ r.pc = "signed" /\ r.method = "withdrawByUsdc" => Built(r, factor)
    /\ r.pc = "signed" /\ r.method = "withdrawAndClose" => r.shares = 0

\* Factors only grow: what a call or the cache has read is no more than the
\* stored factor, which is no more than what is due.
FactorInv ==
    /\ market.factor <= market.due
    /\ cached # NoEntry => cached <= market.factor

CallInv == \A c \in Calls : Sound(call[c], market.factor)

IInv == TypeOK /\ FactorInv /\ CallInv /\ ClampCovers

LEMMA SoundStays ==
    ASSUME NEW r \in CallRecords, NEW f \in Nat, NEW g \in Nat, f <= g, Sound(r, f)
    PROVE  Sound(r, g)
    BY NumberAssumption, WadAssumption DEF Sound, Built, CallRecords

\* One call changes its record.
LEMMA OneCallChanges ==
    ASSUME TypeOK, CallInv, NEW c \in Calls, NEW r \in CallRecords,
           call' = [call EXCEPT ![c] = r],
           market'.factor \in Nat, market.factor <= market'.factor,
           Sound(r, market'.factor)
    PROVE  call' \in [Calls -> CallRecords] /\ CallInv'
<1>1. call' \in [Calls -> CallRecords]
    BY DEF TypeOK
<1>2. ASSUME NEW d \in Calls PROVE Sound(call'[d], market'.factor)
    <2>1. CASE d = c
        BY <2>1 DEF TypeOK
    <2>2. CASE d # c
        <3>1. call'[d] = call[d] /\ call[d] \in CallRecords /\ Sound(call[d], market.factor)
            BY <2>2 DEF TypeOK, CallInv
        <3>. QED
            BY <3>1, MarketTyped, SoundStays
    <2>. QED
        BY <2>1, <2>2
<1>. QED
    BY <1>1, <1>2 DEF CallInv

\* No call changes its record.
LEMMA NoCallChanges ==
    ASSUME TypeOK, CallInv, call' = call,
           market'.factor \in Nat, market.factor <= market'.factor
    PROVE  CallInv'
<1>1. ASSUME NEW c \in Calls PROVE Sound(call'[c], market'.factor)
    BY MarketTyped, SoundStays DEF TypeOK, CallInv
<1>. QED
    BY <1>1 DEF CallInv

LEMMA IdleSound ==
    ASSUME NEW f
    PROVE  Idle \in CallRecords /\ Sound(Idle, f)
    BY DEF Idle, Record, CallRecords, Methods, Sound

LEMMA ServedTyped ==
    ASSUME IInv, NEW f \in Served
    PROVE  f \in Wad..MaxFactor /\ f <= market.factor /\ f # NoEntry /\ f > 0
    BY MarketTyped, NumberAssumption, WadAssumption, NamesAssumption DEF IInv, TypeOK, FactorInv, Served

LEMMA AccruedTyped ==
    ASSUME IInv
    PROVE  /\ Accrued \in [due: Wad..MaxFactor, factor: Wad..MaxFactor, matured: BOOLEAN,
                           settlement: 0..Wad]
           /\ Accrued.factor = market.due /\ Accrued.due = market.due
           /\ market.factor <= Accrued.factor /\ Accrued.factor \in Nat
    BY MarketTyped, NumberAssumption, WadAssumption DEF IInv, TypeOK, FactorInv, Accrued

\* One call changes its record to one that lands nothing of withdrawByUsdc, and
\* the market and the position stay: all of the invariant but the cache.
LEMMA QuietStep ==
    ASSUME IInv, NEW c \in Calls, NEW r \in CallRecords,
           call' = [call EXCEPT ![c] = r],
           Sound(r, market.factor),
           ~(r.pc = "signed" /\ r.method = "withdrawByUsdc"),
           UNCHANGED <<market, position, shrunk>>,
           cached' \in Served \cup {cached}
    PROVE  IInv'
<1>1. call' \in [Calls -> CallRecords] /\ CallInv'
    <2>1. TypeOK /\ CallInv
        BY DEF IInv
    <2>2. /\ market' = market
          /\ market'.factor \in Nat /\ market.factor <= market'.factor
          /\ Sound(r, market'.factor)
        BY <2>1, MarketTyped
    <2>. QED
        BY <2>1, <2>2, OneCallChanges
<1>2. cached' \in (Wad..MaxFactor) \cup {NoEntry} /\ (cached' # NoEntry => cached' <= market.factor)
    BY ServedTyped DEF IInv, TypeOK, FactorInv
<1>3. TypeOK' /\ FactorInv'
    BY <1>1, <1>2 DEF IInv, TypeOK, FactorInv
<1>4. ClampCovers'
    <2>1. ASSUME NEW d \in Calls, call'[d].pc = "signed",
                 call'[d].method = "withdrawByUsdc", d \notin shrunk
          PROVE  call'[d].shares > 0 /\ call'[d].shares <= SharesOf(position)
        <3>1. d # c /\ call'[d] = call[d]
            BY <2>1 DEF IInv, TypeOK
        <3>. QED
            BY <2>1, <3>1 DEF IInv, ClampCovers
    <2>2. SharesOf(position') = SharesOf(position)
        BY DEF SharesOf
    <2>. QED
        BY <2>1, <2>2 DEF ClampCovers, SharesOf
<1>. QED
    BY <1>1, <1>3, <1>4 DEF IInv

LEMMA WithdrawByUsdcStep ==
    ASSUME IInv, NEW c \in Calls, NEW usdc \in Amounts, WithdrawByUsdc(c, usdc)
    PROVE  IInv'
<1>. DEFINE r == Record("market", "withdrawByUsdc", usdc, 0, 0, 0)
<1>1. r = [pc |-> "market", method |-> "withdrawByUsdc", usdc |-> usdc,
           used |-> 0, seen |-> 0, shares |-> 0]
    BY DEF Record
<1>. HIDE DEF r
<1>2. r \in CallRecords
    BY <1>1, NumberAssumption, WadAssumption DEF CallRecords, Methods
<1>3. Sound(r, market.factor) /\ ~(r.pc = "signed" /\ r.method = "withdrawByUsdc")
    BY <1>1 DEF WithdrawByUsdc, Sound
<1>. QED
    BY <1>2, <1>3, QuietStep DEF WithdrawByUsdc, r

LEMMA MarketReadStep ==
    ASSUME IInv, NEW c \in Calls, MarketRead(c)
    PROVE  IInv'
<1>1. PICK f \in Served :
        /\ cached' = f
        /\ call' = [call EXCEPT ![c] =
                IF f = 0 THEN Idle
                ELSE Record("position", "withdrawByUsdc", call[c].usdc, f, 0, 0)]
    BY DEF MarketRead
<1>2. f \in Wad..MaxFactor /\ f <= market.factor /\ f > 0 /\ f \in Nat
    BY ServedTyped, NumberAssumption, WadAssumption
<1>. DEFINE r == Record("position", "withdrawByUsdc", call[c].usdc, f, 0, 0)
<1>3. call' = [call EXCEPT ![c] = r]
    <2>1. (IF f = 0 THEN Idle ELSE r) = r
        BY <1>2
    <2>. QED
        BY <1>1, <2>1, Zenon
<1>4. /\ r \in CallRecords
      /\ r.pc = "position" /\ r.used = f
      /\ r.method = "withdrawByUsdc" /\ r.usdc = call[c].usdc
    BY <1>2 DEF IInv, TypeOK, Record, CallRecords, Methods
<1>. HIDE DEF r
<1>5. Sound(r, market.factor)
    BY <1>2, <1>4, MarketTyped DEF IInv, CallInv, Sound, MarketRead
<1>. QED
    BY <1>1, <1>3, <1>4, <1>5, QuietStep DEF MarketRead

\* A call that gives up, or whose transaction comes to nothing.
LEMMA GiveUpStep ==
    ASSUME IInv, NEW c \in Calls, call' = [call EXCEPT ![c] = Idle],
           UNCHANGED <<market, position, cached, shrunk>>
    PROVE  IInv'
<1>1. ~(Idle.pc = "signed" /\ Idle.method = "withdrawByUsdc")
    BY DEF Idle, Record
<1>. QED
    BY <1>1, IdleSound, QuietStep

\* The calls that build from addresses only.
LEMMA BuildStep ==
    ASSUME IInv, NEW c \in Calls, NEW method \in Methods \ {"withdrawByUsdc"}, NEW n \in Nat,
           method = "withdrawAndClose" => n = 0,
           Build(c, method, n), cached' \in Served \cup {cached}
    PROVE  IInv'
<1>. DEFINE r == Record("signed", method, 0, 0, 0, n)
<1>1. r = [pc |-> "signed", method |-> method, usdc |-> 0,
           used |-> 0, seen |-> 0, shares |-> n]
    BY DEF Record
<1>. HIDE DEF r
<1>2. r \in CallRecords
    BY <1>1 DEF CallRecords
<1>3. Sound(r, market.factor) /\ ~(r.pc = "signed" /\ r.method = "withdrawByUsdc")
    BY <1>1 DEF Sound, Methods
<1>. QED
    BY <1>2, <1>3, QuietStep DEF Build, r

\* The conversion: what is built is sound, covered by the position that was
\* read, and not the sentinel.
LEMMA PositionReadStep ==
    ASSUME IInv, NEW c \in Calls, PositionRead(c)
    PROVE  IInv'
<1>. DEFINE usdc == call[c].usdc
            used == call[c].used
            seen == SharesOf(position)
            requested == CalculateScaledAmount(usdc, used)
            r == Record("signed", "withdrawByUsdc", usdc, used, seen, Clamped(requested, seen))
<1>1. CASE seen = 0 \/ Unconvertible(usdc, used)
    BY <1>1, GiveUpStep DEF PositionRead
<1>2. CASE ~(seen = 0 \/ Unconvertible(usdc, used))
    <2>1. /\ call[c].pc = "position"
          /\ call' = [call EXCEPT ![c] = r]
          /\ shrunk' = shrunk \ {c}
          /\ cached' \in Served
          /\ market' = market /\ position' = position
        BY <1>2 DEF PositionRead
    <2>2. TypeOK /\ CallInv /\ FactorInv /\ ClampCovers
        BY DEF IInv
    <2>3. /\ usdc \in Nat /\ seen \in Nat /\ seen > 0
          /\ used \in Wad..market.factor /\ used \in Nat \ {0}
        <3>1. seen \in Nat
            BY <2>2, PositionOrNone DEF TypeOK, Positions
        <3>2. used \in Wad..market.factor /\ used \in Nat /\ usdc \in Nat
            BY <2>1, <2>2 DEF CallInv, Sound, TypeOK, CallRecords
        <3>. QED
            BY <1>2, <3>1, <3>2, NumberAssumption, WadAssumption, MarketTyped, <2>2
    <2>4. requested \in Nat /\ requested # 0
        BY <1>2, <2>3, ScaledBounds DEF Unconvertible
    <2>5. requested * used <= usdc * Wad /\ usdc * Wad < (requested + 1) * used
        BY <2>3, ScaledBounds
    <2>. DEFINE shares == Clamped(requested, seen)
    <2>. HIDE DEF usdc, used, seen, requested
    <2>6. /\ shares \in Nat /\ shares > 0 /\ shares <= seen /\ shares <= requested
          /\ shares = seen \/ shares = requested
        BY <2>3, <2>4 DEF Clamped
    <2>. HIDE DEF shares
    <2>7. shares * used <= usdc * Wad
        <3>1. shares * used <= requested * used /\ shares * used \in Nat /\ requested * used \in Nat
            BY <2>3, <2>4, <2>6, ProductMonotone, ProductInNat
        <3>2. usdc * Wad \in Nat
            BY <2>3, NumberAssumption, WadAssumption, ProductInNat
        <3>. QED
            BY <2>5, <3>1, <3>2
    <2>8. shares = seen \/ (shares + 1) * used > usdc * Wad
        <3>1. usdc * Wad \in Nat /\ (requested + 1) * used \in Nat
            BY <2>3, <2>4, NumberAssumption, WadAssumption, ProductInNat
        <3>. QED
            BY <2>5, <2>6, <3>1
    <2>9. r = [pc |-> "signed", method |-> "withdrawByUsdc", usdc |-> usdc, used |-> used,
               seen |-> seen, shares |-> shares]
        BY DEF Record, shares
    <2>. HIDE DEF r
    <2>10. r \in CallRecords
        BY <2>3, <2>6, <2>9 DEF CallRecords, Methods
    <2>11. Sound(r, market.factor)
        BY <2>3, <2>6, <2>7, <2>8, <2>9 DEF Sound, Built
    <2>12. call' \in [Calls -> CallRecords] /\ CallInv'
        <3>1. market'.factor \in Nat /\ market.factor <= market'.factor /\ Sound(r, market'.factor)
            BY <2>1, <2>2, <2>11, MarketTyped
        <3>. QED
            BY <2>1, <2>2, <2>10, <3>1, OneCallChanges
    <2>13. cached' \in Wad..MaxFactor /\ cached' <= market.factor
        BY <2>1, ServedTyped
    <2>14. TypeOK' /\ FactorInv'
        BY <2>1, <2>2, <2>12, <2>13 DEF TypeOK, FactorInv
    <2>15. ClampCovers'
        <3>1. SharesOf(position') = seen
            BY <2>1 DEF SharesOf, seen
        <3>2. ASSUME NEW d \in Calls, call'[d].pc = "signed",
                     call'[d].method = "withdrawByUsdc", d \notin shrunk'
              PROVE  call'[d].shares > 0 /\ call'[d].shares <= seen
            <4>1. CASE d = c
                <5>1. call'[d] = r
                    BY <2>1, <2>2, <4>1 DEF TypeOK
                <5>. QED
                    BY <2>6, <2>9, <5>1
            <4>2. CASE d # c
                <5>1. call'[d] = call[d] /\ d \notin shrunk
                    BY <2>1, <2>2, <3>2, <4>2 DEF TypeOK
                <5>. QED
                    BY <2>2, <3>2, <5>1 DEF ClampCovers, seen
            <4>. QED
                BY <4>1, <4>2
        <3>. QED
            BY <3>1, <3>2 DEF ClampCovers
    <2>. QED
        BY <2>12, <2>14, <2>15 DEF IInv
<1>. QED
    BY <1>1, <1>2

\* An instruction changes the position, accrues, and ends at most the call that
\* it belongs to.
LEMMA InstructionStep ==
    ASSUME IInv, NEW p \in Positions \cup {NoPosition}, position' = p,
           Notice(p) \/ (SharesOf(position) <= SharesOf(p) /\ shrunk' = shrunk),
           market' = Accrued, cached' = cached,
           call' = call \/ \E c \in Calls : call' = [call EXCEPT ![c] = Idle]
    PROVE  IInv'
<1>1. TypeOK /\ CallInv /\ FactorInv /\ ClampCovers
    BY DEF IInv
<1>2. /\ market'.factor \in Nat /\ market.factor <= market'.factor
      /\ market'.factor <= market'.due
      /\ market' \in [due: Wad..MaxFactor, factor: Wad..MaxFactor, matured: BOOLEAN,
                      settlement: 0..Wad]
    BY AccruedTyped, MarketTyped, <1>1
<1>3. call' \in [Calls -> CallRecords] /\ CallInv'
    <2>1. CASE call' = call
        BY <1>1, <1>2, <2>1, NoCallChanges DEF TypeOK
    <2>2. ASSUME NEW c \in Calls, call' = [call EXCEPT ![c] = Idle]
          PROVE  call' \in [Calls -> CallRecords] /\ CallInv'
        BY <1>1, <1>2, <2>2, IdleSound, OneCallChanges
    <2>. QED
        BY <2>1, <2>2
<1>4. shrunk' \subseteq Calls
    BY <1>1 DEF Notice, TypeOK
<1>5. cached' # NoEntry => cached' <= market'.factor
    BY <1>1, <1>2, MarketTyped, NumberAssumption, WadAssumption DEF FactorInv, TypeOK
<1>6. TypeOK' /\ FactorInv'
    BY <1>1, <1>2, <1>3, <1>4, <1>5 DEF TypeOK, FactorInv, Positions
<1>7. ClampCovers'
    <2>1. ASSUME NEW d \in Calls, call'[d].pc = "signed",
                 call'[d].method = "withdrawByUsdc", d \notin shrunk'
          PROVE  call'[d].shares > 0 /\ call'[d].shares <= SharesOf(p)
        <3>1. call'[d] = call[d]
            <4>1. Idle.pc # "signed"
                BY DEF Idle, Record
            <4>. QED
                BY <1>1, <2>1, <4>1 DEF TypeOK
        <3>2. SharesOf(position) \in Nat /\ SharesOf(p) \in Nat /\ call[d].shares \in Nat
            BY <1>1, PositionOrNone DEF TypeOK, Positions, CallRecords
        <3>3. SharesOf(position) <= SharesOf(p) /\ d \notin shrunk
            BY <2>1, <3>1, <3>2 DEF Notice
        <3>4. call[d].shares > 0 /\ call[d].shares <= SharesOf(position)
            BY <1>1, <2>1, <3>1, <3>3 DEF ClampCovers
        <3>. QED
            BY <3>1, <3>2, <3>3, <3>4
    <2>. QED
        BY <2>1 DEF ClampCovers, SharesOf
<1>. QED
    BY <1>3, <1>6, <1>7 DEF IInv

LEMMA LandStep ==
    ASSUME IInv, NEW c \in Calls, Land(c)
    PROVE  IInv'
<1>1. PICK p \in Outcomes(c) : position' = p /\ Notice(p)
    BY DEF Land
<1>2. p \in Positions \cup {NoPosition}
    BY OutcomesTyped DEF IInv
<1>. QED
    BY <1>1, <1>2, InstructionStep DEF Land

LEMMA DepositStep ==
    ASSUME IInv, NEW amount \in Amounts, Deposit(amount)
    PROVE  IInv'
<1>. DEFINE minted == CalculateScaledAmount(amount, market.due)
            p == IF position = NoPosition THEN [shares |-> minted, owed |-> 0]
                 ELSE [position EXCEPT !.shares = @ + minted]
<1>1. position' = p /\ market' = Accrued /\ UNCHANGED <<cached, call, shrunk>>
    BY DEF Deposit
<1>2. minted \in Nat
    <2>1. amount \in Nat /\ market.due \in Nat \ {0}
        BY NumberAssumption, WadAssumption, MarketTyped DEF IInv
    <2>. QED
        BY <2>1, ScaledBounds
<1>. HIDE DEF minted
<1>3. position \in Positions \cup {NoPosition}
    BY DEF IInv, TypeOK, Positions
<1>4. p \in Positions /\ SharesOf(position) <= p.shares
    <2>1. CASE position = NoPosition
        BY <1>2, <2>1 DEF Positions, SharesOf
    <2>2. CASE position # NoPosition
        <3>1. position \in Positions /\ SharesOf(position) = position.shares
            BY <1>3, <2>2, PositionOrNone
        <3>2. p = [position EXCEPT !.shares = position.shares + minted]
            BY <2>2
        <3>. QED
            BY <1>2, <3>1, <3>2 DEF Positions
    <2>. QED
        BY <2>1, <2>2
<1>. HIDE DEF p
<1>5. SharesOf(p) = p.shares
    BY <1>4, RecordIsNotNone
<1>. QED
    BY <1>1, <1>4, <1>5, InstructionStep

LEMMA ForceCloseStep ==
    ASSUME IInv, ForceClose
    PROVE  IInv'
<1>1. position \in Positions /\ SharesOf(position) = position.shares
    BY PositionOrNone DEF IInv, TypeOK, ForceClose, Positions
<1>2. position.shares \in 0..position.shares
    BY <1>1 DEF Positions
<1>3. Burn(position, position.shares) \in Positions
    BY <1>1, <1>2, BurnEffect DEF IInv
<1>. QED
    BY <1>3, InstructionStep DEF ForceClose

\* Time and other users: only the market moves, and factors only grow.
LEMMA MarketStep ==
    ASSUME IInv, Earn \/ Accrue \/ Mature \/ Settle
    PROVE  IInv'
<1>1. TypeOK /\ CallInv /\ FactorInv /\ ClampCovers
    BY DEF IInv
<1>2. /\ market' \in [due: Wad..MaxFactor, factor: Wad..MaxFactor, matured: BOOLEAN,
                      settlement: 0..Wad]
      /\ market.factor <= market'.factor /\ market'.factor <= market'.due
      /\ UNCHANGED <<position, cached, call, shrunk>>
    <2>1. CASE Earn
        <3>1. market.due + 1 \in Wad..MaxFactor /\ market.factor <= market.due + 1
            BY <1>1, <2>1, MarketTyped, NumberAssumption, WadAssumption DEF Earn, FactorInv
        <3>2. market' = [market EXCEPT !.due = market.due + 1]
            BY <2>1 DEF Earn
        <3>. QED
            BY <1>1, <2>1, <3>1, <3>2, MarketTyped DEF Earn, TypeOK
    <2>2. CASE Accrue
        <3>1. market' = Accrued /\ UNCHANGED <<position, cached, call, shrunk>>
            BY <2>2 DEF Accrue
        <3>2. market.due \in Nat
            BY <1>1, MarketTyped
        <3>. QED
            BY <3>1, <3>2, AccruedTyped
    <2>3. CASE Mature
        <3>1. /\ market' = [market EXCEPT !.matured = TRUE]
              /\ UNCHANGED <<position, cached, call, shrunk>>
            BY <2>3 DEF Mature
        <3>2. market.factor <= market.factor /\ market.factor <= market.due
            BY <1>1, MarketTyped DEF FactorInv
        <3>. QED
            BY <1>1, <3>1, <3>2 DEF TypeOK
    <2>4. CASE Settle
        <3>1. PICK s \in market.settlement + 1..Wad : market' = [Accrued EXCEPT !.settlement = s]
            BY <2>4 DEF Settle
        <3>2. s \in 0..Wad
            BY <1>1, <3>1, MarketTyped, NumberAssumption, WadAssumption
        <3>. QED
            BY <1>1, <2>4, <3>1, <3>2, AccruedTyped, MarketTyped DEF Settle
    <2>. QED
        BY <2>1, <2>2, <2>3, <2>4
<1>3. market'.factor \in Nat
    BY <1>2, NumberAssumption, WadAssumption
<1>4. CallInv'
    BY <1>1, <1>2, <1>3, NoCallChanges
<1>5. cached' # NoEntry => cached' <= market'.factor
    BY <1>1, <1>2, <1>3, MarketTyped, NumberAssumption, WadAssumption DEF FactorInv, TypeOK
<1>6. TypeOK' /\ FactorInv'
    BY <1>1, <1>2, <1>5 DEF TypeOK, FactorInv
<1>7. ClampCovers'
    BY <1>1, <1>2 DEF ClampCovers, SharesOf
<1>. QED
    BY <1>4, <1>6, <1>7 DEF IInv

LEMMA InvInit == Init => IInv
<1>. SUFFICES ASSUME Init PROVE IInv
    OBVIOUS
<1>1. TypeOK
    BY NumberAssumption, WadAssumption, IdleSound DEF Init, TypeOK
<1>2. FactorInv
    BY NumberAssumption, WadAssumption DEF Init, FactorInv
<1>3. CallInv
    BY IdleSound DEF Init, CallInv
<1>4. ClampCovers
    BY DEF Init, ClampCovers, Idle, Record
<1>. QED
    BY <1>1, <1>2, <1>3, <1>4 DEF IInv

LEMMA InvNext == IInv /\ [Next]_vars => IInv'
<1>. SUFFICES ASSUME IInv, [Next]_vars PROVE IInv'
    OBVIOUS
<1>1. ASSUME NEW c \in Calls, ClientStep(c) PROVE IInv'
    <2>1. CASE \E usdc \in Amounts : WithdrawByUsdc(c, usdc)
        BY <2>1, WithdrawByUsdcStep
    <2>2. CASE MarketRead(c)
        BY <2>2, MarketReadStep
    <2>3. CASE PositionRead(c)
        BY <2>3, PositionReadStep
    <2>4. CASE ReadFails(c) \/ Lost(c)
        BY <2>4, GiveUpStep DEF ReadFails, Lost
    <2>5. CASE \E shares \in ShareInputs : Withdraw(c, shares)
        BY <2>5, BuildStep, NumberAssumption, WadAssumption DEF Withdraw, Methods
    <2>6. CASE WithdrawAndClose(c)
        BY <2>6, BuildStep DEF WithdrawAndClose, Methods
    <2>7. CASE ClaimHaircut(c)
        BY <2>7, BuildStep DEF ClaimHaircut, Methods
    <2>8. CASE CloseLenderPosition(c)
        BY <2>8, BuildStep DEF CloseLenderPosition, Methods
    <2>9. CASE Land(c)
        BY <2>9, LandStep
    <2>. QED
        BY <1>1, <2>1, <2>2, <2>3, <2>4, <2>5, <2>6, <2>7, <2>8, <2>9 DEF ClientStep
<1>2. ASSUME NEW amount \in Amounts, Deposit(amount) PROVE IInv'
    BY <1>2, DepositStep
<1>3. CASE ForceClose
    BY <1>3, ForceCloseStep
<1>4. CASE Earn \/ Accrue \/ Mature \/ Settle
    BY <1>4, MarketStep
<1>5. CASE UNCHANGED vars
    BY <1>5 DEF vars, IInv, TypeOK, FactorInv, CallInv, ClampCovers, SharesOf
<1>. QED
    BY <1>1, <1>2, <1>3, <1>4, <1>5 DEF Next

\* The invariant holds throughout.
LEMMA InvAlways == Spec => []IInv
    BY InvInit, InvNext, PTL DEF Spec

-----------------------------------------------------------------------------
(* The theorems.                                                           *)

\* Types.
THEOREM TypeCorrect == Spec => []TypeOK
    BY InvAlways, PTL DEF IInv

\* What withdrawByUsdc has built exceeds the position only if the position has
\* lost shares since the balance was read.
THEOREM ClampAlwaysCovers == Spec => []ClampCovers
    BY InvAlways, PTL DEF IInv

\* Converting every share at the factor that is due is worth something.
LEMMA WorthSomething ==
    ASSUME TypeOK, NEW n \in Nat \ {0}
    PROVE  CalculateNormalizedAmount(n, market.due) > 0
<1>. DEFINE full == CalculateNormalizedAmount(n, market.due)
<1>1. full \in Nat /\ n * market.due < full * Wad + Wad
    BY MarketTyped, NormalizedBounds
<1>. HIDE DEF full
<1>2. Wad \in Nat \ {0} /\ market.due \in Nat /\ Wad <= market.due
    BY NumberAssumption, WadAssumption, MarketTyped
<1>3. 1 * market.due <= n * market.due /\ n * market.due \in Nat
    BY <1>2, ProductMonotone, ProductInNat
<1>4. full # 0
    BY <1>1, <1>2, <1>3, SMT
<1>. QED
    BY <1>1, <1>4 DEF full

\* A pending withdrawAndClose empties and closes a position with shares on a
\* market that pays in full, whatever happened to the shares since it was built.
THEOREM FullExitAlways == Spec => []FullExitWhenFunded
<1>1. ASSUME IInv PROVE FullExitWhenFunded
    <2>1. SUFFICES ASSUME NEW c \in Calls,
                          call[c].pc = "signed", call[c].method = "withdrawAndClose",
                          market.settlement = Wad,
                          SharesOf(position) > 0, position.owed = 0
                   PROVE  Outcomes(c) = {NoPosition}
        BY DEF FullExitWhenFunded
    <2>2. TypeOK /\ call[c].shares = 0
        BY <1>1, <2>1 DEF IInv, CallInv, Sound
    <2>3. position \in Positions /\ SharesOf(position) = position.shares
        BY <2>1, <2>2, PositionOrNone DEF TypeOK, Positions
    <2>. DEFINE n == position.shares
                q == Burn(position, n)
    <2>4. n \in Nat \ {0} /\ n \in 0..n
        BY <2>1, <2>3 DEF Positions
    <2>5. CalculateSettlementPayout(n, market.due, market.settlement) > 0
        BY <2>1, <2>2, <2>4, MarketTyped, PayoutBounds, WorthSomething
    <2>6. AfterWithdraw(position, 0) = {q}
        BY <2>3, <2>4, <2>5 DEF AfterWithdraw
    <2>7. q \in Positions /\ q.shares = n - n /\ q.owed = 0
        BY <2>1, <2>2, <2>3, <2>4, BurnEffect
    <2>. HIDE DEF q
    <2>8. AfterClose(q) = {NoPosition}
        <3>1. q # NoPosition /\ q.shares = 0
            BY <2>4, <2>7, RecordIsNotNone
        <3>. QED
            BY <2>7, <3>1 DEF AfterClose
    <2>9. Outcomes(c) = UNION {AfterClose(p) : p \in AfterWithdraw(position, 0)}
        BY <2>1, <2>2, Zenon DEF Outcomes
    <2>10. {AfterClose(p) : p \in {q}} = {AfterClose(q)}
        OBVIOUS
    <2>. QED
        BY <2>6, <2>8, <2>9, <2>10
<1>. QED
    BY <1>1, InvAlways, PTL

\* What the landing of a withdrawByUsdc burns is what it was built with.
LEMMA LandingBurns ==
    ASSUME IInv, [Next]_vars, NEW c \in Calls, UsdcLands(c)
    PROVE  /\ Burnt = call[c].shares
           /\ Built(call[c], market.factor)
           /\ market' = Accrued
           /\ call[c] \in CallRecords
<1>1. TypeOK /\ CallInv /\ call[c] \in CallRecords
    BY DEF IInv, TypeOK
<1>2. Built(call[c], market.factor)
    BY <1>1 DEF CallInv, Sound, UsdcLands
<1>3. call' # call /\ position' # position
    BY DEF UsdcLands, Idle, Record
<1>4. PICK d \in Calls : Land(d)
    <2>1. ASSUME NEW d \in Calls, ClientStep(d) PROVE Land(d)
        BY <1>3, <2>1 DEF ClientStep, WithdrawByUsdc, MarketRead, PositionRead, ReadFails,
            Withdraw, WithdrawAndClose, ClaimHaircut, CloseLenderPosition, Build, Lost
    <2>2. ~(\E amount \in Amounts : Deposit(amount))
        BY <1>3 DEF Deposit
    <2>3. ~(ForceClose \/ Earn \/ Accrue \/ Mature \/ Settle \/ UNCHANGED vars)
        BY <1>3 DEF ForceClose, Earn, Accrue, Mature, Settle, vars
    <2>. QED
        BY <2>1, <2>2, <2>3 DEF Next
<1>5. d = c
    BY <1>1, <1>4 DEF Land, TypeOK, UsdcLands, Idle, Record
<1>6. PICK q \in Outcomes(c) : position' = q
    BY <1>4, <1>5 DEF Land
<1>7. Outcomes(c) = AfterWithdraw(position, call[c].shares)
    BY Zenon DEF Outcomes, UsdcLands
<1>8. position \in Positions \cup {NoPosition} /\ call[c].shares \in Nat /\ call[c].shares # 0
    BY <1>1, <1>2 DEF TypeOK, Positions, CallRecords, Built
<1>9. /\ position \in Positions /\ position' \in Positions
      /\ call[c].shares <= position.shares
      /\ position'.shares = position.shares - call[c].shares
    BY <1>1, <1>6, <1>7, <1>8, WithdrawEffect
<1>10. SharesOf(position) = position.shares /\ SharesOf(position') = position'.shares
    BY <1>9, RecordIsNotNone
<1>. QED
    BY <1>1, <1>2, <1>4, <1>5, <1>8, <1>9, <1>10 DEF Burnt, Land, Positions

\* A landed withdrawByUsdc burns its amount's worth of shares at the factor of the
\* conversion, rounded down, or the balance it was clamped to, and is never taken
\* for a full withdrawal.
THEOREM BurnsAlwaysAsAsked == Spec => BurnsWhatWasAsked
<1>1. ASSUME IInv, [Next]_vars, NEW c \in Calls, UsdcLands(c)
      PROVE  /\ Burnt * call[c].used <= call[c].usdc * Wad
             /\ \/ Burnt = call[c].seen
                \/ (Burnt + 1) * call[c].used > call[c].usdc * Wad
    BY <1>1, LandingBurns DEF Built
<1>2. IInv /\ [Next]_vars =>
        [\A c \in Calls : UsdcLands(c) =>
            /\ Burnt * call[c].used <= call[c].usdc * Wad
            /\ \/ Burnt = call[c].seen
               \/ (Burnt + 1) * call[c].used > call[c].usdc * Wad]_vars
    BY <1>1
<1>. QED
    BY <1>2, InvAlways, PTL DEF Spec, BurnsWhatWasAsked

\* The tokens that a number of shares pays, against the amount that they were
\* converted from at a factor which is no larger than the one that pays.
LEMMA PaidAgainstAsked ==
    ASSUME NEW burnt \in Nat, NEW usdc \in Nat, NEW used \in Nat \ {0}, NEW due \in Nat,
           used <= due,
           burnt * used <= usdc * Wad
    PROVE  LET paid == CalculateNormalizedAmount(burnt, due)
           IN  /\ paid * used <= usdc * due
               /\ (burnt + 1) * used > usdc * Wad
                    => (usdc - paid) * Wad <= used + Wad - 2
<1>. DEFINE paid == CalculateNormalizedAmount(burnt, due)
<1>1. paid \in Nat /\ paid * Wad <= burnt * due /\ burnt * due < paid * Wad + Wad
    BY NormalizedBounds
<1>. HIDE DEF paid
<1>2. Wad \in Nat \ {0}
    BY NumberAssumption, WadAssumption
<1>3. paid * used <= usdc * due
    <2>. DEFINE x == paid * used
                y == usdc * due
    <2>1. x \in Nat /\ y \in Nat
        BY <1>1, ProductInNat
    <2>2. x * Wad = (paid * Wad) * used /\ y * Wad = (usdc * Wad) * due
        BY <1>1, <1>2, SMT
    <2>3. (paid * Wad) * used <= (burnt * due) * used
        <3>1. paid * Wad \in Nat /\ burnt * due \in Nat
            BY <1>1, <1>2, ProductInNat
        <3>. QED
            BY <1>1, <3>1, ProductMonotone
    <2>4. (burnt * used) * due <= (usdc * Wad) * due
        <3>1. burnt * used \in Nat /\ usdc * Wad \in Nat
            BY <1>2, ProductInNat
        <3>. QED
            BY <3>1, ProductMonotone
    <2>5. (burnt * due) * used = (burnt * used) * due
        BY SMT
    <2>6. x * Wad <= y * Wad
        <3>1. /\ x * Wad \in Nat /\ y * Wad \in Nat
              /\ (burnt * due) * used \in Nat
            BY <1>2, <2>1, ProductInNat
        <3>. QED
            BY <2>2, <2>3, <2>4, <2>5, <3>1
    <2>. HIDE DEF x, y
    <2>7. x <= y
        BY <1>2, <2>1, <2>6, SMT
    <2>. QED
        BY <2>7 DEF x, y
<1>4. ASSUME (burnt + 1) * used > usdc * Wad
      PROVE  (usdc - paid) * Wad <= used + Wad - 2
    <2>1. burnt * used <= burnt * due
        BY ProductMonotone
    <2>2. (burnt + 1) * used = burnt * used + used
        BY SMT
    <2>3. (usdc - paid) * Wad = usdc * Wad - paid * Wad
        BY <1>1, <1>2, SMT
    <2>4. /\ burnt * used \in Nat /\ burnt * due \in Nat
          /\ usdc * Wad \in Nat /\ paid * Wad \in Nat
        BY <1>1, <1>2, ProductInNat
    <2>. QED
        BY <1>1, <1>2, <1>4, <2>1, <2>2, <2>3, <2>4
<1>. QED
    BY <1>3, <1>4 DEF paid

\* On a fully funded market a landed withdrawByUsdc pays its amount, less at most
\* one share and a rounding unless it was clamped, and more only by the interest
\* that the factor of the conversion did not include.
THEOREM PaysItsTarget == Spec => PaysTheTarget
<1>1. ASSUME IInv, [Next]_vars, NEW c \in Calls, UsdcLands(c), market.settlement = Wad
      PROVE  LET paid == CalculateSettlementPayout(Burnt, market.due, Wad)
             IN  /\ paid * call[c].used <= call[c].usdc * market.due
                 /\ \/ Burnt = call[c].seen
                    \/ (call[c].usdc - paid) * Wad <= call[c].used + Wad - 2
    <2>1. /\ Burnt = call[c].shares
          /\ Built(call[c], market.factor)
          /\ call[c] \in CallRecords
        BY <1>1, LandingBurns
    <2>2. TypeOK /\ market.factor <= market.due
        BY <1>1 DEF IInv, FactorInv
    <2>3. /\ Burnt \in Nat /\ call[c].usdc \in Nat
          /\ call[c].used \in Nat \ {0} /\ market.due \in Nat
          /\ call[c].used <= market.due
        BY <2>1, <2>2, MarketTyped, NumberAssumption, WadAssumption DEF Built, CallRecords
    <2>4. CalculateSettlementPayout(Burnt, market.due, Wad)
            = CalculateNormalizedAmount(Burnt, market.due)
        <3>. HIDE DEF Burnt
        <3>1. Wad \in 0..Wad
            BY NumberAssumption, WadAssumption
        <3>. QED
            BY <2>3, <3>1, PayoutBounds
    <2>5. /\ Burnt * call[c].used <= call[c].usdc * Wad
          /\ \/ Burnt = call[c].seen
             \/ (Burnt + 1) * call[c].used > call[c].usdc * Wad
        BY <2>1 DEF Built
    <2>. HIDE DEF Burnt
    <2>. QED
        BY <2>3, <2>4, <2>5, PaidAgainstAsked
<1>2. IInv /\ [Next]_vars =>
        [\A c \in Calls : UsdcLands(c) /\ market.settlement = Wad =>
            LET paid == CalculateSettlementPayout(Burnt, market.due, Wad)
            IN  /\ paid * call[c].used <= call[c].usdc * market.due
                /\ \/ Burnt = call[c].seen
                   \/ (call[c].usdc - paid) * Wad <= call[c].used + Wad - 2]_vars
    BY <1>1
<1>. QED
    BY <1>2, InvAlways, PTL DEF Spec, PaysTheTarget
=============================================================================
