------------------------------ MODULE FreshNonce ------------------------------
(***************************************************************************)
(* createMarketWithFreshNonce and findNextMarketNonce: a borrower's tabs   *)
(* and devices each probe the chain for an unused market nonce, send a     *)
(* create-market transaction for it, and retry once when the chain says    *)
(* that the nonce was taken in between.                                    *)
(*                                                                         *)
(* The probe asks one RPC node, a batch of nonces at a time; the node may  *)
(* lag, and each batch is an await.  The transaction goes through the      *)
(* application's send callback, whose node may be ahead of the probe's,    *)
(* and which may reject although the transaction lands.                    *)
(***************************************************************************)
EXTENDS Integers, Sequences

CONSTANTS
    Callers,    \* calls of createMarketWithFreshNonce for one borrower
    Nobody,     \* no market has the nonce
    Earlier,    \* the market of the nonce is older than the calls
    NonceEnd,   \* NONCE_SPACE_END
    BatchSize,  \* options.batchSize
    MaxProbe,   \* options.maxProbe
    MinNonce,   \* options.minNonce
    Existing,   \* nonces whose markets are older than the calls
    Dusted      \* nonces whose address holds lamports but no market

ASSUME ProbeAssumption ==
    /\ {NonceEnd, BatchSize, MaxProbe} \subseteq Nat \ {0}
    /\ MinNonce \in 0..NonceEnd - 1
    /\ Existing \subseteq 0..NonceEnd - 1
    /\ Dusted \subseteq 0..NonceEnd - 1
ASSUME NamesAssumption == Nobody # Earlier /\ {Nobody, Earlier} \cap Callers = {}

VARIABLES
    market, \* who opened the market of each nonce
    call,   \* where each call stands
    tx      \* what the chain made of the transactions each call has sent

vars == <<market, call, tx>>

-----------------------------------------------------------------------------
Nonces == 0..NonceEnd - 1
Lesser(a, b) == IF a < b THEN a ELSE b
Greater(a, b) == IF a > b THEN a ELSE b

Taken == {n \in Nonces : market[n] # Nobody}

\* tried holds the nonces of the transactions sent so far, floor the minNonce of
\* the probe that runs or ran last, start the first nonce of its next batch.
Calls == [pc: {"probing", "sending", "signature", "error"},
          tried: Seq(Nonces), floor: 0..NonceEnd, start: Nat]
Fates == {"inflight", "opened", "collided", "rolledback"}

\* Mutant: the window runs past the nonce space.
UnclampedEnd(floor) == floor + MaxProbe

ProbeEnd(floor) == Lesser(floor + MaxProbe, NonceEnd)
Batch(c) == call[c].start..Lesser(call[c].start + BatchSize, ProbeEnd(call[c].floor)) - 1

\* What getMultipleAccountsInfo says of an address: no account, one that holds
\* lamports only and is system-owned, or a market, if the node has seen it.
Account(n, seen) ==
    IF n \in seen THEN "market" ELSE IF n \in Dusted THEN "system" ELSE "null"

\* Mutant: any account occupies its slot.
FreeIfNull(n, seen) == Account(n, seen) = "null"

Free(n, seen) == Account(n, seen) # "market"

\* An error as parseCoalescefiError reads it: a custom code, and the programs
\* that the logs in it blame, none when it carries no logs.
MarketAlreadyExists == 4
Error(code, blamed) == [code |-> code, blamed |-> blamed]
OtherError == Error(0, {})

\* Mutant: every failed send is worth another nonce.
AnyError(error) == error.code \in {0, MarketAlreadyExists}

\* parsed.code = MarketAlreadyExists, with the programId option.
Collision(error) ==
    /\ error.code = MarketAlreadyExists
    /\ error.blamed = {} \/ "coalesce" \in error.blamed

\* The last transaction of a call.
Fate(c) == tx[c][Len(tx[c])]

-----------------------------------------------------------------------------
Init ==
    /\ market = [n \in Nonces |-> IF n \in Existing THEN Earlier ELSE Nobody]
    /\ call = [c \in Callers |->
            [pc |-> "probing", tried |-> <<>>, floor |-> MinNonce, start |-> MinNonce]]
    /\ tx = [c \in Callers |-> <<>>]

End(c, pc) == call' = [call EXCEPT ![c].pc = pc]

\* One batch is answered from what the node has seen of the markets.
ProbeBatch(c) ==
    /\ call[c].pc = "probing"
    /\ call[c].start < ProbeEnd(call[c].floor)
    /\ \E seen \in SUBSET Taken :
        LET free == {n \in Batch(c) : Free(n, seen)}
        IN  \/ /\ free = {}
               /\ call' = [call EXCEPT ![c].start = @ + BatchSize]
               /\ UNCHANGED tx
            \/ \E n \in free :
                /\ \A m \in free : n <= m
                /\ call' = [call EXCEPT ![c].pc = "sending", ![c].tried = Append(@, n)]
                /\ tx' = [tx EXCEPT ![c] = Append(@, "inflight")]
    /\ UNCHANGED market

\* Mutant: an exhausted window is probed again.
ProbeAgain(c) ==
    /\ call[c].pc = "probing"
    /\ call[c].start >= ProbeEnd(call[c].floor)
    /\ call' = [call EXCEPT ![c].start = call[c].floor]
    /\ UNCHANGED <<market, tx>>

\* The window holds no free nonce, or the floor is outside the nonce space.
ProbeExhausted(c) ==
    /\ call[c].pc = "probing"
    /\ call[c].start >= ProbeEnd(call[c].floor)
    /\ End(c, "error")
    /\ UNCHANGED <<market, tx>>

\* withRetry gave up on the node.
ProbeFails(c) ==
    /\ call[c].pc = "probing"
    /\ End(c, "error")
    /\ UNCHANGED <<market, tx>>

SendResolves(c) ==
    /\ call[c].pc = "sending"
    /\ Fate(c) = "opened"
    /\ End(c, "signature")
    /\ UNCHANGED <<market, tx>>

\* What send may reject with.  The code of the program comes with or without
\* logs; a rollback is another instruction's failure, which may carry the same
\* code; anything can end in an error that names no code.
Rejections(c) ==
    {OtherError}
    \cup (IF Fate(c) = "collided"
          THEN {Error(MarketAlreadyExists, b) : b \in {{}, {"coalesce"}}} ELSE {})
    \cup (IF Fate(c) = "rolledback"
          THEN {Error(MarketAlreadyExists, b) : b \in {{}, {"foreign"}}} ELSE {})

\* Mutant: the retry probes from the nonce that collided.
FloorAtCollision(c) == Greater(MinNonce, call[c].tried[1])

RetryFloor(c) == Greater(MinNonce, call[c].tried[1] + 1)

SendRejects(c) ==
    /\ call[c].pc = "sending"
    /\ \E error \in Rejections(c) :
        \/ /\ Len(call[c].tried) = 1
           /\ Collision(error)
           /\ call' = [call EXCEPT ![c].pc = "probing",
                                   ![c].floor = RetryFloor(c), ![c].start = RetryFloor(c)]
        \/ /\ Len(call[c].tried) = 2 \/ ~Collision(error)
           /\ End(c, "error")
    /\ UNCHANGED <<market, tx>>

-----------------------------------------------------------------------------
\* The program executes a transaction, in one step with the rest of it.
Land(c, i) ==
    /\ tx[c][i] = "inflight"
    /\ LET n == call[c].tried[i]
       IN  \/ /\ market[n] = Nobody
              /\ market' = [market EXCEPT ![n] = c]
              /\ tx' = [tx EXCEPT ![c][i] = "opened"]
           \/ /\ market[n] # Nobody
              /\ tx' = [tx EXCEPT ![c][i] = "collided"]
              /\ UNCHANGED market
           \/ /\ tx' = [tx EXCEPT ![c][i] = "rolledback"]
              /\ UNCHANGED market
    /\ UNCHANGED call

CallStep(c) ==
    \/ ProbeBatch(c)
    \/ ProbeExhausted(c)
    \/ ProbeFails(c)
    \/ SendResolves(c)
    \/ SendRejects(c)

Next == \E c \in Callers : CallStep(c) \/ \E i \in DOMAIN tx[c] : Land(c, i)

Spec == Init /\ [][Next]_vars

\* Each await of a call settles: the RPC answers, and the application's send
\* resolves or rejects.  Nothing makes an RPC fail or a transaction land.
Progress(c) == ProbeBatch(c) \/ ProbeExhausted(c) \/ SendResolves(c) \/ SendRejects(c)

FairSpec == Spec /\ \A c \in Callers : WF_vars(Progress(c))

-----------------------------------------------------------------------------
(***************************************************************************)
(* Properties.                                                             *)
(***************************************************************************)

\* Every variable has its type, a call has sent at most two transactions, and
\* each of them has a fate.
TypeOK ==
    /\ market \in [Nonces -> Callers \cup {Nobody, Earlier}]
    /\ call \in [Callers -> Calls]
    /\ tx \in [Callers -> Seq(Fates)]
    /\ \A c \in Callers : Len(tx[c]) = Len(call[c].tried) /\ Len(tx[c]) <= 2

\* A nonce that a probe has passed over belongs to a market: a lagging node, a
\* batch boundary or dust on an address never make it skip a usable nonce, so a
\* call that reports no free nonce has none in its window (findNextMarketNonce).
SkipsOnlyMarkets ==
    \A c \in Callers :
        LET passed == IF call[c].pc = "sending"
                      THEN call[c].floor..call[c].tried[Len(call[c].tried)] - 1
                      ELSE call[c].floor..Lesser(call[c].start, ProbeEnd(call[c].floor)) - 1
        IN passed \subseteq Taken

\* The second transaction of a call never repeats the nonce that collided, even
\* when the probe's node has not seen the market there, and never goes below
\* options.minNonce (the retry floor of createMarketWithFreshNonce).
RetryMovesOn ==
    \A c \in Callers :
        /\ \A i \in DOMAIN call[c].tried : call[c].tried[i] >= MinNonce
        /\ Len(call[c].tried) = 2 => call[c].tried[2] > call[c].tried[1]

Promise == INSTANCE MarketOpening WITH
    outcome <- [c \in Callers |->
        IF call[c].pc \in {"signature", "error"} THEN call[c].pc ELSE "running"]

\* One call opens at most one market and returns a signature only when it did,
\* although send may reject with a transaction that has landed or still will:
\* only a rejection that proves the first transaction void leads to a second.
OpensAtMostOne == Promise!Spec

\* Every call returns or throws.
CallsEnd == \A c \in Callers : <>(call[c].pc \in {"signature", "error"})
=============================================================================
