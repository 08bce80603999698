----------------------------- MODULE Idempotency -----------------------------
(***************************************************************************)
(* IdempotencyManager.executeOnce: the client-side record of transactions  *)
(* sent under an idempotency key, kept in a storage that callers share, so *)
(* that a retry of the same intent does not run its operation twice.       *)
(*                                                                         *)
(* One call is split at its two awaits: the status query and the operation *)
(* itself.  Between them other calls, other tabs, the clock and the chain  *)
(* take steps.  The operation is supplied by the application: it signs one *)
(* transaction, sends it, and returns its signature or throws.             *)
(***************************************************************************)
EXTENDS Integers

CONSTANTS
    Callers,            \* concurrent executions of executeOnce
    Keys,               \* idempotency keys
    Sigs,               \* signatures the operations may produce
    NoSig,
    NoRecord,           \* storage.getItem returned null
    PendingTimeout,     \* options.pendingTimeout
    CompletedRetention, \* options.completedRetention
    BlockhashLife,      \* how long a sent transaction can still land
    Serialized,         \* TRUE: the application never overlaps calls for one key
    Persistent,         \* TRUE: localStorage; FALSE: MemoryStorage
    OperationTimesOut,  \* TRUE: an operation may throw after it has sent
    MaxTime             \* bound on the clock, for model checking

ASSUME TimesAssumption ==
    /\ PendingTimeout \in Nat \ {0}
    /\ CompletedRetention \in Nat \ {0}
    /\ BlockhashLife \in Nat
    /\ MaxTime \in Nat
ASSUME BlockhashAssumption == BlockhashLife <= PendingTimeout
ASSUME SwitchesAssumption == {Serialized, Persistent, OperationTimesOut} \subseteq BOOLEAN
ASSUME NamesAssumption == NoSig \notin Sigs /\ NoRecord \notin [sig: Sigs, expiresAt: Nat]

VARIABLES
    pending,    \* storage: prefix + key
    completed,  \* storage: prefix + 'completed:' + key
    call,       \* where each caller stands in executeOnce
    tx,         \* the chain's view of every transaction
    guarded,    \* history: until when the manager owes a refusal for a signature
    finished,   \* history: until when a completion that is stored forbids its key
    now         \* Date.now()

vars == <<pending, completed, call, tx, guarded, finished, now>>
storage == <<pending, completed>>

-----------------------------------------------------------------------------
StoredRecord == [sig: Sigs, expiresAt: Nat]

Idle == [pc |-> "idle"]
Calls == {Idle}
    \cup [pc: {"checking"}, key: Keys, seen: StoredRecord]
    \cup [pc: {"executing"}, key: Keys, sig: Sigs \cup {NoSig}]

\* "failing" and "failed" carry an err; they are the processed and the
\* confirmed form of a transaction the program rejected.
TxStatus == {"inflight", "processed", "confirmed", "failing", "failed"}
Unsent == [status |-> "unsent"]
Transactions == {Unsent} \cup [status: TxStatus, key: Keys, sentAt: Nat]

Sent(s) == tx[s] # Unsent
SentFor(s, k) == Sent(s) /\ tx[s].key = k

\* The two fields executeOnce reads in an answer of getSignatureStatus:
\* confirmationStatus confirmed or finalized, and err.
\*
\* Mutant: commitment processed is taken for confirmed.
SettledAtProcessed(reply) == reply \in {"processed", "confirmed", "failed"}

Settled(reply) == reply \in {"confirmed", "failed"}
Errored(reply) == reply \in {"failing", "failed"}

\* A node that has not seen the transaction answers null, as for one in flight.
Replies(s) == {tx[s].status, "inflight"}

\* Mutant: the timeout is subtracted.
DeadlineInThePast(timeout) == now - timeout

Deadline(timeout) == now + timeout

Fresh(store, k) == store[k] # NoRecord /\ now <= store[k].expiresAt

\* getPending and getCompleted remove a record they find expired.
Purged(store, k) == IF Fresh(store, k) THEN store ELSE [store EXCEPT ![k] = NoRecord]

Reported(k) ==
    IF Fresh(pending, k) THEN pending[k].sig
    ELSE IF Fresh(completed, k) THEN completed[k].sig ELSE NoSig

Active(k) == \E c \in Callers : call[c] # Idle /\ call[c].key = k
MayTouch(k) == Serialized => ~Active(k)

-----------------------------------------------------------------------------
Init ==
    /\ pending = [k \in Keys |-> NoRecord]
    /\ completed = [k \in Keys |-> NoRecord]
    /\ call = [c \in Callers |-> Idle]
    /\ tx = [s \in Sigs |-> Unsent]
    /\ guarded = [s \in Sigs |-> 0]
    /\ finished = [s \in Sigs |-> 0]
    /\ now = 0

Return(c) == call' = [call EXCEPT ![c] = Idle]

MarkCompleted(k, s) ==
    /\ pending' = [pending EXCEPT ![k] = NoRecord]
    /\ completed' = [completed EXCEPT
            ![k] = [sig |-> s, expiresAt |-> Deadline(CompletedRetention)]]
    /\ guarded' = [guarded EXCEPT ![s] = Deadline(CompletedRetention)]
    /\ finished' = [finished EXCEPT ![s] = Deadline(CompletedRetention)]

\* Mutant: the completed record is not consulted.
ExecuteUnchecked(c, k) ==
    /\ call' = [call EXCEPT ![c] = [pc |-> "executing", key |-> k, sig |-> NoSig]]
    /\ UNCHANGED completed

\* The tail of executeOnce: refuse a completed key, otherwise call operation().
CheckCompletedThenExecute(c, k) ==
    /\ completed' = Purged(completed, k)
    /\ \/ Fresh(completed, k) /\ Return(c)
       \/ /\ ~Fresh(completed, k)
          /\ call' = [call EXCEPT ![c] = [pc |-> "executing", key |-> k, sig |-> NoSig]]

\* executeOnce up to its first await.
ExecuteOnce(c, k) ==
    /\ call[c] = Idle
    /\ MayTouch(k)
    /\ \/ /\ Fresh(pending, k)
          /\ call' = [call EXCEPT ![c] = [pc |-> "checking", key |-> k, seen |-> pending[k]]]
          /\ UNCHANGED storage
       \/ /\ ~Fresh(pending, k)
          /\ pending' = Purged(pending, k)
          /\ CheckCompletedThenExecute(c, k)
    /\ UNCHANGED <<tx, guarded, finished, now>>

\* Mutant: a null status counts as expired, whatever the record's deadline.
ActOnStatusIgnoringDeadline(c, k, record, reply) ==
    \/ /\ Settled(reply)
       /\ MarkCompleted(k, record.sig)
       /\ Return(c)
    \/ /\ ~Settled(reply)
       /\ pending' = [pending EXCEPT ![k] = NoRecord]
       /\ CheckCompletedThenExecute(c, k)
       /\ UNCHANGED <<guarded, finished>>

\* Mutant: the completed record is looked for before the query only.
ActOnStatusTrustingEarlierCheck(c, k, record, reply) ==
    \/ /\ Settled(reply)
       /\ MarkCompleted(k, record.sig)
       /\ Return(c)
    \/ /\ ~Settled(reply)
       /\ ~Errored(reply)
       /\ now < record.expiresAt
       /\ Return(c)
       /\ UNCHANGED <<pending, completed, guarded, finished>>
    \/ /\ ~Settled(reply)
       /\ Errored(reply) \/ now >= record.expiresAt
       /\ pending' = [pending EXCEPT ![k] = NoRecord]
       /\ ExecuteUnchecked(c, k)
       /\ UNCHANGED <<guarded, finished>>

\* What executeOnce does with a status, given the record it read before asking.
ActOnStatus(c, k, record, reply) ==
    \/ /\ Settled(reply)
       /\ MarkCompleted(k, record.sig)
       /\ Return(c)
    \/ /\ ~Settled(reply)
       /\ ~Errored(reply)
       /\ now < record.expiresAt
       /\ Return(c)
       /\ UNCHANGED <<pending, completed, guarded, finished>>
    \/ /\ ~Settled(reply)
       /\ Errored(reply) \/ now >= record.expiresAt
       /\ pending' = [pending EXCEPT ![k] = NoRecord]
       /\ CheckCompletedThenExecute(c, k)
       /\ UNCHANGED <<guarded, finished>>

StatusReply(c) ==
    /\ call[c].pc = "checking"
    /\ \E reply \in Replies(call[c].seen.sig) :
            ActOnStatus(c, call[c].key, call[c].seen, reply)
    /\ UNCHANGED <<tx, now>>

\* getSignatureStatus rejects: executeOnce propagates and has changed nothing.
StatusError(c) ==
    /\ call[c].pc = "checking"
    /\ Return(c)
    /\ UNCHANGED <<pending, completed, tx, guarded, finished, now>>

OperationSends(c) ==
    /\ call[c].pc = "executing" /\ call[c].sig = NoSig
    /\ \E s \in Sigs :
        /\ tx[s] = Unsent
        /\ tx' = [tx EXCEPT ![s] =
                [status |-> "inflight", key |-> call[c].key, sentAt |-> now]]
        /\ call' = [call EXCEPT ![c] =
                [pc |-> "executing", key |-> call[c].key, sig |-> s]]
    /\ UNCHANGED <<pending, completed, guarded, finished, now>>

\* The record is stored only when operation() has returned.
OperationReturns(c) ==
    /\ call[c].pc = "executing" /\ call[c].sig # NoSig
    /\ pending' = [pending EXCEPT ![call[c].key] =
            [sig |-> call[c].sig, expiresAt |-> Deadline(PendingTimeout)]]
    /\ guarded' = [guarded EXCEPT ![call[c].sig] = Deadline(PendingTimeout)]
    /\ Return(c)
    /\ UNCHANGED <<completed, tx, finished, now>>

OperationThrows(c) ==
    /\ call[c].pc = "executing"
    /\ \/ call[c].sig = NoSig
       \/ call[c].sig # NoSig /\ (OperationTimesOut \/ Errored(tx[call[c].sig].status))
    /\ Return(c)
    /\ UNCHANGED <<pending, completed, tx, guarded, finished, now>>

\* isPending, isCompleted and getSignature drop what they find expired.
Query(k) ==
    /\ pending' = Purged(pending, k)
    /\ completed' = Purged(completed, k)
    /\ UNCHANGED <<call, tx, guarded, finished, now>>

\* The application confirmed, or saw fail, the signature the manager reported.
MarkCompletedByHand(k) ==
    /\ MayTouch(k)
    /\ Reported(k) # NoSig
    /\ tx[Reported(k)].status = "confirmed"
    /\ MarkCompleted(k, Reported(k))
    /\ UNCHANGED <<call, tx, now>>

ClearPendingByHand(k) ==
    /\ MayTouch(k)
    /\ pending[k] # NoRecord
    /\ Errored(tx[pending[k].sig].status)
    /\ pending' = [pending EXCEPT ![k] = NoRecord]
    /\ UNCHANGED <<completed, call, tx, guarded, finished, now>>

NothingStored ==
    /\ pending' = [k \in Keys |-> NoRecord]
    /\ completed' = [k \in Keys |-> NoRecord]
    /\ finished' = [s \in Sigs |-> 0]

ClearAll ==
    /\ ~Persistent
    /\ NothingStored
    /\ UNCHANGED <<call, tx, guarded, now>>

\* A tab is closed during a call: localStorage stays, the call is gone.
CloseTab(c) ==
    /\ Persistent
    /\ call[c] # Idle
    /\ Return(c)
    /\ UNCHANGED <<pending, completed, tx, guarded, finished, now>>

\* A process with MemoryStorage restarts and loses both.
RestartProcess ==
    /\ ~Persistent
    /\ NothingStored
    /\ call' = [c \in Callers |-> Idle]
    /\ UNCHANGED <<tx, guarded, now>>

-----------------------------------------------------------------------------
Land(s) ==
    /\ tx[s].status = "inflight"
    /\ now < tx[s].sentAt + BlockhashLife
    /\ \E outcome \in {"processed", "failing"} : tx' = [tx EXCEPT ![s].status = outcome]
    /\ UNCHANGED <<pending, completed, call, guarded, finished, now>>

Confirm(s) ==
    /\ tx[s].status \in {"processed", "failing"}
    /\ tx' = [tx EXCEPT ![s].status =
            IF tx[s].status = "processed" THEN "confirmed" ELSE "failed"]
    /\ UNCHANGED <<pending, completed, call, guarded, finished, now>>

Tick ==
    /\ now < MaxTime
    /\ now' = now + 1
    /\ UNCHANGED <<pending, completed, call, tx, guarded, finished>>

CallerStep(c) ==
    \/ \E k \in Keys : ExecuteOnce(c, k)
    \/ StatusReply(c)
    \/ StatusError(c)
    \/ OperationSends(c)
    \/ OperationReturns(c)
    \/ OperationThrows(c)
    \/ CloseTab(c)

StorageStep ==
    \/ \E k \in Keys : Query(k) \/ MarkCompletedByHand(k) \/ ClearPendingByHand(k)
    \/ ClearAll
    \/ RestartProcess

ChainStep ==
    \/ \E s \in Sigs : Land(s) \/ Confirm(s)
    \/ Tick

Next == (\E c \in Callers : CallerStep(c)) \/ StorageStep \/ ChainStep

Spec == Init /\ [][Next]_vars

-----------------------------------------------------------------------------
(***************************************************************************)
(* Properties.                                                             *)
(***************************************************************************)

\* Every variable has its type: storage holds records or nothing, a call is at
\* one of its two awaits or idle, a transaction is unsent or has a status.
TypeOK ==
    /\ pending \in [Keys -> StoredRecord \cup {NoRecord}]
    /\ completed \in [Keys -> StoredRecord \cup {NoRecord}]
    /\ call \in [Callers -> Calls]
    /\ tx \in [Sigs -> Transactions]
    /\ guarded \in [Sigs -> Nat]
    /\ finished \in [Sigs -> Nat]
    /\ now \in Nat

\* A stored record always names a transaction that was sent under that very
\* key, and a completed one is at confirmed commitment, whoever wrote it and
\* whatever overlapped (executeOnce, markCompleted).
RecordsAreReal ==
    \A k \in Keys :
        /\ pending[k] # NoRecord => SentFor(pending[k].sig, k)
        /\ completed[k] # NoRecord =>
                /\ SentFor(completed[k].sig, k)
                /\ tx[completed[k].sig].status \in {"confirmed", "failed"}

\* While a recorded transaction can still land it is the pending record of its
\* key, so a retry meets it; the 90 s of pendingTimeout outlive the blockhash
\* even though they are counted from the return of operation(), and no other
\* call for the key has replaced or dropped the record.
LiveTransactionIsPending ==
    \A s \in Sigs :
        /\ guarded[s] > 0
        /\ tx[s].status = "inflight"
        /\ now < tx[s].sentAt + BlockhashLife
        => LET record == pending[tx[s].key]
           IN record # NoRecord /\ record.sig = s /\ now < record.expiresAt

Launches(c) == call[c].pc # "executing" /\ call'[c].pc = "executing"

\* executeOnce starts an operation only when each transaction recorded earlier
\* for the key failed on chain or has outlived the refusal owed for it, which
\* is pendingTimeout after it was recorded, or completedRetention after it was
\* marked completed.
NoLaunchInWindow ==
    [][\A c \in Callers : Launches(c) =>
        \A s \in Sigs :
            SentFor(s, call'[c].key) /\ now < guarded[s] => Errored(tx[s].status)]_vars

\* However calls overlap, once a transaction of the key has been marked completed
\* no operation of that key starts within completedRetention, unless the storage
\* is lost: not in a call that had read the pending record before the mark and
\* gets a null status after it, nor when another completion of the key has
\* replaced the record (executeOnce looks for the completed record last).
CompletionIsFinal ==
    [][\A c \in Callers : Launches(c) =>
        \A s \in Sigs :
            SentFor(s, call'[c].key) /\ finished[s] > 0 => now > finished[s]]_vars

-----------------------------------------------------------------------------
(***************************************************************************)
(* What the comments promise and the code does not keep.                   *)
(***************************************************************************)
Succeeded(s) == tx[s].status \in {"processed", "confirmed"}

\* "Transaction succeeded - mark as completed": a completed record names a
\* transaction that succeeded.
CompletedMeansSucceeded ==
    \A k \in Keys : completed[k] # NoRecord => Succeeded(completed[k].sig)

\* "This module provides client-side tracking to prevent such duplicates": at
\* most one transaction of a key succeeds on chain.
AtMostOneSuccess ==
    \A s, t \in Sigs :
        Succeeded(s) /\ Succeeded(t) /\ tx[s].key = tx[t].key => s = t
=============================================================================
