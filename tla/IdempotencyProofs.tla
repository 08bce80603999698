-------------------------- MODULE IdempotencyProofs --------------------------
(***************************************************************************)
(* Proofs about Idempotency for every set of callers, keys and signatures  *)
(* and every timeout.  RecordInv and CompletionInv hold however calls      *)
(* overlap; SerialInv is what an application gains by never overlapping    *)
(* calls for one key over a storage that survives.                         *)
(***************************************************************************)
EXTENDS Idempotency, TLAPS

Checking(c) == call[c].pc = "checking"
Executing(c) == call[c].pc = "executing"

\* Every record, stored or remembered across an await, is one the manager made:
\* a deadline has been owed for its transaction.
RecordedIsGuarded ==
    /\ \A s \in Sigs : guarded[s] > 0 => Sent(s)
    /\ \A k \in Keys :
        /\ pending[k] # NoRecord => guarded[pending[k].sig] > 0
        /\ completed[k] # NoRecord => guarded[completed[k].sig] > 0
    /\ \A c \in Callers : Checking(c) =>
        /\ SentFor(call[c].seen.sig, call[c].key)
        /\ guarded[call[c].seen.sig] > 0

HasSent(c) == Executing(c) /\ call[c].sig # NoSig

\* What a running operation has sent is not recorded yet and is its alone.
OperationsOwnTheirs ==
    /\ \A c \in Callers : HasSent(c) =>
        SentFor(call[c].sig, call[c].key) /\ guarded[call[c].sig] = 0
    /\ \A c, d \in Callers :
        HasSent(c) /\ HasSent(d) /\ call[c].sig = call[d].sig => c = d

RecordInv ==
    /\ TypeOK
    /\ RecordsAreReal
    /\ RecordedIsGuarded
    /\ OperationsOwnTheirs

\* Nothing is owed for this transaction any more: a retry is justified.
Closed(s) == now >= guarded[s] \/ Errored(tx[s].status)

ClosedExcept(k, kept) == \A s \in Sigs : SentFor(s, k) /\ s # kept => Closed(s)

\* The transaction is in storage, with exactly the deadline owed for it.
StoredIn(store, s) == store[tx[s].key] = [sig |-> s, expiresAt |-> guarded[s]]

\* A window that is open is in storage.
OpenIsStored ==
    \A s \in Sigs : Sent(s) =>
        Closed(s) \/ StoredIn(pending, s) \/ StoredIn(completed, s)

\* A window outlives its transaction's blockhash, being counted from no earlier.
WindowCoversBlockhash ==
    /\ \A s \in Sigs : Sent(s) => tx[s].sentAt <= now
    /\ \A s \in Sigs : guarded[s] > 0 /\ tx[s].status = "inflight" =>
            guarded[s] >= tx[s].sentAt + BlockhashLife

\* There is at most one open window per key beside a pending record.
PendingIsLatest ==
    \A k \in Keys : pending[k] # NoRecord =>
        /\ ClosedExcept(k, pending[k].sig)
        /\ pending[k].expiresAt = guarded[pending[k].sig]

CompletedDeadline ==
    \A k \in Keys : completed[k] # NoRecord =>
        completed[k].expiresAt = guarded[completed[k].sig]

OneCallPerKey ==
    \A c, d \in Callers :
        call[c] # Idle /\ call[d] # Idle /\ call[c].key = call[d].key => c = d

\* A call that waits for a status still finds the record it read, or none; one
\* that runs its operation has no window left to respect.
CallsHoldKey ==
    \A c \in Callers :
        /\ Checking(c) =>
            /\ pending[call[c].key] \in {call[c].seen, NoRecord}
            /\ ClosedExcept(call[c].key, call[c].seen.sig)
        /\ Executing(c) => ClosedExcept(call[c].key, NoSig)

WindowInv ==
    OpenIsStored /\ WindowCoversBlockhash /\ PendingIsLatest /\ CompletedDeadline

SerialInv == WindowInv /\ OneCallPerKey /\ CallsHoldKey

-----------------------------------------------------------------------------
USE TimesAssumption, BlockhashAssumption, SwitchesAssumption, NamesAssumption

\* What the program counter of a call says about its other fields.
LEMMA CallShape ==
    ASSUME NEW x \in Calls
    PROVE  /\ x = Idle <=> x.pc = "idle"
           /\ x.pc \in {"idle", "checking", "executing"}
           /\ x.pc = "checking" =>
                /\ x.key \in Keys
                /\ x.seen \in StoredRecord
                /\ x = [pc |-> "checking", key |-> x.key, seen |-> x.seen]
           /\ x.pc = "executing" =>
                /\ x.key \in Keys
                /\ x.sig \in Sigs \cup {NoSig}
                /\ x = [pc |-> "executing", key |-> x.key, sig |-> x.sig]
BY DEF Calls, Idle

\* A transaction has been sent exactly when it has one of the chain's statuses.
LEMMA TransactionShape ==
    ASSUME NEW t \in Transactions
    PROVE  /\ t = Unsent <=> t.status = "unsent"
           /\ t # Unsent =>
                /\ t.status \in TxStatus
                /\ t.key \in Keys
                /\ t.sentAt \in Nat
                /\ t = [status |-> t.status, key |-> t.key, sentAt |-> t.sentAt]
BY DEF Transactions, Unsent, TxStatus

\* Purging a store keeps its type.
LEMMA PurgedType ==
    ASSUME NEW store \in [Keys -> StoredRecord \cup {NoRecord}], NEW k \in Keys
    PROVE  Purged(store, k) \in [Keys -> StoredRecord \cup {NoRecord}]
BY DEF Purged

\* A deadline is a positive instant.
LEMMA DeadlineType ==
    ASSUME TypeOK
    PROVE  /\ Deadline(PendingTimeout) \in Nat /\ Deadline(PendingTimeout) > now
           /\ Deadline(CompletedRetention) \in Nat /\ Deadline(CompletedRetention) > now
BY DEF TypeOK, Deadline

\* Initially every variable has its type.
LEMMA TypeInit == Init => TypeOK
BY DEF Init, TypeOK, Calls, Transactions

\* Every step of callers, application, chain and clock keeps the types.
LEMMA TypeNext == TypeOK /\ [Next]_vars => TypeOK'
<1> SUFFICES ASSUME TypeOK, [Next]_vars PROVE TypeOK'
    OBVIOUS
<1> USE DEF TypeOK
<1>1. ASSUME NEW c \in Callers, Return(c) PROVE call' \in [Callers -> Calls]
    BY <1>1 DEF Return, Calls
<1>2. ASSUME NEW k \in Keys, NEW s \in Sigs, MarkCompleted(k, s)
      PROVE  /\ pending' \in [Keys -> StoredRecord \cup {NoRecord}]
             /\ completed' \in [Keys -> StoredRecord \cup {NoRecord}]
             /\ guarded' \in [Sigs -> Nat]
             /\ finished' \in [Sigs -> Nat]
    BY <1>2, DeadlineType DEF MarkCompleted, StoredRecord
<1>3. ASSUME NEW c \in Callers, NEW k \in Keys, CheckCompletedThenExecute(c, k)
      PROVE  /\ completed' \in [Keys -> StoredRecord \cup {NoRecord}]
             /\ call' \in [Callers -> Calls]
    <2>1. completed' \in [Keys -> StoredRecord \cup {NoRecord}]
        BY <1>3, PurgedType DEF CheckCompletedThenExecute
    <2>2. [pc |-> "executing", key |-> k, sig |-> NoSig] \in Calls
        BY DEF Calls
    <2>3. call' \in [Callers -> Calls]
        BY <1>1, <1>3, <2>2 DEF CheckCompletedThenExecute
    <2> QED BY <2>1, <2>3
<1>4. ASSUME NEW c \in Callers, NEW k \in Keys, ExecuteOnce(c, k) PROVE TypeOK'
    <2>1. CASE Fresh(pending, k) /\ call' = [call EXCEPT
                    ![c] = [pc |-> "checking", key |-> k, seen |-> pending[k]]]
                /\ UNCHANGED storage
        <3>1. pending[k] \in StoredRecord
            BY <2>1 DEF Fresh
        <3>2. [pc |-> "checking", key |-> k, seen |-> pending[k]] \in Calls
            BY <3>1 DEF Calls
        <3> QED BY <1>4, <2>1, <3>2 DEF ExecuteOnce, storage
    <2>2. CASE pending' = Purged(pending, k) /\ CheckCompletedThenExecute(c, k)
        BY <1>3, <1>4, <2>2, PurgedType DEF ExecuteOnce
    <2> QED BY <1>4, <2>1, <2>2 DEF ExecuteOnce
<1>5. ASSUME NEW c \in Callers, StatusReply(c) PROVE TypeOK'
    <2>1. /\ call[c].key \in Keys
          /\ call[c].seen \in StoredRecord
          /\ call[c].seen.sig \in Sigs
        BY <1>5, CallShape DEF StatusReply, StoredRecord
    <2>2. PICK reply \in Replies(call[c].seen.sig) :
                ActOnStatus(c, call[c].key, call[c].seen, reply)
        BY <1>5 DEF StatusReply
    <2>3. CASE MarkCompleted(call[c].key, call[c].seen.sig) /\ Return(c)
        BY <1>1, <1>2, <1>5, <2>1, <2>3 DEF StatusReply
    <2>4. CASE Return(c) /\ UNCHANGED <<pending, completed, guarded, finished>>
        BY <1>1, <1>5, <2>4 DEF StatusReply
    <2>5. CASE /\ pending' = [pending EXCEPT ![call[c].key] = NoRecord]
               /\ CheckCompletedThenExecute(c, call[c].key)
               /\ UNCHANGED <<guarded, finished>>
        BY <1>3, <1>5, <2>1, <2>5 DEF StatusReply
    <2> QED BY <2>2, <2>3, <2>4, <2>5 DEF ActOnStatus
<1>6. ASSUME NEW c \in Callers, OperationSends(c) PROVE TypeOK'
    <2>1. call[c].key \in Keys
        BY <1>6, CallShape DEF OperationSends
    <2>2. PICK s \in Sigs :
            /\ tx' = [tx EXCEPT ![s] =
                    [status |-> "inflight", key |-> call[c].key, sentAt |-> now]]
            /\ call' = [call EXCEPT ![c] =
                    [pc |-> "executing", key |-> call[c].key, sig |-> s]]
        BY <1>6 DEF OperationSends
    <2>3. [status |-> "inflight", key |-> call[c].key, sentAt |-> now] \in Transactions
        BY <2>1 DEF Transactions, TxStatus
    <2>4. [pc |-> "executing", key |-> call[c].key, sig |-> s] \in Calls
        BY <2>1 DEF Calls
    <2> QED BY <1>6, <2>2, <2>3, <2>4 DEF OperationSends
<1>7. ASSUME NEW c \in Callers, OperationReturns(c) PROVE TypeOK'
    <2>1. call[c].sig \in Sigs /\ call[c].key \in Keys
        BY <1>7, CallShape DEF OperationReturns
    <2>2. [sig |-> call[c].sig, expiresAt |-> Deadline(PendingTimeout)] \in StoredRecord
        BY <2>1, DeadlineType DEF StoredRecord
    <2> QED BY <1>1, <1>7, <2>1, <2>2, DeadlineType DEF OperationReturns
<1>8. ASSUME NEW c \in Callers, StatusError(c) \/ OperationThrows(c) \/ CloseTab(c)
      PROVE TypeOK'
    BY <1>1, <1>8 DEF StatusError, OperationThrows, CloseTab
<1>9. ASSUME NEW k \in Keys, Query(k) \/ ClearPendingByHand(k) PROVE TypeOK'
    <2>1. /\ Purged(pending, k) \in [Keys -> StoredRecord \cup {NoRecord}]
          /\ Purged(completed, k) \in [Keys -> StoredRecord \cup {NoRecord}]
        BY PurgedType
    <2>2. CASE Query(k)
        BY <2>1, <2>2 DEF Query
    <2>3. CASE ClearPendingByHand(k)
        BY <2>3 DEF ClearPendingByHand
    <2> QED BY <1>9, <2>2, <2>3
<1>10. ASSUME NEW k \in Keys, MarkCompletedByHand(k) PROVE TypeOK'
    <2>1. Reported(k) \in Sigs
        BY <1>10 DEF MarkCompletedByHand, Reported, Fresh, StoredRecord
    <2> QED BY <1>2, <1>10, <2>1 DEF MarkCompletedByHand
<1>11. ASSUME ClearAll \/ RestartProcess PROVE TypeOK'
    BY <1>11 DEF ClearAll, RestartProcess, NothingStored, Calls
<1>12. ASSUME NEW s \in Sigs, Land(s) \/ Confirm(s) PROVE TypeOK'
    <2>1. tx[s] # Unsent /\ tx[s].key \in Keys /\ tx[s].sentAt \in Nat
        BY <1>12, TransactionShape DEF Land, Confirm
    <2>2. PICK outcome \in TxStatus : tx' = [tx EXCEPT ![s].status = outcome]
        BY <1>12 DEF Land, Confirm, TxStatus
    <2>3. [tx[s] EXCEPT !.status = outcome] \in Transactions
        BY <2>1, TransactionShape DEF Transactions
    <2>4. tx' \in [Sigs -> Transactions]
        BY <2>2, <2>3
    <2> QED BY <1>12, <2>4 DEF Land, Confirm
<1>13. ASSUME Tick \/ UNCHANGED vars PROVE TypeOK'
    BY <1>13 DEF Tick, vars
<1> QED
    BY <1>4, <1>5, <1>6, <1>7, <1>8, <1>9, <1>10, <1>11, <1>12, <1>13
    DEF Next, CallerStep, StorageStep, ChainStep

\* Type correctness, for every instance of the constants.
THEOREM TypeCorrect == Spec => []TypeOK
BY TypeInit, TypeNext, PTL DEF Spec

-----------------------------------------------------------------------------
\* A purged store differs from the store at one key only, which is emptied
\* only when its record has expired.
LEMMA PurgedValue ==
    ASSUME NEW store \in [Keys -> StoredRecord \cup {NoRecord}], NEW k \in Keys,
           NEW j \in Keys
    PROVE  \/ Purged(store, k)[j] = store[j]
           \/ j = k /\ ~Fresh(store, k) /\ Purged(store, k)[j] = NoRecord
BY DEF Purged

\* Forgetting records, ending calls, starting one without a signature or
\* remembering a real record never breaks RecordInv.
LEMMA Forgetting ==
    ASSUME RecordInv, TypeOK', UNCHANGED <<tx, guarded>>,
           \A k \in Keys : /\ pending'[k] \in {pending[k], NoRecord}
                           /\ completed'[k] \in {completed[k], NoRecord},
           \A c \in Callers :
                \/ call'[c] = call[c]
                \/ call'[c].pc = "idle"
                \/ call'[c].pc = "executing" /\ call'[c].sig = NoSig
                \/ /\ call'[c].pc = "checking"
                   /\ SentFor(call'[c].seen.sig, call'[c].key)
                   /\ guarded[call'[c].seen.sig] > 0
    PROVE  RecordInv'
<1> USE DEF RecordInv
<1>1. RecordsAreReal'
    BY DEF RecordsAreReal, SentFor, Sent
<1>2. RecordedIsGuarded'
    <2>1. ASSUME NEW k \in Keys
          PROVE  /\ pending'[k] # NoRecord => guarded'[pending'[k].sig] > 0
                 /\ completed'[k] # NoRecord => guarded'[completed'[k].sig] > 0
        BY DEF RecordedIsGuarded
    <2>2. ASSUME NEW c \in Callers, call'[c].pc = "checking"
          PROVE  SentFor(call[c].seen.sig, call[c].key)' /\ guarded'[call'[c].seen.sig] > 0
        BY <2>2 DEF RecordedIsGuarded, Checking, SentFor, Sent
    <2>3. \A s \in Sigs : guarded'[s] > 0 => Sent(s)'
        BY DEF RecordedIsGuarded, Sent
    <2> QED BY <2>1, <2>2, <2>3 DEF RecordedIsGuarded, Checking, SentFor, Sent
<1>3. \A c \in Callers : HasSent(c)' => HasSent(c) /\ call'[c] = call[c]
    BY DEF HasSent, Executing
<1>4. OperationsOwnTheirs'
    BY <1>3 DEF OperationsOwnTheirs, SentFor, Sent
<1> QED BY <1>1, <1>2, <1>4

\* Marking a settled, recorded transaction of the key completed keeps RecordInv.
LEMMA Marking ==
    ASSUME RecordInv, TypeOK', UNCHANGED tx, NEW k \in Keys, NEW s \in Sigs,
           MarkCompleted(k, s), SentFor(s, k), Settled(tx[s].status), guarded[s] > 0,
           \A c \in Callers : call'[c] = call[c] \/ call'[c].pc = "idle"
    PROVE  RecordInv'
<1> USE DEF RecordInv
<1>1. /\ pending' = [pending EXCEPT ![k] = NoRecord]
      /\ completed' = [completed EXCEPT
            ![k] = [sig |-> s, expiresAt |-> Deadline(CompletedRetention)]]
      /\ guarded' = [guarded EXCEPT ![s] = Deadline(CompletedRetention)]
    BY DEF MarkCompleted
<1>2. \A t \in Sigs : /\ guarded[t] > 0 => guarded'[t] > 0
                      /\ t # s => guarded'[t] = guarded[t]
    BY <1>1, DeadlineType DEF TypeOK
<1>3. RecordsAreReal'
    BY <1>1 DEF TypeOK, RecordsAreReal, SentFor, Sent, Settled
<1>4. RecordedIsGuarded'
    <2>1. ASSUME NEW j \in Keys
          PROVE  /\ pending'[j] # NoRecord => guarded'[pending'[j].sig] > 0
                 /\ completed'[j] # NoRecord => guarded'[completed'[j].sig] > 0
        <3>1. pending[j] # NoRecord => pending[j].sig \in Sigs
            BY DEF TypeOK, StoredRecord
        <3>2. completed[j] # NoRecord => completed[j].sig \in Sigs
            BY DEF TypeOK, StoredRecord
        <3> QED BY <1>1, <1>2, <3>1, <3>2 DEF TypeOK, RecordedIsGuarded
    <2>2. ASSUME NEW c \in Callers, call'[c].pc = "checking"
          PROVE  SentFor(call[c].seen.sig, call[c].key)' /\ guarded'[call'[c].seen.sig] > 0
        <3>1. call'[c] = call[c] /\ call[c].seen.sig \in Sigs
            BY <2>2, CallShape DEF TypeOK, StoredRecord
        <3> QED BY <1>2, <2>2, <3>1 DEF RecordedIsGuarded, Checking, SentFor, Sent
    <2>3. \A t \in Sigs : guarded'[t] > 0 => Sent(t)'
        BY <1>2 DEF RecordedIsGuarded, SentFor, Sent
    <2> QED BY <2>1, <2>2, <2>3 DEF RecordedIsGuarded, Checking, SentFor, Sent
<1>5. OperationsOwnTheirs'
    <2>1. \A c \in Callers : HasSent(c)' => /\ HasSent(c)
                                            /\ call'[c] = call[c]
                                            /\ call[c].sig \in Sigs \ {s}
        BY CallShape DEF HasSent, Executing, TypeOK, OperationsOwnTheirs
    <2> QED BY <1>2, <2>1 DEF OperationsOwnTheirs, SentFor, Sent
<1> QED BY <1>3, <1>4, <1>5

\* Both ways out of the completed check end the call or start an operation
\* that has sent nothing.
LEMMA AfterCompletedCheck ==
    ASSUME TypeOK, NEW c \in Callers, NEW k \in Keys, CheckCompletedThenExecute(c, k)
    PROVE  /\ \A j \in Keys : completed'[j] \in {completed[j], NoRecord}
           /\ \A d \in Callers : d # c => call'[d] = call[d]
           /\ \/ call'[c].pc = "idle"
              \/ call'[c].pc = "executing" /\ call'[c].sig = NoSig
<1>1. \A j \in Keys : completed'[j] \in {completed[j], NoRecord}
    BY PurgedValue DEF CheckCompletedThenExecute, TypeOK
<1>2. CASE Return(c)
    BY <1>1, <1>2 DEF Return, Idle, TypeOK
<1>3. CASE call' = [call EXCEPT ![c] = [pc |-> "executing", key |-> k, sig |-> NoSig]]
    BY <1>1, <1>3 DEF TypeOK
<1> QED BY <1>2, <1>3 DEF CheckCompletedThenExecute

\* The record invariant holds in an empty storage.
LEMMA RecordInit == Init => RecordInv
<1> SUFFICES ASSUME Init PROVE RecordInv
    OBVIOUS
<1>1. TypeOK
    BY TypeInit
<1>2. \A c \in Callers : ~Checking(c) /\ ~HasSent(c)
    BY DEF Init, Idle, Checking, HasSent, Executing
<1> QED
    BY <1>1, <1>2 DEF Init, RecordInv, RecordsAreReal,
        RecordedIsGuarded, OperationsOwnTheirs

\* Every step keeps the record invariant, whatever overlaps.
LEMMA RecordNext == RecordInv /\ [Next]_vars => RecordInv'
<1> SUFFICES ASSUME RecordInv, [Next]_vars PROVE RecordInv'
    OBVIOUS
<1>t. TypeOK /\ TypeOK'
    BY TypeNext DEF RecordInv
<1>1. ASSUME NEW c \in Callers, NEW k \in Keys, ExecuteOnce(c, k) PROVE RecordInv'
    <2>1. CASE /\ Fresh(pending, k)
               /\ call' = [call EXCEPT
                    ![c] = [pc |-> "checking", key |-> k, seen |-> pending[k]]]
               /\ UNCHANGED storage
        <3>1. /\ call'[c].pc = "checking"
              /\ SentFor(call'[c].seen.sig, call'[c].key)
              /\ guarded[call'[c].seen.sig] > 0
            BY <1>t, <2>1 DEF TypeOK, Fresh, RecordInv, RecordsAreReal, RecordedIsGuarded
        <3>2. \A d \in Callers : d # c => call'[d] = call[d]
            BY <1>t, <2>1 DEF TypeOK
        <3> QED BY <1>1, <1>t, <2>1, <3>1, <3>2, Forgetting DEF ExecuteOnce, storage
    <2>2. CASE pending' = Purged(pending, k) /\ CheckCompletedThenExecute(c, k)
        <3>1. \A j \in Keys : pending'[j] \in {pending[j], NoRecord}
            BY <1>t, <2>2, PurgedValue DEF TypeOK
        <3> QED BY <1>1, <1>t, <2>2, <3>1, AfterCompletedCheck, Forgetting DEF ExecuteOnce
    <2> QED BY <1>1, <2>1, <2>2 DEF ExecuteOnce
<1>2. ASSUME NEW c \in Callers, StatusReply(c) PROVE RecordInv'
    <2> DEFINE k == call[c].key
               record == call[c].seen
    <2>1. /\ k \in Keys /\ record \in StoredRecord /\ record.sig \in Sigs
          /\ SentFor(record.sig, k) /\ guarded[record.sig] > 0
        BY <1>2, <1>t, CallShape
        DEF StatusReply, StoredRecord, TypeOK, RecordInv, RecordedIsGuarded, Checking
    <2>2. PICK reply \in Replies(record.sig) : ActOnStatus(c, k, record, reply)
        BY <1>2 DEF StatusReply
    <2>3. UNCHANGED tx
        BY <1>2 DEF StatusReply
    <2>4. ASSUME Return(c)
          PROVE  \A d \in Callers : call'[d] = call[d] \/ call'[d].pc = "idle"
        BY <1>t, <2>4 DEF Return, Idle, TypeOK
    <2>5. CASE Settled(reply) /\ MarkCompleted(k, record.sig) /\ Return(c)
        <3>1. Settled(tx[record.sig].status)
            BY <2>2, <2>5 DEF Replies, Settled
        <3> QED BY <1>t, <2>1, <2>3, <2>4, <2>5, <3>1, Marking
    <2>6. CASE Return(c) /\ UNCHANGED <<pending, completed, guarded>>
        BY <1>t, <2>3, <2>4, <2>6, Forgetting
    <2>7. CASE /\ pending' = [pending EXCEPT ![k] = NoRecord]
               /\ CheckCompletedThenExecute(c, k)
               /\ UNCHANGED guarded
        <3>1. \A j \in Keys : pending'[j] \in {pending[j], NoRecord}
            BY <1>t, <2>7 DEF TypeOK
        <3> QED BY <1>t, <2>1, <2>3, <2>7, <3>1, AfterCompletedCheck, Forgetting
    <2> QED BY <2>2, <2>5, <2>6, <2>7 DEF ActOnStatus
<1>3. ASSUME NEW c \in Callers, StatusError(c) \/ OperationThrows(c) \/ CloseTab(c)
      PROVE RecordInv'
    <2>1. \A d \in Callers : call'[d] = call[d] \/ call'[d].pc = "idle"
        BY <1>3, <1>t DEF StatusError, OperationThrows, CloseTab, Return, Idle, TypeOK
    <2>2. UNCHANGED <<pending, completed, tx, guarded>>
        BY <1>3 DEF StatusError, OperationThrows, CloseTab
    <2> QED BY <1>t, <2>1, <2>2, Forgetting
<1>4. ASSUME NEW c \in Callers, OperationSends(c) PROVE RecordInv'
    <2>1. PICK s \in Sigs :
            /\ tx[s] = Unsent
            /\ tx' = [tx EXCEPT ![s] =
                    [status |-> "inflight", key |-> call[c].key, sentAt |-> now]]
            /\ call' = [call EXCEPT ![c] =
                    [pc |-> "executing", key |-> call[c].key, sig |-> s]]
        BY <1>4 DEF OperationSends
    <2> USE DEF RecordInv
    <2>2. UNCHANGED <<pending, completed, guarded>>
        BY <1>4 DEF OperationSends
    <2>3. tx'[s].key = call[c].key /\ tx'[s] # Unsent
        BY <1>t, <2>1 DEF TypeOK, Unsent
    <2>4. \A r \in Sigs : Sent(r) => r # s /\ tx'[r] = tx[r]
        BY <1>t, <2>1 DEF TypeOK, Sent
    <2>5. RecordsAreReal'
        BY <1>t, <2>2, <2>4 DEF TypeOK, StoredRecord, RecordsAreReal, SentFor, Sent
    <2>7. RecordedIsGuarded'
        <3>1. ASSUME NEW d \in Callers, Checking(d)'
              PROVE  d # c /\ call'[d] = call[d] /\ Checking(d) /\ call[d].seen.sig \in Sigs
            BY <1>t, <2>1, <3>1, CallShape DEF TypeOK, Checking, StoredRecord
        <3>2. \A r \in Sigs : guarded'[r] > 0 => Sent(r)'
            BY <2>2, <2>4 DEF RecordedIsGuarded, Sent
        <3> QED BY <2>2, <2>4, <3>1, <3>2 DEF RecordedIsGuarded, SentFor, Sent
    <2>8. guarded[s] = 0
        BY <1>t, <2>1 DEF TypeOK, RecordedIsGuarded, Sent
    <2>9. \A d \in Callers : d # c => call'[d] = call[d]
        BY <1>t, <2>1 DEF TypeOK
    <2>10. call'[c].sig = s /\ call'[c].key = call[c].key
        BY <1>t, <2>1 DEF TypeOK
    <2>11. ASSUME NEW d \in Callers, d # c, HasSent(d)'
           PROVE  HasSent(d) /\ call'[d] = call[d] /\ call[d].sig \in Sigs \ {s}
        <3>1. call'[d] = call[d] /\ HasSent(d) /\ call[d].sig \in Sigs
            BY <1>t, <2>9, <2>11, CallShape DEF TypeOK, HasSent, Executing
        <3> QED BY <2>1, <3>1 DEF OperationsOwnTheirs, SentFor, Sent
    <2>12. OperationsOwnTheirs'
        BY <2>2, <2>3, <2>4, <2>8, <2>10, <2>11 DEF OperationsOwnTheirs, SentFor, Sent
    <2> QED BY <1>t, <2>5, <2>7, <2>12
<1>5. ASSUME NEW c \in Callers, OperationReturns(c) PROVE RecordInv'
    <2> DEFINE k == call[c].key
               s == call[c].sig
    <2> USE DEF RecordInv
    <2>1. k \in Keys /\ s \in Sigs /\ HasSent(c)
        BY <1>5, <1>t, CallShape DEF OperationReturns, TypeOK, HasSent, Executing
    <2>2. /\ pending' = [pending EXCEPT
                ![k] = [sig |-> s, expiresAt |-> Deadline(PendingTimeout)]]
          /\ guarded' = [guarded EXCEPT ![s] = Deadline(PendingTimeout)]
          /\ UNCHANGED <<completed, tx>>
        BY <1>5 DEF OperationReturns
    <2>3. SentFor(s, k) /\ guarded[s] = 0
        BY <2>1 DEF OperationsOwnTheirs
    <2>4. \A r \in Sigs : /\ guarded[r] > 0 => r # s /\ guarded'[r] = guarded[r]
                          /\ r # s => guarded'[r] = guarded[r]
        BY <1>t, <2>2, <2>3 DEF TypeOK
    <2>5. guarded'[s] > 0
        BY <1>t, <2>1, <2>2, DeadlineType DEF TypeOK
    <2>6. RecordsAreReal'
        BY <1>t, <2>1, <2>2, <2>3 DEF TypeOK, RecordsAreReal, SentFor, Sent
    <2>7. ASSUME NEW j \in Keys
          PROVE  /\ pending[j] # NoRecord => pending[j].sig \in Sigs /\ pending[j].sig # s
                 /\ completed[j] # NoRecord => completed[j].sig \in Sigs /\ completed[j].sig # s
        BY <1>t, <2>3 DEF TypeOK, StoredRecord, RecordedIsGuarded
    <2>9. \A d \in Callers : d # c => call'[d] = call[d]
        BY <1>5, <1>t DEF OperationReturns, Return, TypeOK
    <2>10. call'[c].pc = "idle"
        BY <1>5, <1>t DEF OperationReturns, Return, Idle, TypeOK
    <2>11. RecordedIsGuarded'
        <3>1. ASSUME NEW d \in Callers, Checking(d)'
              PROVE  call'[d] = call[d] /\ Checking(d) /\ call[d].seen.sig \in Sigs
            BY <1>t, <2>9, <2>10, <3>1, CallShape DEF TypeOK, Checking, StoredRecord
        <3>2. \A j \in Keys :
                /\ pending'[j] # NoRecord => guarded'[pending'[j].sig] > 0
                /\ completed'[j] # NoRecord => guarded'[completed'[j].sig] > 0
            BY <1>t, <2>1, <2>2, <2>4, <2>5, <2>7 DEF TypeOK, RecordedIsGuarded
        <3>3. \A r \in Sigs : guarded'[r] > 0 => Sent(r)'
            BY <2>2, <2>3, <2>4 DEF RecordedIsGuarded, SentFor, Sent
        <3> QED BY <2>2, <2>4, <3>1, <3>2, <3>3 DEF RecordedIsGuarded, SentFor, Sent
    <2>12. ASSUME NEW d \in Callers, HasSent(d)'
           PROVE  HasSent(d) /\ call'[d] = call[d] /\ call[d].sig \in Sigs \ {s}
        <3>1. d # c /\ call'[d] = call[d] /\ HasSent(d) /\ call[d].sig \in Sigs
            BY <1>t, <2>9, <2>10, <2>12, CallShape DEF TypeOK, HasSent, Executing
        <3> QED BY <2>1, <3>1 DEF OperationsOwnTheirs
    <2>13. OperationsOwnTheirs'
        BY <2>2, <2>4, <2>12 DEF OperationsOwnTheirs, SentFor, Sent
    <2> QED BY <1>t, <2>6, <2>11, <2>13
<1>6. ASSUME NEW k \in Keys, Query(k) \/ ClearPendingByHand(k) PROVE RecordInv'
    <2>1. \A j \in Keys : /\ pending'[j] \in {pending[j], NoRecord}
                          /\ completed'[j] \in {completed[j], NoRecord}
        <3>1. CASE Query(k)
            BY <1>t, <3>1, PurgedValue DEF Query, TypeOK
        <3>2. CASE ClearPendingByHand(k)
            BY <1>t, <3>2 DEF ClearPendingByHand, TypeOK
        <3> QED BY <1>6, <3>1, <3>2
    <2>2. UNCHANGED <<call, tx, guarded>>
        BY <1>6 DEF Query, ClearPendingByHand
    <2> QED BY <1>t, <2>1, <2>2, Forgetting
<1>7. ASSUME NEW k \in Keys, MarkCompletedByHand(k) PROVE RecordInv'
    <2> DEFINE s == Reported(k)
    <2>1. s \in Sigs /\ SentFor(s, k) /\ guarded[s] > 0
        BY <1>t, <1>7 DEF MarkCompletedByHand, Reported, Fresh, TypeOK, StoredRecord,
            RecordInv, RecordsAreReal, RecordedIsGuarded
    <2>2. Settled(tx[s].status) /\ MarkCompleted(k, s) /\ UNCHANGED <<call, tx>>
        BY <1>7 DEF MarkCompletedByHand, Settled
    <2> QED BY <1>t, <2>1, <2>2, Marking
<1>8. ASSUME ClearAll \/ RestartProcess PROVE RecordInv'
    <2>1. \A c \in Callers : call'[c] = call[c] \/ call'[c].pc = "idle"
        BY <1>8 DEF ClearAll, RestartProcess, Idle
    <2>2. \A j \in Keys : pending'[j] = NoRecord /\ completed'[j] = NoRecord
        BY <1>8 DEF ClearAll, RestartProcess, NothingStored
    <2>3. UNCHANGED <<tx, guarded>>
        BY <1>8 DEF ClearAll, RestartProcess
    <2> QED BY <1>t, <2>1, <2>2, <2>3, Forgetting
<1>9. ASSUME NEW s \in Sigs, Land(s) \/ Confirm(s) PROVE RecordInv'
    <2>1. UNCHANGED <<pending, completed, call, guarded>>
        BY <1>9 DEF Land, Confirm
    <2>2. \A r \in Sigs : Sent(r) => /\ Sent(r)'
                                     /\ tx'[r].key = tx[r].key
                                     /\ Settled(tx[r].status) => Settled(tx'[r].status)
        <3>1. tx[s].status \in {"inflight", "processed", "failing"}
            BY <1>9 DEF Land, Confirm
        <3>2. PICK outcome \in TxStatus : tx' = [tx EXCEPT ![s].status = outcome]
            BY <1>9 DEF Land, Confirm, TxStatus
        <3>3. tx[s] # Unsent
            BY <3>1 DEF Unsent
        <3>4. tx'[s] # Unsent /\ tx'[s].key = tx[s].key
            BY <1>t, <3>2, <3>3, TransactionShape DEF TypeOK, Unsent, TxStatus
        <3> QED BY <1>t, <3>1, <3>2, <3>4 DEF TypeOK, Sent, Settled
    <2>3. RecordsAreReal'
        BY <1>t, <2>1, <2>2
        DEF TypeOK, StoredRecord, RecordInv, RecordsAreReal, SentFor, Sent, Settled
    <2>5. RecordedIsGuarded'
        <3>1. \A c \in Callers : Checking(c) => call[c].seen.sig \in Sigs
            BY <1>t, CallShape DEF TypeOK, Checking, StoredRecord
        <3> QED BY <2>1, <2>2, <3>1
                DEF RecordInv, RecordedIsGuarded, Checking, SentFor
    <2>6. OperationsOwnTheirs'
        <3>1. \A c \in Callers : HasSent(c) => call[c].sig \in Sigs
            BY <1>t, CallShape DEF TypeOK, HasSent, Executing
        <3> QED BY <2>1, <2>2, <3>1
                DEF RecordInv, OperationsOwnTheirs, HasSent, Executing, SentFor
    <2> QED BY <1>t, <2>3, <2>5, <2>6 DEF RecordInv
<1>10. ASSUME Tick \/ UNCHANGED vars PROVE RecordInv'
    <2>1. UNCHANGED <<pending, completed, call, tx, guarded>>
        BY <1>10 DEF Tick, vars
    <2> QED BY <1>t, <2>1, Forgetting
<1> QED
    BY <1>1, <1>2, <1>3, <1>4, <1>5, <1>6, <1>7, <1>8, <1>9, <1>10
    DEF Next, CallerStep, StorageStep, ChainStep

\* The record invariant holds in every reachable state.
LEMMA RecordInvariant == Spec => []RecordInv
BY RecordInit, RecordNext, PTL DEF Spec

\* However calls overlap, with either storage, and whether or not operations
\* time out, a stored record names a transaction sent under its key, and a
\* completed record names one at confirmed commitment.
THEOREM StoredRecordsAreReal == Spec => []RecordsAreReal
<1>1. RecordInv => RecordsAreReal
    BY DEF RecordInv
<1> QED BY <1>1, RecordInvariant, PTL

-----------------------------------------------------------------------------
\* A completion that forbids its key is in storage, or was replaced there by one
\* that forbids it for longer.
CompletionInv ==
    \A s \in Sigs :
        /\ finished[s] <= now + CompletedRetention
        /\ finished[s] > 0 /\ now <= finished[s] =>
            /\ Sent(s)
            /\ completed[tx[s].key] # NoRecord
            /\ completed[tx[s].key].expiresAt >= finished[s]

\* Whatever starts is forbidden by no completion: the action of CompletionIsFinal.
CompletedStayRefused ==
    \A c \in Callers : Launches(c) =>
        \A s \in Sigs :
            SentFor(s, call'[c].key) /\ finished[s] > 0 => now > finished[s]

\* Steps that mark nothing completed drop expired records only.
LEMMA FinishedKept ==
    ASSUME TypeOK, TypeOK', CompletionInv, UNCHANGED finished, now' >= now,
           \A s \in Sigs : Sent(s) => Sent(s)' /\ tx'[s].key = tx[s].key,
           \A k \in Keys : \/ completed'[k] = completed[k]
                           \/ completed'[k] = NoRecord /\ ~Fresh(completed, k)
    PROVE  CompletionInv'
<1> SUFFICES ASSUME NEW s \in Sigs
             PROVE  /\ finished'[s] <= now' + CompletedRetention
                    /\ finished'[s] > 0 /\ now' <= finished'[s] =>
                        /\ Sent(s)'
                        /\ completed'[tx'[s].key] # NoRecord
                        /\ completed'[tx'[s].key].expiresAt >= finished'[s]
    BY DEF CompletionInv, Sent
<1>1. now \in Nat /\ now' \in Nat /\ finished[s] \in Nat /\ finished'[s] = finished[s]
    BY DEF TypeOK
<1>2. finished'[s] <= now' + CompletedRetention
    BY <1>1 DEF CompletionInv
<1>3. ASSUME finished'[s] > 0, now' <= finished'[s]
      PROVE  /\ Sent(s)'
             /\ completed'[tx'[s].key] # NoRecord
             /\ completed'[tx'[s].key].expiresAt >= finished'[s]
    <2>1. /\ Sent(s)
          /\ completed[tx[s].key] # NoRecord
          /\ completed[tx[s].key].expiresAt >= finished[s]
        BY <1>1, <1>3 DEF CompletionInv
    <2>2. Sent(s)' /\ tx'[s].key = tx[s].key /\ tx[s].key \in Keys
        BY <2>1, TransactionShape DEF TypeOK, Sent
    <2>3. completed[tx[s].key].expiresAt \in Nat
        BY <2>1, <2>2 DEF TypeOK, StoredRecord
    <2>4. Fresh(completed, tx[s].key)
        BY <1>1, <1>3, <2>1, <2>3 DEF Fresh
    <2> QED BY <1>1, <2>1, <2>2, <2>4
<1> QED BY <1>2, <1>3

\* A mark replaces the record of its key by one that outlives every earlier one.
LEMMA FinishedMarked ==
    ASSUME TypeOK, TypeOK', CompletionInv, UNCHANGED <<tx, now>>,
           NEW k \in Keys, NEW r \in Sigs, SentFor(r, k), MarkCompleted(k, r)
    PROVE  CompletionInv'
<1> SUFFICES ASSUME NEW s \in Sigs
             PROVE  /\ finished'[s] <= now' + CompletedRetention
                    /\ finished'[s] > 0 /\ now' <= finished'[s] =>
                        /\ Sent(s)'
                        /\ completed'[tx'[s].key] # NoRecord
                        /\ completed'[tx'[s].key].expiresAt >= finished'[s]
    BY DEF CompletionInv, Sent
<1>1. /\ completed' = [completed EXCEPT
            ![k] = [sig |-> r, expiresAt |-> now + CompletedRetention]]
      /\ finished' = [finished EXCEPT ![r] = now + CompletedRetention]
    BY DEF MarkCompleted, Deadline
<1>2. now \in Nat /\ finished[s] \in Nat /\ finished[s] <= now + CompletedRetention
    BY DEF TypeOK, CompletionInv
<1>3. [sig |-> r, expiresAt |-> now + CompletedRetention] \in StoredRecord
    BY <1>2 DEF StoredRecord
<1>4. finished'[s] \in {finished[s], now + CompletedRetention}
    BY <1>1 DEF TypeOK
<1>5. CASE s = r
    <2>1. Sent(s)' /\ tx'[s].key = k
        BY <1>5 DEF SentFor, Sent
    <2>2. completed'[k] = [sig |-> r, expiresAt |-> now + CompletedRetention]
        BY <1>1 DEF TypeOK
    <2> QED BY <1>2, <1>3, <1>4, <2>1, <2>2, NamesAssumption DEF StoredRecord
<1>6. CASE s # r
    <2>1. finished'[s] = finished[s]
        BY <1>1, <1>6 DEF TypeOK
    <2>2. ASSUME finished[s] > 0, now <= finished[s]
          PROVE  /\ Sent(s)'
                 /\ completed'[tx'[s].key] # NoRecord
                 /\ completed'[tx'[s].key].expiresAt >= finished[s]
        <3>1. /\ Sent(s)
              /\ completed[tx[s].key] # NoRecord
              /\ completed[tx[s].key].expiresAt >= finished[s]
            BY <2>2 DEF CompletionInv
        <3>2. CASE tx[s].key = k
            <4>1. completed'[k] = [sig |-> r, expiresAt |-> now + CompletedRetention]
                BY <1>1 DEF TypeOK
            <4> QED BY <1>2, <1>3, <3>1, <3>2, <4>1 DEF Sent, StoredRecord
        <3>3. CASE tx[s].key # k
            <4>1. completed'[tx[s].key] = completed[tx[s].key]
                BY <1>1, <3>1, <3>3, TransactionShape DEF TypeOK, Sent
            <4> QED BY <3>1, <4>1 DEF Sent
        <3> QED BY <3>2, <3>3
    <2> QED BY <1>2, <2>1, <2>2
<1> QED BY <1>5, <1>6

\* The completed check drops an expired record and launches only without one.
LEMMA CheckRefuses ==
    ASSUME TypeOK, CompletionInv, NEW c \in Callers, NEW k \in Keys,
           CheckCompletedThenExecute(c, k)
    PROVE  /\ \A j \in Keys : \/ completed'[j] = completed[j]
                              \/ completed'[j] = NoRecord /\ ~Fresh(completed, j)
           /\ CompletedStayRefused
<1>1. \A j \in Keys : \/ completed'[j] = completed[j]
                      \/ completed'[j] = NoRecord /\ ~Fresh(completed, j)
    BY PurgedValue DEF CheckCompletedThenExecute, TypeOK
<1>2. ASSUME NEW d \in Callers, Launches(d), NEW s \in Sigs,
             SentFor(s, call'[d].key), finished[s] > 0
      PROVE  now > finished[s]
    <2>1. d = c /\ ~Fresh(completed, k) /\ call'[d].key = k
        <3>1. CASE Return(c)
            BY <1>2, <3>1 DEF Return, Idle, Launches, TypeOK
        <3>2. CASE /\ ~Fresh(completed, k)
                   /\ call' = [call EXCEPT
                        ![c] = [pc |-> "executing", key |-> k, sig |-> NoSig]]
            BY <1>2, <3>2 DEF Launches, TypeOK
        <3> QED BY <3>1, <3>2 DEF CheckCompletedThenExecute
    <2>2. SentFor(s, k)
        BY <1>2, <2>1
    <2>3. now \in Nat /\ finished[s] \in Nat
        BY DEF TypeOK
    <2>4. SUFFICES ASSUME now <= finished[s] PROVE FALSE
        BY <2>3
    <2>5. completed[k] # NoRecord /\ completed[k].expiresAt >= finished[s]
        BY <1>2, <2>2, <2>4 DEF CompletionInv, SentFor
    <2>6. completed[k].expiresAt \in Nat
        BY <2>5 DEF TypeOK, StoredRecord
    <2> QED BY <2>1, <2>3, <2>4, <2>5, <2>6 DEF Fresh
<1> QED BY <1>1, <1>2 DEF CompletedStayRefused

\* Initially nothing is completed.
LEMMA CompletionInit == Init => CompletionInv
BY DEF Init, CompletionInv

\* Every step keeps the invariant, and launches only what no completion forbids.
LEMMA CompletionNext ==
    ASSUME RecordInv, RecordInv', CompletionInv, [Next]_vars
    PROVE  CompletionInv' /\ CompletedStayRefused
<1>t. TypeOK /\ TypeOK'
    BY DEF RecordInv
<1>q. ASSUME \A c \in Callers : call'[c] = call[c] \/ call'[c].pc # "executing"
                                \/ call[c].pc = "executing"
      PROVE  CompletedStayRefused
    BY <1>q DEF CompletedStayRefused, Launches
<1>r. ASSUME NEW c \in Callers, Return(c) PROVE CompletedStayRefused
    <2>1. \A d \in Callers : call'[d] = call[d] \/ call'[d].pc # "executing"
        BY <1>r, <1>t DEF Return, Idle, TypeOK
    <2> QED BY <1>q, <2>1
<1>1. ASSUME NEW c \in Callers, NEW k \in Keys, ExecuteOnce(c, k)
      PROVE CompletionInv' /\ CompletedStayRefused
    <2>1. UNCHANGED <<tx, finished, now>>
        BY <1>1 DEF ExecuteOnce
    <2>2. CASE /\ call' = [call EXCEPT
                    ![c] = [pc |-> "checking", key |-> k, seen |-> pending[k]]]
               /\ UNCHANGED storage
        <3>1. \A d \in Callers : call'[d] = call[d] \/ call'[d].pc # "executing"
            BY <1>t, <2>2 DEF TypeOK
        <3>2. UNCHANGED completed
            BY <2>2 DEF storage
        <3>3. CompletionInv'
            BY <2>1, <3>2 DEF CompletionInv, Sent
        <3> QED BY <1>q, <3>1, <3>3
    <2>3. CASE CheckCompletedThenExecute(c, k)
        <3>1. /\ \A j \in Keys : \/ completed'[j] = completed[j]
                                 \/ completed'[j] = NoRecord /\ ~Fresh(completed, j)
              /\ CompletedStayRefused
            BY <1>t, <2>3, CheckRefuses
        <3>2. now' >= now /\ \A s \in Sigs : Sent(s) => Sent(s)' /\ tx'[s].key = tx[s].key
            BY <1>t, <2>1 DEF TypeOK, Sent
        <3> QED BY <1>t, <2>1, <3>1, <3>2, FinishedKept
    <2> QED BY <1>1, <2>2, <2>3 DEF ExecuteOnce
<1>2. ASSUME NEW c \in Callers, StatusReply(c)
      PROVE CompletionInv' /\ CompletedStayRefused
    <2> DEFINE k == call[c].key
               record == call[c].seen
    <2>1. k \in Keys /\ record.sig \in Sigs /\ SentFor(record.sig, k)
        BY <1>2, <1>t, CallShape
        DEF StatusReply, StoredRecord, TypeOK, RecordInv, RecordedIsGuarded, Checking
    <2>2. PICK reply \in Replies(record.sig) : ActOnStatus(c, k, record, reply)
        BY <1>2 DEF StatusReply
    <2>3. UNCHANGED <<tx, now>>
        BY <1>2 DEF StatusReply
    <2>4. CASE MarkCompleted(k, record.sig) /\ Return(c)
        BY <1>t, <1>r, <2>1, <2>3, <2>4, FinishedMarked
    <2>5. CASE Return(c) /\ UNCHANGED <<completed, finished>>
        <3>1. CompletionInv'
            BY <2>3, <2>5 DEF CompletionInv, Sent
        <3> QED BY <1>r, <2>5, <3>1
    <2>6. CASE CheckCompletedThenExecute(c, k) /\ UNCHANGED finished
        <3>1. /\ \A j \in Keys : \/ completed'[j] = completed[j]
                                 \/ completed'[j] = NoRecord /\ ~Fresh(completed, j)
              /\ CompletedStayRefused
            BY <1>t, <2>1, <2>6, CheckRefuses
        <3>2. now' >= now /\ \A s \in Sigs : Sent(s) => Sent(s)' /\ tx'[s].key = tx[s].key
            BY <1>t, <2>3 DEF TypeOK, Sent
        <3> QED BY <1>t, <2>6, <3>1, <3>2, FinishedKept
    <2> QED BY <2>2, <2>4, <2>5, <2>6 DEF ActOnStatus
<1>3. ASSUME NEW c \in Callers,
             StatusError(c) \/ OperationThrows(c) \/ CloseTab(c) \/ OperationReturns(c)
      PROVE CompletionInv' /\ CompletedStayRefused
    <2>1. Return(c) /\ UNCHANGED <<completed, tx, finished, now>>
        BY <1>3 DEF StatusError, OperationThrows, CloseTab, OperationReturns
    <2>2. CompletionInv'
        BY <2>1 DEF CompletionInv, Sent
    <2> QED BY <1>r, <2>1, <2>2
<1>4. ASSUME NEW c \in Callers, OperationSends(c)
      PROVE CompletionInv' /\ CompletedStayRefused
    <2>1. PICK s \in Sigs :
            /\ tx[s] = Unsent
            /\ tx' = [tx EXCEPT ![s] =
                    [status |-> "inflight", key |-> call[c].key, sentAt |-> now]]
            /\ call' = [call EXCEPT ![c] =
                    [pc |-> "executing", key |-> call[c].key, sig |-> s]]
        BY <1>4 DEF OperationSends
    <2>2. UNCHANGED <<completed, finished, now>> /\ call[c].pc = "executing"
        BY <1>4 DEF OperationSends
    <2>3. \A r \in Sigs : Sent(r) => r # s /\ tx'[r] = tx[r]
        BY <1>t, <2>1 DEF TypeOK, Sent
    <2>4. now' >= now /\ \A r \in Sigs : Sent(r) => Sent(r)' /\ tx'[r].key = tx[r].key
        BY <1>t, <2>2, <2>3 DEF TypeOK, Sent
    <2>5. CompletionInv'
        BY <1>t, <2>2, <2>4, FinishedKept
    <2>6. \A d \in Callers : call'[d] = call[d] \/ call[d].pc = "executing"
        BY <1>t, <2>1, <2>2 DEF TypeOK
    <2> QED BY <1>q, <2>5, <2>6
<1>5. ASSUME NEW k \in Keys, Query(k) PROVE CompletionInv' /\ CompletedStayRefused
    <2>1. \A j \in Keys : \/ completed'[j] = completed[j]
                          \/ completed'[j] = NoRecord /\ ~Fresh(completed, j)
        BY <1>t, <1>5, PurgedValue DEF Query, TypeOK
    <2>2. UNCHANGED <<call, tx, finished, now>>
        BY <1>5 DEF Query
    <2>3. now' >= now /\ \A s \in Sigs : Sent(s) => Sent(s)' /\ tx'[s].key = tx[s].key
        BY <1>t, <2>2 DEF TypeOK, Sent
    <2> QED BY <1>t, <1>q, <2>1, <2>2, <2>3, FinishedKept
<1>6. ASSUME NEW k \in Keys, MarkCompletedByHand(k)
      PROVE CompletionInv' /\ CompletedStayRefused
    <2>1. Reported(k) \in Sigs /\ SentFor(Reported(k), k)
        BY <1>t, <1>6 DEF MarkCompletedByHand, Reported, Fresh, TypeOK, StoredRecord,
            RecordInv, RecordsAreReal
    <2>2. MarkCompleted(k, Reported(k)) /\ UNCHANGED <<call, tx, now>>
        BY <1>6 DEF MarkCompletedByHand
    <2> QED BY <1>t, <1>q, <2>1, <2>2, FinishedMarked
<1>7. ASSUME NEW k \in Keys, ClearPendingByHand(k)
      PROVE CompletionInv' /\ CompletedStayRefused
    <2>1. UNCHANGED <<completed, call, tx, finished, now>>
        BY <1>7 DEF ClearPendingByHand
    <2> QED BY <1>q, <2>1 DEF CompletionInv, Sent
<1>8. ASSUME ClearAll \/ RestartProcess PROVE CompletionInv' /\ CompletedStayRefused
    <2>1. /\ finished' = [s \in Sigs |-> 0]
          /\ now' = now
          /\ \A c \in Callers : call'[c] = call[c] \/ call'[c].pc = "idle"
        BY <1>8 DEF ClearAll, RestartProcess, NothingStored, Idle
    <2>2. CompletionInv'
        BY <1>t, <2>1 DEF CompletionInv, TypeOK
    <2> QED BY <1>q, <2>1, <2>2
<1>9. ASSUME NEW s \in Sigs, Land(s) \/ Confirm(s)
      PROVE CompletionInv' /\ CompletedStayRefused
    <2>1. UNCHANGED <<completed, call, finished, now>>
        BY <1>9 DEF Land, Confirm
    <2>2. PICK outcome \in TxStatus : tx' = [tx EXCEPT ![s].status = outcome]
        BY <1>9 DEF Land, Confirm, TxStatus
    <2>3. tx[s] # Unsent
        BY <1>9 DEF Land, Confirm, Unsent
    <2>4. tx'[s] # Unsent /\ tx'[s].key = tx[s].key
        BY <1>t, <2>2, <2>3, TransactionShape DEF TypeOK, Unsent, TxStatus
    <2>5. now' >= now /\ \A r \in Sigs : Sent(r) => Sent(r)' /\ tx'[r].key = tx[r].key
        BY <1>t, <2>1, <2>2, <2>4 DEF TypeOK, Sent
    <2> QED BY <1>t, <1>q, <2>1, <2>5, FinishedKept
<1>10. ASSUME Tick \/ UNCHANGED vars PROVE CompletionInv' /\ CompletedStayRefused
    <2>1. UNCHANGED <<completed, call, tx, finished>> /\ now' >= now
        BY <1>t, <1>10 DEF Tick, vars, TypeOK
    <2>2. \A s \in Sigs : Sent(s) => Sent(s)' /\ tx'[s].key = tx[s].key
        BY <2>1 DEF Sent
    <2> QED BY <1>t, <1>q, <2>1, <2>2, FinishedKept
<1> QED
    BY <1>1, <1>2, <1>3, <1>4, <1>5, <1>6, <1>7, <1>8, <1>9, <1>10
    DEF Next, CallerStep, StorageStep, ChainStep

\* However calls overlap, and with either storage, once a transaction of a key is
\* marked completed no operation of that key starts within completedRetention,
\* unless the storage itself is lost.
THEOREM CompletionsAreFinal == Spec => CompletionIsFinal
<1>1. Init => RecordInv /\ CompletionInv
    BY RecordInit, CompletionInit
<1>2. RecordInv /\ CompletionInv /\ [Next]_vars =>
        (RecordInv /\ CompletionInv)' /\ [CompletedStayRefused]_vars
    BY RecordNext, CompletionNext
<1>3. CompletionIsFinal <=> [][CompletedStayRefused]_vars
    BY DEF CompletionIsFinal, CompletedStayRefused
<1> QED BY <1>1, <1>2, <1>3, PTL DEF Spec

-----------------------------------------------------------------------------
\* A record may go once nothing is owed for its transaction.
Disposable(record) ==
    record = NoRecord \/ now >= record.expiresAt \/ Errored(tx[record.sig].status)

DropsOnlyDisposable(store) ==
    \A k \in Keys :
        \/ store'[k] = store[k]
        \/ store'[k] = NoRecord /\ Disposable(store[k])

\* With no fresh completed record and a disposable pending one, no transaction
\* of the key has an open window: the operation may run.
LEMMA LaunchJustified ==
    ASSUME TypeOK, WindowInv, NEW k \in Keys,
           ~Fresh(completed, k), Disposable(pending[k])
    PROVE  ClosedExcept(k, NoSig)
<1> SUFFICES ASSUME NEW s \in Sigs, SentFor(s, k), ~Closed(s) PROVE FALSE
    BY DEF ClosedExcept
<1>1. now < guarded[s] /\ ~Errored(tx[s].status)
    BY DEF Closed, TypeOK
<1>2. CASE pending[k] = [sig |-> s, expiresAt |-> guarded[s]]
    BY <1>1, <1>2 DEF Disposable, TypeOK, StoredRecord
<1>3. CASE completed[k] = [sig |-> s, expiresAt |-> guarded[s]]
    BY <1>1, <1>3 DEF Fresh, TypeOK, StoredRecord
<1> QED BY <1>2, <1>3 DEF WindowInv, OpenIsStored, StoredIn, SentFor

\* Dropping disposable records keeps the windows in order.
LEMMA Disposing ==
    ASSUME RecordInv, TypeOK', WindowInv, UNCHANGED <<tx, guarded, now>>,
           DropsOnlyDisposable(pending), DropsOnlyDisposable(completed)
    PROVE  WindowInv'
<1> USE DEF RecordInv, WindowInv, DropsOnlyDisposable
<1>1. \A s \in Sigs : /\ Sent(s)' = Sent(s)
                      /\ Closed(s)' = Closed(s)
    BY DEF Sent, Closed
<1>2. \A k \in Keys, s \in Sigs : ClosedExcept(k, s)' = ClosedExcept(k, s)
    BY <1>1 DEF ClosedExcept, SentFor
<1>3. OpenIsStored'
    <2> SUFFICES ASSUME NEW s \in Sigs, Sent(s), ~Closed(s)
                 PROVE  StoredIn(pending, s)' \/ StoredIn(completed, s)'
        BY <1>1 DEF OpenIsStored
    <2>1. tx[s].key \in Keys
        BY TransactionShape DEF TypeOK, Sent
    <2>2. ~Disposable([sig |-> s, expiresAt |-> guarded[s]])
        BY DEF Closed, Disposable, TypeOK
    <2> QED BY <2>1, <2>2 DEF OpenIsStored, StoredIn
<1>4. WindowCoversBlockhash'
    BY DEF WindowCoversBlockhash, Sent
<1>5. PendingIsLatest'
    BY <1>2 DEF PendingIsLatest, TypeOK, StoredRecord
<1>6. CompletedDeadline'
    BY DEF CompletedDeadline
<1> QED BY <1>3, <1>4, <1>5, <1>6

\* A call that ends, or one that takes a key nobody else uses with good reason.
LEMMA TakingKey ==
    ASSUME RecordInv, TypeOK', SerialInv, UNCHANGED <<tx, guarded, now>>,
           \A k \in Keys : pending'[k] \in {pending[k], NoRecord},
           NEW c \in Callers,
           \A d \in Callers : d # c => call'[d] \in {call[d], Idle},
           \/ call'[c] \in {call[c], Idle}
           \/ /\ \A d \in Callers : d # c /\ call[d] # Idle => call[d].key # call'[c].key
              /\ call'[c].key \in Keys
              /\ \/ /\ call'[c].pc = "checking"
                    /\ call'[c].seen \in StoredRecord
                    /\ pending'[call'[c].key] = call'[c].seen
                    /\ ClosedExcept(call'[c].key, call'[c].seen.sig)
                 \/ /\ call'[c].pc = "executing"
                    /\ ClosedExcept(call'[c].key, NoSig)
    PROVE  OneCallPerKey' /\ CallsHoldKey'
<1> USE DEF RecordInv, SerialInv
<1>1. OneCallPerKey'
    BY DEF OneCallPerKey, Idle
<1>2. \A k, s : ClosedExcept(k, s)' = ClosedExcept(k, s)
    BY DEF ClosedExcept, SentFor, Sent, Closed
<1>3. ASSUME NEW d \in Callers, Checking(d)'
      PROVE  /\ pending'[call'[d].key] \in {call'[d].seen, NoRecord}
             /\ ClosedExcept(call'[d].key, call'[d].seen.sig)
    <2>1. CASE call'[d] = call[d]
        <3>1. Checking(d) /\ call[d].key \in Keys
            BY <1>3, <2>1, CallShape DEF Checking, TypeOK
        <3> QED BY <2>1, <3>1 DEF CallsHoldKey
    <2>2. CASE d = c /\ call'[c] # call[c]
        BY <1>3, <2>2 DEF Checking, Idle
    <2> QED BY <1>3, <2>1, <2>2 DEF Checking, Idle
<1>4. ASSUME NEW d \in Callers, Executing(d)'
      PROVE  ClosedExcept(call'[d].key, NoSig)
    <2>1. CASE call'[d] = call[d]
        BY <1>4, <2>1 DEF CallsHoldKey, Executing
    <2>2. CASE d = c /\ call'[c] # call[c]
        BY <1>4, <2>2 DEF Executing, Idle
    <2> QED BY <1>4, <2>1, <2>2 DEF Executing, Idle
<1>5. CallsHoldKey'
    BY <1>2, <1>3, <1>4 DEF CallsHoldKey, Checking, Executing
<1> QED BY <1>1, <1>5

\* Marking the only transaction of a key that may have an open window.
LEMMA MarkingAlone ==
    ASSUME RecordInv, TypeOK', SerialInv, UNCHANGED <<tx, now>>,
           NEW k \in Keys, NEW s \in Sigs, MarkCompleted(k, s),
           SentFor(s, k), Settled(tx[s].status), ClosedExcept(k, s),
           \A d \in Callers :
                /\ call'[d] \in {call[d], Idle}
                /\ call'[d] # Idle => call'[d].key # k
    PROVE  SerialInv'
<1> USE DEF RecordInv, SerialInv, WindowInv
<1>1. /\ pending' = [pending EXCEPT ![k] = NoRecord]
      /\ completed' = [completed EXCEPT
            ![k] = [sig |-> s, expiresAt |-> Deadline(CompletedRetention)]]
      /\ guarded' = [guarded EXCEPT ![s] = Deadline(CompletedRetention)]
    BY DEF MarkCompleted
<1>2. \A r \in Sigs : r # s => Closed(r)' = Closed(r) /\ guarded'[r] = guarded[r]
    BY <1>1 DEF Closed, TypeOK
<1>3. \A j, x : j # k => ClosedExcept(j, x)' = ClosedExcept(j, x)
    BY <1>2 DEF ClosedExcept, SentFor, Sent
<1>4. OpenIsStored'
    <2> SUFFICES ASSUME NEW r \in Sigs, Sent(r), ~Closed(r)'
                 PROVE  StoredIn(pending, r)' \/ StoredIn(completed, r)'
        BY DEF OpenIsStored, Sent
    <2>1. CASE r = s
        BY <1>1, <2>1 DEF StoredIn, SentFor, TypeOK
    <2>2. CASE r # s
        <3>1. ~Closed(r) /\ tx[r].key # k
            BY <1>2, <2>2 DEF ClosedExcept, SentFor
        <3>2. tx[r].key \in Keys
            BY TransactionShape DEF TypeOK, Sent
        <3> QED BY <1>1, <1>2, <2>2, <3>1, <3>2 DEF OpenIsStored, StoredIn, TypeOK
    <2> QED BY <2>1, <2>2
<1>5. WindowCoversBlockhash'
    BY <1>2 DEF WindowCoversBlockhash, Settled, Sent
<1>6. \A j \in Keys : j # k =>
        /\ pending'[j] = pending[j] /\ completed'[j] = completed[j]
        /\ pending[j] # NoRecord => pending[j].sig \in Sigs \ {s}
        /\ completed[j] # NoRecord => completed[j].sig \in Sigs \ {s}
    BY <1>1 DEF TypeOK, StoredRecord, RecordsAreReal, SentFor
<1>7. PendingIsLatest'
    BY <1>1, <1>2, <1>3, <1>6 DEF PendingIsLatest, TypeOK
<1>8. CompletedDeadline'
    BY <1>1, <1>2, <1>6 DEF CompletedDeadline, TypeOK
<1>9. OneCallPerKey'
    BY DEF OneCallPerKey, Idle
<1>10. CallsHoldKey'
    <2>1. ASSUME NEW d \in Callers, Checking(d)'
          PROVE  /\ pending'[call'[d].key] \in {call'[d].seen, NoRecord}
                 /\ ClosedExcept(call[d].key, call[d].seen.sig)'
        <3>1. call'[d] = call[d] /\ Checking(d) /\ call[d].key \in Keys \ {k}
            BY <2>1, CallShape DEF Checking, Idle, TypeOK
        <3> QED BY <1>3, <1>6, <3>1 DEF CallsHoldKey
    <2>2. ASSUME NEW d \in Callers, Executing(d)'
          PROVE  ClosedExcept(call[d].key, NoSig)'
        <3>1. call'[d] = call[d] /\ Executing(d) /\ call[d].key # k
            BY <2>2 DEF Executing, Idle
        <3> QED BY <1>3, <3>1 DEF CallsHoldKey
    <2> QED BY <2>1, <2>2 DEF CallsHoldKey, Checking, Executing
<1> QED BY <1>4, <1>5, <1>7, <1>8, <1>9, <1>10

\* The chain and the clock only ever close windows.
LEMMA ClosingOnly ==
    ASSUME RecordInv, TypeOK', SerialInv, UNCHANGED <<pending, completed, call, guarded>>,
           now' >= now,
           \A s \in Sigs :
                /\ Sent(s)' = Sent(s)
                /\ Sent(s) => tx'[s].key = tx[s].key /\ tx'[s].sentAt = tx[s].sentAt
                /\ Closed(s) => Closed(s)'
                /\ tx'[s].status = "inflight" => tx[s].status = "inflight"
    PROVE  SerialInv'
<1> USE DEF RecordInv, SerialInv, WindowInv
<1>1. \A k, x : ClosedExcept(k, x) => ClosedExcept(k, x)'
    BY DEF ClosedExcept, SentFor
<1>2. OpenIsStored'
    BY DEF OpenIsStored, StoredIn
<1>3. WindowCoversBlockhash'
    <2>1. \A s \in Sigs : Sent(s) => tx[s].sentAt \in Nat
        BY TransactionShape DEF TypeOK, Sent
    <2> QED BY <2>1 DEF WindowCoversBlockhash, RecordedIsGuarded, TypeOK
<1>4. PendingIsLatest' /\ CompletedDeadline'
    BY <1>1 DEF PendingIsLatest, CompletedDeadline
<1>5. OneCallPerKey' /\ CallsHoldKey'
    BY <1>1 DEF OneCallPerKey, CallsHoldKey, Checking, Executing
<1> QED BY <1>2, <1>3, <1>4, <1>5

\* Initially no window is open and no key is in use.
LEMMA SerialInit == Init => SerialInv
<1> SUFFICES ASSUME Init PROVE SerialInv
    OBVIOUS
<1>1. \A s \in Sigs : ~Sent(s) /\ guarded[s] = 0
    BY DEF Init, Sent
<1>2. \A c \in Callers : call[c] = Idle /\ ~Checking(c) /\ ~Executing(c)
    BY DEF Init, Idle, Checking, Executing
<1> QED
    BY <1>1, <1>2 DEF Init, SerialInv, WindowInv, OpenIsStored, WindowCoversBlockhash,
        PendingIsLatest, CompletedDeadline, OneCallPerKey, CallsHoldKey

\* A step of executeOnce that starts the operation does so with every window of
\* the key closed.
LEMMA ExecuteSerial ==
    ASSUME RecordInv, TypeOK', SerialInv, Serialized,
           NEW c \in Callers, NEW k \in Keys, ExecuteOnce(c, k)
    PROVE  /\ SerialInv'
           /\ Executing(c)' => call'[c].key = k /\ ClosedExcept(k, NoSig)
<1> USE DEF RecordInv, SerialInv, DropsOnlyDisposable
<1>1. UNCHANGED <<tx, guarded, now>> /\ call[c] = Idle
    BY DEF ExecuteOnce
<1>2. \A d \in Callers : call[d] # Idle => call[d].key # k
    BY DEF ExecuteOnce, MayTouch, Active
<1>3. CASE /\ Fresh(pending, k)
           /\ call' = [call EXCEPT
                    ![c] = [pc |-> "checking", key |-> k, seen |-> pending[k]]]
           /\ UNCHANGED storage
    <2>1. WindowInv'
        BY <1>1, <1>3, Disposing DEF storage
    <2>2. /\ call'[c].pc = "checking" /\ call'[c].key = k
          /\ call'[c].seen = pending[k] /\ pending[k] \in StoredRecord
        BY <1>3 DEF TypeOK, Fresh
    <2>3. ClosedExcept(k, pending[k].sig) /\ UNCHANGED pending
        BY <1>3 DEF WindowInv, PendingIsLatest, Fresh, storage
    <2>4. \A d \in Callers : d # c => call'[d] = call[d]
        BY <1>3 DEF TypeOK
    <2>5. OneCallPerKey' /\ CallsHoldKey'
        BY <1>1, <1>2, <2>2, <2>3, <2>4, TakingKey
    <2> QED BY <2>1, <2>2, <2>5 DEF Executing
<1>4. CASE /\ ~Fresh(pending, k)
           /\ pending' = Purged(pending, k)
           /\ CheckCompletedThenExecute(c, k)
    <2>1. DropsOnlyDisposable(pending)
        BY <1>4, PurgedValue DEF TypeOK, Fresh, Disposable, StoredRecord
    <2>2. DropsOnlyDisposable(completed)
        BY <1>4, PurgedValue
        DEF CheckCompletedThenExecute, TypeOK, Fresh, Disposable, StoredRecord
    <2>3. WindowInv'
        BY <1>1, <2>1, <2>2, Disposing
    <2>4. CASE Return(c)
        <3>1. call'[c] = Idle /\ \A d \in Callers : d # c => call'[d] = call[d]
            BY <2>4 DEF Return, TypeOK
        <3>2. OneCallPerKey' /\ CallsHoldKey'
            BY <1>1, <2>1, <3>1, TakingKey
        <3> QED BY <2>3, <3>1, <3>2 DEF Executing, Idle
    <2>5. CASE /\ ~Fresh(completed, k)
               /\ call' = [call EXCEPT
                    ![c] = [pc |-> "executing", key |-> k, sig |-> NoSig]]
        <3>1. Disposable(pending[k])
            BY <1>4 DEF Fresh, Disposable, TypeOK, StoredRecord
        <3>2. ClosedExcept(k, NoSig)
            BY <2>5, <3>1, LaunchJustified
        <3>3. /\ call'[c].pc = "executing" /\ call'[c].key = k
              /\ \A d \in Callers : d # c => call'[d] = call[d]
            BY <2>5 DEF TypeOK
        <3>4. OneCallPerKey' /\ CallsHoldKey'
            BY <1>1, <1>2, <2>1, <3>2, <3>3, TakingKey
        <3> QED BY <2>3, <3>2, <3>3, <3>4
    <2> QED BY <1>4, <2>4, <2>5 DEF CheckCompletedThenExecute
<1> QED BY <1>3, <1>4 DEF ExecuteOnce

\* Acting on a status reply, for the one call that holds the key.
LEMMA StatusSerial ==
    ASSUME RecordInv, TypeOK', SerialInv, NEW c \in Callers, StatusReply(c)
    PROVE  /\ SerialInv'
           /\ Executing(c)' => ClosedExcept(call'[c].key, NoSig)
<1> DEFINE k == call[c].key
           record == call[c].seen
<1> USE DEF RecordInv, SerialInv, DropsOnlyDisposable
<1>1. /\ Checking(c) /\ k \in Keys /\ record \in StoredRecord /\ record.sig \in Sigs
      /\ SentFor(record.sig, k) /\ ClosedExcept(k, record.sig)
      /\ pending[k] \in {record, NoRecord}
    BY CallShape
    DEF StatusReply, StoredRecord, TypeOK, RecordedIsGuarded, Checking, CallsHoldKey
<1>2. PICK reply \in Replies(record.sig) : ActOnStatus(c, k, record, reply)
    BY DEF StatusReply
<1>3. UNCHANGED <<tx, now>>
    BY DEF StatusReply
<1>4. \A d \in Callers : d # c /\ call[d] # Idle => call[d].key # k
    BY <1>1 DEF OneCallPerKey, Checking, Idle
<1>5. ASSUME Return(c)
      PROVE  call'[c] = Idle /\ \A d \in Callers : d # c => call'[d] = call[d]
    BY <1>5 DEF Return, TypeOK
<1>6. CASE Settled(reply) /\ MarkCompleted(k, record.sig) /\ Return(c)
    <2>1. Settled(tx[record.sig].status)
        BY <1>2, <1>6 DEF Replies, Settled
    <2>2. SerialInv'
        BY <1>1, <1>3, <1>4, <1>5, <1>6, <2>1, MarkingAlone
    <2> QED BY <1>5, <1>6, <2>2 DEF Executing, Idle
<1>7. CASE Return(c) /\ UNCHANGED <<pending, completed, guarded>>
    <2>1. WindowInv'
        BY <1>3, <1>7, Disposing
    <2>2. OneCallPerKey' /\ CallsHoldKey'
        BY <1>3, <1>5, <1>7, TakingKey
    <2> QED BY <1>5, <1>7, <2>1, <2>2 DEF Executing, Idle
<1>8. CASE /\ Errored(reply) \/ now >= record.expiresAt
           /\ pending' = [pending EXCEPT ![k] = NoRecord]
           /\ CheckCompletedThenExecute(c, k)
           /\ UNCHANGED guarded
    <2>1. Disposable(pending[k])
        BY <1>1, <1>2, <1>8 DEF Disposable, Replies, Errored
    <2>2. DropsOnlyDisposable(pending)
        BY <1>8, <2>1 DEF TypeOK
    <2>3. DropsOnlyDisposable(completed)
        BY <1>1, <1>8, PurgedValue
        DEF CheckCompletedThenExecute, TypeOK, Fresh, Disposable, StoredRecord
    <2>4. WindowInv'
        BY <1>3, <1>8, <2>2, <2>3, Disposing
    <2>5. CASE Return(c)
        <3>1. OneCallPerKey' /\ CallsHoldKey'
            BY <1>3, <1>5, <1>8, <2>2, <2>5, TakingKey
        <3> QED BY <1>5, <2>4, <2>5, <3>1 DEF Executing, Idle
    <2>6. CASE /\ ~Fresh(completed, k)
               /\ call' = [call EXCEPT
                    ![c] = [pc |-> "executing", key |-> k, sig |-> NoSig]]
        <3>1. ClosedExcept(k, NoSig)
            BY <1>1, <2>1, <2>6, LaunchJustified
        <3>2. /\ call'[c].pc = "executing" /\ call'[c].key = k
              /\ \A d \in Callers : d # c => call'[d] = call[d]
            BY <2>6 DEF TypeOK
        <3>3. OneCallPerKey' /\ CallsHoldKey'
            BY <1>1, <1>3, <1>4, <1>8, <2>2, <3>1, <3>2, TakingKey
        <3> QED BY <2>4, <3>1, <3>2, <3>3
    <2> QED BY <1>8, <2>5, <2>6 DEF CheckCompletedThenExecute
<1> QED BY <1>2, <1>6, <1>7, <1>8 DEF ActOnStatus

\* Sending takes a fresh signature for a key whose windows are closed.
LEMMA SendsSerial ==
    ASSUME RecordInv, TypeOK', SerialInv, NEW c \in Callers, OperationSends(c)
    PROVE  SerialInv'
<1> USE DEF RecordInv, SerialInv, WindowInv
<1>1. PICK s \in Sigs :
        /\ tx[s] = Unsent
        /\ tx' = [tx EXCEPT ![s] =
                [status |-> "inflight", key |-> call[c].key, sentAt |-> now]]
        /\ call' = [call EXCEPT ![c] =
                [pc |-> "executing", key |-> call[c].key, sig |-> s]]
    BY DEF OperationSends
<1>2. UNCHANGED <<pending, completed, guarded, now>> /\ Executing(c)
    BY DEF OperationSends, Executing
<1>3. guarded[s] = 0
    BY <1>1 DEF TypeOK, RecordedIsGuarded, Sent
<1>4. \A r \in Sigs : r # s => tx'[r] = tx[r]
    BY <1>1 DEF TypeOK
<1>5. Closed(s)' /\ \A r \in Sigs : r # s => Closed(r)' = Closed(r)
    BY <1>2, <1>3, <1>4 DEF Closed, TypeOK
<1>6. \A k, x : ClosedExcept(k, x) => ClosedExcept(k, x)'
    BY <1>4, <1>5 DEF ClosedExcept, SentFor, Sent
<1>7. OpenIsStored'
    BY <1>2, <1>4, <1>5 DEF OpenIsStored, StoredIn, Sent
<1>8. WindowCoversBlockhash'
    <2>1. tx'[s].sentAt = now /\ guarded'[s] = 0
        BY <1>1, <1>2, <1>3 DEF TypeOK
    <2> QED BY <1>2, <1>4, <2>1 DEF WindowCoversBlockhash, Sent, TypeOK
<1>9. PendingIsLatest' /\ CompletedDeadline'
    BY <1>2, <1>6 DEF PendingIsLatest, CompletedDeadline
<1>10. /\ call'[c].pc = "executing" /\ call'[c].key = call[c].key /\ call[c] # Idle
       /\ \A d \in Callers : d # c => call'[d] = call[d]
    BY <1>1, <1>2 DEF TypeOK, Executing, Idle
<1>11. OneCallPerKey'
    BY <1>10 DEF OneCallPerKey, Idle
<1>12. CallsHoldKey'
    BY <1>2, <1>6, <1>10 DEF CallsHoldKey, Checking, Executing
<1> QED BY <1>7, <1>8, <1>9, <1>11, <1>12

\* The record is written when the key has no other open window, and covers the
\* blockhash because it is written after the transaction was sent.
LEMMA ReturnsSerial ==
    ASSUME RecordInv, RecordInv', SerialInv, NEW c \in Callers, OperationReturns(c)
    PROVE  SerialInv'
<1> USE DEF RecordInv, SerialInv, WindowInv
<1>1. PICK k \in Keys, s \in Sigs : k = call[c].key /\ s = call[c].sig /\ HasSent(c)
    BY CallShape DEF OperationReturns, TypeOK, HasSent, Executing
<1>2. /\ pending' = [pending EXCEPT
            ![k] = [sig |-> s, expiresAt |-> Deadline(PendingTimeout)]]
      /\ guarded' = [guarded EXCEPT ![s] = Deadline(PendingTimeout)]
      /\ UNCHANGED <<completed, tx, now>>
    BY <1>1 DEF OperationReturns
<1>3. SentFor(s, k) /\ guarded[s] = 0 /\ ClosedExcept(k, NoSig)
    BY <1>1 DEF OperationsOwnTheirs, CallsHoldKey, HasSent
<1>4. \A r \in Sigs : r # s => Closed(r)' = Closed(r) /\ guarded'[r] = guarded[r]
    BY <1>2 DEF Closed, TypeOK
<1>5. \A j, x : j # k => ClosedExcept(j, x)' = ClosedExcept(j, x)
    BY <1>2, <1>3, <1>4 DEF ClosedExcept, SentFor, Sent
<1>6. ClosedExcept(k, s)'
    BY <1>2, <1>3, <1>4 DEF ClosedExcept, SentFor, Sent
<1>7. OpenIsStored'
    <2> SUFFICES ASSUME NEW r \in Sigs, Sent(r), ~Closed(r)'
                 PROVE  StoredIn(pending, r)' \/ StoredIn(completed, r)'
        BY <1>2 DEF OpenIsStored, Sent
    <2>1. CASE r = s
        BY <1>1, <1>2, <1>3, <2>1 DEF StoredIn, SentFor, TypeOK
    <2>2. CASE r # s
        <3>1. ~Closed(r) /\ tx[r].key # k
            BY <1>3, <1>4, <2>2 DEF ClosedExcept, SentFor
        <3>2. tx[r].key \in Keys
            BY TransactionShape DEF TypeOK, Sent
        <3> QED BY <1>2, <1>4, <2>2, <3>1, <3>2 DEF OpenIsStored, StoredIn, TypeOK
    <2> QED BY <2>1, <2>2
<1>8. WindowCoversBlockhash'
    <2>1. tx[s].sentAt \in Nat /\ tx[s].sentAt <= now
        BY <1>1, <1>3, TransactionShape DEF TypeOK, SentFor, Sent, WindowCoversBlockhash
    <2>2. guarded'[s] = now + PendingTimeout
        BY <1>1, <1>2 DEF Deadline, TypeOK
    <2>3. guarded'[s] >= tx[s].sentAt + BlockhashLife
        BY <2>1, <2>2 DEF TypeOK
    <2> QED BY <1>1, <1>2, <1>4, <2>3 DEF WindowCoversBlockhash, Sent
<1>9. \A j \in Keys :
        /\ j # k => pending'[j] = pending[j]
        /\ pending[j] # NoRecord /\ j # k => pending[j].sig \in Sigs \ {s}
        /\ completed[j] # NoRecord => completed[j].sig \in Sigs \ {s}
    BY <1>2, <1>3 DEF TypeOK, StoredRecord, RecordedIsGuarded
<1>10. PendingIsLatest'
    <2>1. pending'[k].sig = s /\ pending'[k].expiresAt = guarded'[s]
        BY <1>1, <1>2 DEF TypeOK
    <2> QED BY <1>4, <1>5, <1>6, <1>9, <2>1 DEF PendingIsLatest
<1>11. CompletedDeadline'
    BY <1>2, <1>4, <1>9 DEF CompletedDeadline
<1>12. call'[c] = Idle /\ \A d \in Callers : d # c => call'[d] = call[d]
    BY DEF OperationReturns, Return, TypeOK
<1>13. OneCallPerKey'
    BY <1>12 DEF OneCallPerKey
<1>14. \A d \in Callers : Checking(d)' \/ Executing(d)' =>
        /\ call'[d] = call[d] /\ call[d].key \in Keys \ {k}
        /\ Checking(d)' = Checking(d) /\ Executing(d)' = Executing(d)
    BY <1>1, <1>12, CallShape
    DEF TypeOK, Checking, Executing, HasSent, OneCallPerKey, Idle
<1>15. CallsHoldKey'
    BY <1>2, <1>5, <1>9, <1>14 DEF CallsHoldKey
<1> QED BY <1>7, <1>8, <1>10, <1>11, <1>13, <1>15

\* One step, under the discipline the application is asked for.
LEMMA SerialNext ==
    ASSUME RecordInv, SerialInv, [Next]_vars, Serialized, Persistent
    PROVE  /\ SerialInv'
           /\ \A c \in Callers : Launches(c) => ClosedExcept(call'[c].key, NoSig)
<1>t. RecordInv' /\ TypeOK /\ TypeOK'
    BY RecordNext DEF RecordInv
<1> DEFINE LaunchesJustified ==
        \A c \in Callers : Launches(c) => ClosedExcept(call'[c].key, NoSig)
<1> SUFFICES SerialInv' /\ LaunchesJustified
    OBVIOUS
<1>l. ASSUME NEW c \in Callers,
             \A d \in Callers : d # c => call'[d] = call[d],
             Launches(c) => ClosedExcept(call'[c].key, NoSig)
      PROVE  LaunchesJustified
    BY <1>l DEF Launches
<1>n. ASSUME \A d \in Callers : call'[d] \in {call[d], Idle}
      PROVE  LaunchesJustified
    BY <1>n DEF Launches, Idle
<1>1. ASSUME NEW c \in Callers, NEW k \in Keys, ExecuteOnce(c, k)
      PROVE  SerialInv' /\ LaunchesJustified
    <2>1. SerialInv' /\ (Executing(c)' => call'[c].key = k /\ ClosedExcept(k, NoSig))
        BY <1>t, <1>1, ExecuteSerial
    <2>2. \A d \in Callers : d # c => call'[d] = call[d]
        BY <1>t, <1>1 DEF ExecuteOnce, CheckCompletedThenExecute, Return, TypeOK
    <2> QED BY <1>l, <2>1, <2>2 DEF Launches, Executing
<1>2. ASSUME NEW c \in Callers, StatusReply(c)
      PROVE  SerialInv' /\ LaunchesJustified
    <2>1. SerialInv' /\ (Executing(c)' => ClosedExcept(call'[c].key, NoSig))
        BY <1>t, <1>2, StatusSerial
    <2>2. \A d \in Callers : d # c => call'[d] = call[d]
        BY <1>t, <1>2
        DEF StatusReply, ActOnStatus, CheckCompletedThenExecute, Return, TypeOK
    <2> QED BY <1>l, <2>1, <2>2 DEF Launches, Executing
<1>3. ASSUME NEW c \in Callers, StatusError(c) \/ OperationThrows(c) \/ CloseTab(c)
      PROVE  SerialInv' /\ LaunchesJustified
    <2>1. /\ \A d \in Callers : call'[d] \in {call[d], Idle}
          /\ \A d \in Callers : d # c => call'[d] = call[d]
          /\ call'[c] = Idle
        BY <1>t, <1>3 DEF StatusError, OperationThrows, CloseTab, Return, TypeOK
    <2>2. UNCHANGED <<pending, completed, tx, guarded, now>>
        BY <1>3 DEF StatusError, OperationThrows, CloseTab
    <2>3. WindowInv'
        BY <1>t, <2>2, Disposing DEF DropsOnlyDisposable, SerialInv
    <2>4. OneCallPerKey' /\ CallsHoldKey'
        BY <1>t, <2>1, <2>2, TakingKey
    <2> QED BY <1>n, <2>1, <2>3, <2>4 DEF SerialInv
<1>4. ASSUME NEW c \in Callers, OperationSends(c)
      PROVE  SerialInv' /\ LaunchesJustified
    <2>1. SerialInv'
        BY <1>t, <1>4, SendsSerial
    <2>2. call[c].pc = "executing" /\ \A d \in Callers : d # c => call'[d] = call[d]
        BY <1>t, <1>4 DEF OperationSends, TypeOK
    <2> QED BY <1>l, <2>1, <2>2 DEF Launches
<1>5. ASSUME NEW c \in Callers, OperationReturns(c)
      PROVE  SerialInv' /\ LaunchesJustified
    <2>1. SerialInv'
        BY <1>t, <1>5, ReturnsSerial
    <2>2. \A d \in Callers : call'[d] \in {call[d], Idle}
        BY <1>t, <1>5 DEF OperationReturns, Return, TypeOK
    <2> QED BY <1>n, <2>1, <2>2
<1>6. ASSUME NEW k \in Keys, Query(k) \/ ClearPendingByHand(k)
      PROVE  SerialInv' /\ LaunchesJustified
    <2>1. DropsOnlyDisposable(pending)
        <3>1. CASE Query(k)
            BY <1>t, <3>1, PurgedValue
            DEF Query, DropsOnlyDisposable, TypeOK, Fresh, Disposable, StoredRecord
        <3>2. CASE ClearPendingByHand(k)
            BY <1>t, <3>2 DEF ClearPendingByHand, DropsOnlyDisposable, TypeOK, Disposable
        <3> QED BY <1>6, <3>1, <3>2
    <2>2. DropsOnlyDisposable(completed)
        <3>1. CASE Query(k)
            BY <1>t, <3>1, PurgedValue
            DEF Query, DropsOnlyDisposable, TypeOK, Fresh, Disposable, StoredRecord
        <3>2. CASE ClearPendingByHand(k)
            BY <3>2 DEF ClearPendingByHand, DropsOnlyDisposable
        <3> QED BY <1>6, <3>1, <3>2
    <2>3. UNCHANGED <<call, tx, guarded, now>>
        BY <1>6 DEF Query, ClearPendingByHand
    <2>4. WindowInv'
        BY <1>t, <2>1, <2>2, <2>3, Disposing DEF SerialInv
    <2>5. OneCallPerKey'
        BY <2>3 DEF SerialInv, OneCallPerKey
    <2>6. CallsHoldKey'
        <3>1. \A j, x : ClosedExcept(j, x)' = ClosedExcept(j, x)
            BY <2>3 DEF ClosedExcept, SentFor, Sent, Closed
        <3>2. \A c \in Callers : Checking(c) => call[c].key \in Keys
            BY <1>t, CallShape DEF Checking, TypeOK
        <3> QED BY <2>1, <2>3, <3>1, <3>2
            DEF SerialInv, CallsHoldKey, Checking, Executing, DropsOnlyDisposable
    <2> QED BY <1>n, <2>3, <2>4, <2>5, <2>6 DEF SerialInv
<1>7. ASSUME NEW k \in Keys, MarkCompletedByHand(k)
      PROVE  SerialInv' /\ LaunchesJustified
    <2>1. PICK s \in Sigs : s = Reported(k)
        BY <1>t, <1>7 DEF MarkCompletedByHand, Reported, Fresh, TypeOK, StoredRecord
    <2>2. /\ Settled(tx[s].status) /\ MarkCompleted(k, s)
          /\ UNCHANGED <<call, tx, now>>
          /\ \A d \in Callers : call[d] # Idle => call[d].key # k
        BY <1>7, <2>1 DEF MarkCompletedByHand, Settled, MayTouch, Active
    <2>3. SentFor(s, k)
        BY <1>t, <1>7, <2>1 DEF MarkCompletedByHand, Reported, Fresh, TypeOK, StoredRecord,
            RecordInv, RecordsAreReal
    <2>4. ClosedExcept(k, s)
        <3>1. CASE Fresh(pending, k)
            BY <2>1, <3>1 DEF Reported, Fresh, SerialInv, WindowInv, PendingIsLatest
        <3>2. CASE ~Fresh(pending, k) /\ Fresh(completed, k) /\ completed[k].sig = s
            <4> SUFFICES ASSUME NEW r \in Sigs, SentFor(r, k), r # s, ~Closed(r)
                         PROVE  FALSE
                BY DEF ClosedExcept
            <4>1. now < guarded[r]
                BY <1>t DEF Closed, TypeOK
            <4>2. CASE pending[k] = [sig |-> r, expiresAt |-> guarded[r]]
                BY <1>t, <3>2, <4>1, <4>2 DEF Fresh, TypeOK, StoredRecord
            <4>3. CASE completed[k] = [sig |-> r, expiresAt |-> guarded[r]]
                BY <3>2, <4>3
            <4> QED BY <4>2, <4>3 DEF SerialInv, WindowInv, OpenIsStored, StoredIn, SentFor
        <3> QED BY <1>7, <2>1, <3>1, <3>2 DEF MarkCompletedByHand, Reported
    <2>5. SerialInv'
        BY <1>t, <2>2, <2>3, <2>4, MarkingAlone
    <2> QED BY <1>n, <2>2, <2>5
<1>8. ASSUME ClearAll \/ RestartProcess PROVE FALSE
    BY <1>8 DEF ClearAll, RestartProcess
<1>9. ASSUME NEW s \in Sigs, Land(s) \/ Confirm(s)
      PROVE  SerialInv' /\ LaunchesJustified
    <2>1. UNCHANGED <<pending, completed, call, guarded, now>>
        BY <1>9 DEF Land, Confirm
    <2>2. PICK outcome \in TxStatus \ {"inflight"} :
            /\ tx' = [tx EXCEPT ![s].status = outcome]
            /\ Errored(tx[s].status) => Errored(outcome)
        BY <1>9 DEF Land, Confirm, TxStatus, Errored
    <2>3. tx[s] # Unsent
        BY <1>9 DEF Land, Confirm, Unsent
    <2>4. /\ tx'[s] # Unsent /\ tx'[s].key = tx[s].key /\ tx'[s].sentAt = tx[s].sentAt
          /\ tx'[s].status = outcome
        BY <1>t, <2>2, <2>3, TransactionShape DEF TypeOK, Unsent, TxStatus
    <2>5. \A r \in Sigs : r # s => tx'[r] = tx[r]
        BY <1>t, <2>2 DEF TypeOK
    <2>6. \A r \in Sigs :
                /\ Sent(r)' = Sent(r)
                /\ Sent(r) => tx'[r].key = tx[r].key /\ tx'[r].sentAt = tx[r].sentAt
                /\ Closed(r) => Closed(r)'
                /\ tx'[r].status = "inflight" => tx[r].status = "inflight"
        BY <2>1, <2>2, <2>3, <2>4, <2>5 DEF Sent, Closed
    <2>7. SerialInv'
        BY <1>t, <2>1, <2>6, ClosingOnly DEF TypeOK
    <2> QED BY <1>n, <2>1, <2>7
<1>10. ASSUME Tick \/ UNCHANGED vars PROVE SerialInv' /\ LaunchesJustified
    <2>1. UNCHANGED <<pending, completed, call, tx, guarded>> /\ now' >= now
        BY <1>t, <1>10 DEF Tick, vars, TypeOK
    <2>2. \A r \in Sigs : Sent(r)' = Sent(r) /\ (Closed(r) => Closed(r)')
        BY <1>t, <2>1 DEF Sent, Closed, TypeOK
    <2>3. SerialInv'
        BY <1>t, <2>1, <2>2, ClosingOnly
    <2> QED BY <1>n, <2>1, <2>3
<1> QED
    BY <1>1, <1>2, <1>3, <1>4, <1>5, <1>6, <1>7, <1>8, <1>9, <1>10
    DEF Next, CallerStep, StorageStep, ChainStep

\* The serial invariant holds in every reachable state.
LEMMA SerialInvariant ==
    ASSUME Serialized, Persistent
    PROVE  Spec => [](RecordInv /\ SerialInv)
<1>1. Init => RecordInv /\ SerialInv
    BY RecordInit, SerialInit
<1>2. RecordInv /\ SerialInv /\ [Next]_vars => (RecordInv /\ SerialInv)'
    BY RecordNext, SerialNext
<1> QED BY <1>1, <1>2, PTL DEF Spec

\* If calls for one key never overlap and the storage survives, a recorded
\* transaction that can still land is the unexpired pending record of its key.
THEOREM LiveIsPending ==
    ASSUME Serialized, Persistent
    PROVE  Spec => []LiveTransactionIsPending
<1>1. RecordInv /\ SerialInv => LiveTransactionIsPending
    <2> SUFFICES ASSUME RecordInv, SerialInv, NEW s \in Sigs,
                        guarded[s] > 0, tx[s].status = "inflight",
                        now < tx[s].sentAt + BlockhashLife
                 PROVE  LET record == pending[tx[s].key]
                        IN record # NoRecord /\ record.sig = s /\ now < record.expiresAt
        BY DEF LiveTransactionIsPending
    <2> USE DEF RecordInv, SerialInv, WindowInv, TypeOK
    <2>1. Sent(s) /\ tx[s].key \in Keys /\ tx[s].sentAt \in Nat
        BY TransactionShape DEF Sent, Unsent
    <2>2. now < guarded[s]
        BY <2>1 DEF WindowCoversBlockhash
    <2>3. ~Closed(s)
        BY <2>2 DEF Closed, Errored
    <2>4. ~StoredIn(completed, s)
        BY <2>1 DEF StoredIn, RecordsAreReal, Settled, StoredRecord
    <2>5. pending[tx[s].key] = [sig |-> s, expiresAt |-> guarded[s]]
        BY <2>1, <2>3, <2>4 DEF OpenIsStored, StoredIn
    <2> QED BY <2>1, <2>2, <2>5 DEF StoredRecord
<1> QED BY <1>1, SerialInvariant, PTL

\* Under the same discipline no operation starts while a refusal is still owed
\* for an earlier transaction of its key that has not failed on chain.
THEOREM LaunchesAreJustified ==
    ASSUME Serialized, Persistent
    PROVE  Spec => NoLaunchInWindow
<1>1. RecordInv /\ SerialInv /\ [Next]_vars =>
        [\A c \in Callers : Launches(c) =>
            \A s \in Sigs :
                SentFor(s, call'[c].key) /\ now < guarded[s] => Errored(tx[s].status)]_vars
    <2> SUFFICES ASSUME RecordInv, SerialInv, [Next]_vars,
                        NEW c \in Callers, Launches(c),
                        NEW s \in Sigs, SentFor(s, call'[c].key), now < guarded[s]
                 PROVE  Errored(tx[s].status)
        OBVIOUS
    <2>1. ClosedExcept(call'[c].key, NoSig)
        BY SerialNext
    <2> QED BY <2>1 DEF ClosedExcept, Closed, RecordInv, TypeOK
<1> QED BY <1>1, SerialInvariant, PTL DEF Spec, NoLaunchInWindow

=============================================================================
