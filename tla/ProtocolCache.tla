---------------------------- MODULE ProtocolCache ----------------------------
(***************************************************************************)
(* ProtocolCache: the read-through cache a CoalesceClient keeps of the     *)
(* protocol config and of markets, shared by all of the client's calls.    *)
(*                                                                         *)
(* A read that misses awaits fetchProtocolConfig or fetchMarket, each an   *)
(* RPC request wrapped in withRetry, and stores the answer when it arrives *)
(* whatever happened to the cache meanwhile.  Reads overlap: the cache     *)
(* does not share a fetch in flight.  Time is kept as ages in ticks, so    *)
(* that the clock needs no bound.                                          *)
(***************************************************************************)
EXTENDS Integers

CONSTANTS
    Readers,        \* concurrent calls of the client
    Accounts,       \* the protocol config and the markets
    ProtocolConfig,
    NoEntry,
    NoAnswer,
    Ttl,            \* cacheTtlMs
    MaxRetries,     \* RetryConfig.maxRetries
    ReplyTime,      \* longest way of an RPC answer back to the client
    Lag,            \* how long an RPC node serves a replaced version
    MaxVersion      \* bound on the updates of an account, for model checking

ASSUME BoundsAssumption == {Ttl, MaxRetries, ReplyTime, Lag} \subseteq Nat /\ MaxVersion \in Nat \ {0}
ASSUME NamesAssumption ==
    /\ NoEntry \notin [version: Nat, age: Nat]
    /\ NoAnswer \notin [version: Nat, age: Nat]

VARIABLES
    chain,      \* version of each account on chain, 0 when it does not exist
    obsolete,   \* ticks since a version of an account was replaced
    entry,      \* what the cache holds of an account
    read,       \* where each reader stands in a cache lookup
    lateness,   \* history: ticks since the value last handed out was replaced
    oldest,     \* history: oldest version served when an account was invalidated
    straddled   \* history: an answer was on its way when it was invalidated

vars == <<chain, obsolete, entry, read, lateness, oldest, straddled>>
history == <<lateness, oldest, straddled>>

-----------------------------------------------------------------------------
Versions == 0..MaxVersion
Markets == Accounts \ {ProtocolConfig}
Capped(n, cap) == IF n < cap THEN n ELSE cap

\* A value is handed out at the latest one tick before its entry expires, which
\* is stored when an answer arrives that was computed by a node lagging behind.
StalenessBound == (IF Ttl = 0 THEN 0 ELSE Ttl - 1) + ReplyTime + Lag
Ages == 0..(StalenessBound + 1)

Idle == [pc |-> "idle"]
Reads == {Idle}
    \cup [pc: {"fetching"}, account: Accounts, attempt: 0..MaxRetries,
          answer: [version: Versions, age: 0..ReplyTime] \cup {NoAnswer}]

Fetching(r) == read[r].pc = "fetching"
Answered(r) == Fetching(r) /\ read[r].answer # NoAnswer

\* Date.now() - fetchedAt < ttlMs
Servable(a) == entry[a] # NoEntry /\ entry[a].age < Ttl

\* The versions an RPC node may answer with.
ServedByNodes(a) ==
    {v \in Versions : v = chain[a] \/ (v < chain[a] /\ obsolete[a][v] <= Lag)}

Return(r) == read' = [read EXCEPT ![r] = Idle]

-----------------------------------------------------------------------------
Init ==
    /\ chain \in [Accounts -> {0, 1}]
    /\ obsolete = [a \in Accounts |-> [v \in Versions |-> StalenessBound + 1]]
    /\ entry = [a \in Accounts |-> NoEntry]
    /\ read = [r \in Readers |-> Idle]
    /\ lateness = 0
    /\ oldest = [a \in Accounts |-> 0]
    /\ straddled = [a \in Accounts |-> FALSE]

HandOut(a, v) == lateness' = IF v < chain[a] THEN obsolete[a][v] ELSE 0

\* Mutant: a hit renews the entry.
HitRenews(r, a) ==
    /\ read[r] = Idle
    /\ Servable(a)
    /\ HandOut(a, entry[a].version)
    /\ entry' = [entry EXCEPT ![a].age = 0]
    /\ UNCHANGED <<chain, obsolete, read, oldest, straddled>>

\* getProtocolConfig, getMarket or tryGetMarket finds a fresh entry.
Hit(r, a) ==
    /\ read[r] = Idle
    /\ Servable(a)
    /\ HandOut(a, entry[a].version)
    /\ UNCHANGED <<chain, obsolete, entry, read, oldest, straddled>>

Miss(r, a) ==
    /\ read[r] = Idle
    /\ ~Servable(a)
    /\ read' = [read EXCEPT ![r] =
            [pc |-> "fetching", account |-> a, attempt |-> 0, answer |-> NoAnswer]]
    /\ UNCHANGED <<chain, obsolete, entry, history>>

Answer(r) ==
    /\ Fetching(r) /\ ~Answered(r)
    /\ \E v \in ServedByNodes(read[r].account) :
            read' = [read EXCEPT ![r].answer = [version |-> v, age |-> 0]]
    /\ UNCHANGED <<chain, obsolete, entry, history>>

\* The await returns with account data: store and hand out.
Store(r) ==
    /\ Answered(r)
    /\ LET a == read[r].account
           v == read[r].answer.version
       IN /\ v > 0
          /\ entry' = [entry EXCEPT ![a] = [version |-> v, age |-> 0]]
          /\ HandOut(a, v)
    /\ Return(r)
    /\ UNCHANGED <<chain, obsolete, oldest, straddled>>

\* The await returns null: getMarket and getProtocolConfig throw, tryGetMarket
\* returns null, and none of them stores anything.
Missing(r) ==
    /\ Answered(r)
    /\ read[r].answer.version = 0
    /\ Return(r)
    /\ UNCHANGED <<chain, obsolete, entry, history>>

\* Mutant: the last attempt is never counted.
RetryForever(r) ==
    /\ Fetching(r)
    /\ \/ read' = [read EXCEPT ![r].answer = NoAnswer]
       \/ Return(r)
    /\ UNCHANGED <<chain, obsolete, entry, history>>

\* Mutant: attempt <= maxRetries decides whether there is another attempt.
OneAttemptMore(r) ==
    /\ Fetching(r)
    /\ \/ /\ read[r].attempt <= MaxRetries
          /\ read' = [read EXCEPT ![r].attempt = @ + 1, ![r].answer = NoAnswer]
       \/ Return(r)
    /\ UNCHANGED <<chain, obsolete, entry, history>>

\* withRetry: a retryable error leads to another attempt until maxRetries; any
\* other error, and the last one, is thrown to the caller.
AttemptFails(r) ==
    /\ Fetching(r)
    /\ \/ /\ read[r].attempt < MaxRetries
          /\ read' = [read EXCEPT ![r].attempt = @ + 1, ![r].answer = NoAnswer]
       \/ Return(r)
    /\ UNCHANGED <<chain, obsolete, entry, history>>

\* Mutant: the entries stay, as when only one of the two stores is cleared.
DropNothing(dropped) ==
    /\ oldest' = [a \in Accounts |-> IF a \in dropped THEN chain[a] ELSE oldest[a]]
    /\ straddled' = [a \in Accounts |-> a \notin dropped /\ straddled[a]]
    /\ UNCHANGED <<chain, obsolete, entry, read, lateness>>

Drop(dropped) ==
    /\ entry' = [a \in Accounts |-> IF a \in dropped THEN NoEntry ELSE entry[a]]
    /\ oldest' = [a \in Accounts |->
            IF a \in dropped
            THEN CHOOSE v \in ServedByNodes(a) : \A w \in ServedByNodes(a) : v <= w
            ELSE oldest[a]]
    /\ straddled' = [a \in Accounts |->
            IF a \in dropped
            THEN \E r \in Readers : Answered(r) /\ read[r].account = a
            ELSE straddled[a]]
    /\ UNCHANGED <<chain, obsolete, read, lateness>>

Invalidate == Drop(Accounts)
InvalidateMarket(m) == Drop({m})

-----------------------------------------------------------------------------
\* A transaction writes the account.
Update(a) ==
    /\ chain[a] < MaxVersion
    /\ chain' = [chain EXCEPT ![a] = @ + 1]
    /\ obsolete' = [obsolete EXCEPT ![a][chain[a]] = 0]
    /\ UNCHANGED <<entry, read, history>>

Tick ==
    /\ \A r \in Readers : Answered(r) => read[r].answer.age < ReplyTime
    /\ obsolete' = [a \in Accounts |-> [v \in Versions |->
            Capped(obsolete[a][v] + 1, StalenessBound + 1)]]
    /\ entry' = [a \in Accounts |->
            IF entry[a] = NoEntry THEN NoEntry
            ELSE [entry[a] EXCEPT !.age = Capped(@ + 1, Ttl)]]
    /\ read' = [r \in Readers |->
            IF Answered(r) THEN [read[r] EXCEPT !.answer.age = @ + 1] ELSE read[r]]
    /\ UNCHANGED <<chain, history>>

ReaderStep(r) ==
    \/ \E a \in Accounts : Hit(r, a) \/ Miss(r, a)
    \/ Answer(r)
    \/ Store(r)
    \/ Missing(r)
    \/ AttemptFails(r)

Next ==
    \/ \E r \in Readers : ReaderStep(r)
    \/ Invalidate
    \/ \E m \in Markets : InvalidateMarket(m)
    \/ \E a \in Accounts : Update(a)
    \/ Tick

Spec == Init /\ [][Next]_vars

\* The event loop runs the continuation of a settled await, and an RPC request
\* is answered or fails; nothing makes a request succeed.
Progress(r) == Answer(r) \/ Store(r) \/ Missing(r) \/ AttemptFails(r)

FairSpec == Spec /\ WF_vars(Tick) /\ \A r \in Readers : WF_vars(Progress(r))

-----------------------------------------------------------------------------
(***************************************************************************)
(* Properties.                                                             *)
(***************************************************************************)

\* Every variable has its type; no fetch makes more than maxRetries + 1
\* attempts, and no entry holds an account that does not exist.
TypeOK ==
    /\ chain \in [Accounts -> Versions]
    /\ obsolete \in [Accounts -> [Versions -> Ages]]
    /\ entry \in [Accounts -> [version: Versions \ {0}, age: 0..Ttl] \cup {NoEntry}]
    /\ read \in [Readers -> Reads]
    /\ lateness \in Ages
    /\ oldest \in [Accounts -> Versions]
    /\ straddled \in [Accounts -> BOOLEAN]

\* However reads, retries, late answers and invalidations overlap, no lookup
\* hands out a version that was replaced longer ago than one time to live, the
\* way of an answer and the lag of the node together: an old answer that
\* overwrites a newer entry is not served longer than a timely one.
BoundedStaleness == lateness <= StalenessBound

\* After invalidate or invalidateMarket the cache never holds a version that
\* no node would serve any more when it was called, except from an answer that
\* was on its way to the client at that moment.
FreshAfterInvalidation ==
    \A a \in Accounts :
        entry[a] # NoEntry /\ ~straddled[a] => entry[a].version >= oldest[a]

\* Every lookup ends, with data, null or an error, even when no request ever
\* succeeds: the retries of withRetry are bounded.
ReadsEnd == \A r \in Readers : Fetching(r) ~> read[r] = Idle
=============================================================================
