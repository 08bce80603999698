-------------------------- MODULE ProtocolCacheProofs --------------------------
(***************************************************************************)
(* Proofs about ProtocolCache, for any readers, accounts, time to live,    *)
(* retries and lag.                                                        *)
(*                                                                         *)
(* An answer is at most the lag of its node out of date when it is         *)
(* computed, and then as much more as it has been on its way; an entry     *)
(* adds its age.  So the bound on staleness follows answer by answer, in   *)
(* whatever order the answers arrive and overwrite each other.             *)
(***************************************************************************)
EXTENDS ProtocolCache, WellFoundedInduction, TLAPS

-----------------------------------------------------------------------------
(* The inductive invariant                                                 *)

\* A version that has been replaced was replaced at most this long ago.
ReplacedWithin(a, v, ticks) == v < chain[a] => obsolete[a][v] <= ticks

AnswerInv(r) ==
    Answered(r) =>
        LET a == read[r].account
        IN  /\ ReplacedWithin(a, read[r].answer.version, read[r].answer.age + Lag)
            /\ ~straddled[a] => read[r].answer.version >= oldest[a]

EntryInv(a) ==
    entry[a] # NoEntry =>
        /\ entry[a].age < Ttl =>
               ReplacedWithin(a, entry[a].version, entry[a].age + ReplyTime + Lag)
        /\ ~straddled[a] => entry[a].version >= oldest[a]

\* No node serves again what no node served when the account was dropped.
ServedInv(a) == \A v \in ServedByNodes(a) : v >= oldest[a]

IInv ==
    /\ TypeOK
    /\ BoundedStaleness
    /\ \A r \in Readers : AnswerInv(r)
    /\ \A a \in Accounts : EntryInv(a) /\ ServedInv(a)

-----------------------------------------------------------------------------
(* Types                                                                   *)

LEMMA Bounds ==
    /\ Ttl \in Nat /\ MaxRetries \in Nat /\ ReplyTime \in Nat /\ Lag \in Nat
    /\ MaxVersion \in Nat /\ MaxVersion > 0
    /\ StalenessBound \in Nat /\ ReplyTime + Lag <= StalenessBound
    /\ Ttl > 0 => StalenessBound = Ttl - 1 + ReplyTime + Lag
    BY BoundsAssumption DEF StalenessBound

LEMMA Smallest ==
    ASSUME NEW T \in SUBSET Nat, T # {}
    PROVE  \E m \in T : \A n \in T : m <= n
<1>1. PICK m \in T : \A n \in T : <<n, m>> \notin OpToRel(<, Nat)
    BY WFMin, NatLessThanWellFounded
<1>2. \A n \in T : ~(n < m)
    BY <1>1 DEF OpToRel
<1>. QED
    BY <1>2

LEMMA AccountTypes ==
    ASSUME TypeOK, NEW a \in Accounts
    PROVE  /\ chain[a] \in Versions /\ oldest[a] \in Versions /\ straddled[a] \in BOOLEAN
           /\ \A v \in Versions : obsolete[a][v] \in Ages
           /\ entry[a] # NoEntry =>
                 entry[a].version \in Versions \ {0} /\ entry[a].age \in 0..Ttl
           /\ Versions \subseteq Nat /\ Ages \subseteq Nat
    BY Bounds DEF TypeOK, Versions, Ages

LEMMA ReaderTypes ==
    ASSUME TypeOK, NEW r \in Readers, Fetching(r)
    PROVE  /\ read[r] \in [pc: {"fetching"}, account: Accounts, attempt: 0..MaxRetries,
                           answer: [version: Versions, age: 0..ReplyTime] \cup {NoAnswer}]
           /\ read[r].account \in Accounts /\ read[r].attempt \in 0..MaxRetries
           /\ Answered(r) => /\ read[r].answer \in [version: Versions, age: 0..ReplyTime]
                             /\ read[r].answer.version \in Versions
                             /\ read[r].answer.age \in 0..ReplyTime
<1>1. read[r] \in Reads /\ read[r].pc = "fetching"
    BY DEF TypeOK, Fetching
<1>2. read[r] \in [pc: {"fetching"}, account: Accounts, attempt: 0..MaxRetries,
                   answer: [version: Versions, age: 0..ReplyTime] \cup {NoAnswer}]
    BY <1>1 DEF Reads, Idle
<1>. QED
    BY <1>2 DEF Answered

\* A reader in another state of its lookup.
LEMMA ReadType ==
    ASSUME TypeOK, NEW r \in Readers, NEW k \in Reads, read' = [read EXCEPT ![r] = k]
    PROVE  /\ read' \in [Readers -> Reads] /\ read'[r] = k
           /\ \A q \in Readers \ {r} : read'[q] = read[q]
    BY DEF TypeOK

\* The other parts of the invariant do not look at a reader without an answer.
LEMMA AnswerFrame ==
    ASSUME IInv, UNCHANGED <<chain, obsolete, oldest, straddled>>,
           NEW r \in Readers, \A q \in Readers \ {r} : read'[q] = read[q],
           AnswerInv(r)'
    PROVE  \A q \in Readers : AnswerInv(q)'
<1>1. ASSUME NEW q \in Readers, q # r PROVE AnswerInv(q)'
    BY <1>1 DEF IInv, AnswerInv, Answered, Fetching, ReplacedWithin
<1>. QED
    BY <1>1

LEMMA EntryFrame ==
    ASSUME IInv, UNCHANGED <<chain, obsolete, oldest, straddled>>,
           NEW a \in Accounts, entry'[a] = entry[a]
    PROVE  EntryInv(a)'
    BY DEF IInv, EntryInv, ReplacedWithin

LEMMA ServedFrame ==
    ASSUME IInv, UNCHANGED <<chain, obsolete, oldest>>
    PROVE  \A a \in Accounts : ServedInv(a)'
    BY DEF IInv, ServedInv, ServedByNodes

\* A reader waits for its next answer, or has finished.
LEMMA Waits ==
    ASSUME IInv, NEW r \in Readers, NEW k \in Reads, read' = [read EXCEPT ![r] = k],
           k = Idle \/ k.answer = NoAnswer,
           UNCHANGED <<chain, obsolete, entry, history>>
    PROVE  IInv'
<1>1. /\ read' \in [Readers -> Reads] /\ read'[r] = k
      /\ \A q \in Readers \ {r} : read'[q] = read[q]
    BY ReadType DEF IInv
<1>2. UNCHANGED <<lateness, oldest, straddled>>
    BY DEF history
<1>3. ~Answered(r)'
    BY <1>1 DEF Answered, Fetching, Idle
<1>4. TypeOK' /\ BoundedStaleness'
    BY <1>1, <1>2 DEF IInv, TypeOK, BoundedStaleness
<1>5. \A q \in Readers : AnswerInv(q)'
    BY <1>1, <1>2, <1>3, AnswerFrame DEF AnswerInv
<1>. QED
    BY <1>2, <1>4, <1>5, EntryFrame, ServedFrame DEF IInv

-----------------------------------------------------------------------------
(* The steps of a lookup                                                   *)

LEMMA HitKeeps ==
    ASSUME IInv, NEW r \in Readers, NEW a \in Accounts, Hit(r, a)
    PROVE  IInv'
<1>. DEFINE v == entry[a].version
<1>1. /\ entry[a] # NoEntry /\ entry[a].age < Ttl
      /\ lateness' = IF v < chain[a] THEN obsolete[a][v] ELSE 0
      /\ UNCHANGED <<chain, obsolete, entry, read, oldest, straddled>>
    BY DEF Hit, Servable, HandOut
<1>2. /\ v \in Versions /\ entry[a].age \in Nat /\ entry[a].age <= Ttl
      /\ obsolete[a][v] \in Ages /\ obsolete[a][v] \in Nat /\ Ttl > 0
    BY <1>1, AccountTypes, Bounds DEF IInv
<1>3. lateness' \in Nat /\ lateness' <= StalenessBound
  <2>1. v < chain[a] => obsolete[a][v] <= entry[a].age + ReplyTime + Lag
      BY <1>1 DEF IInv, EntryInv, ReplacedWithin
  <2>. QED
      BY <2>1, <1>1, <1>2, Bounds
<1>4. TypeOK' /\ BoundedStaleness'
    BY <1>1, <1>3, Bounds DEF IInv, TypeOK, BoundedStaleness, Ages
<1>5. \A q \in Readers : AnswerInv(q)'
    BY <1>1 DEF IInv, AnswerInv, Answered, Fetching, ReplacedWithin
<1>. QED
    BY <1>1, <1>4, <1>5, EntryFrame, ServedFrame DEF IInv

LEMMA MissKeeps ==
    ASSUME IInv, NEW r \in Readers, NEW a \in Accounts, Miss(r, a)
    PROVE  IInv'
<1>. DEFINE k == [pc |-> "fetching", account |-> a, attempt |-> 0, answer |-> NoAnswer]
<1>1. k \in Reads /\ k.answer = NoAnswer
    BY Bounds DEF Reads
<1>2. read' = [read EXCEPT ![r] = k] /\ UNCHANGED <<chain, obsolete, entry, history>>
    BY DEF Miss
<1>. HIDE DEF k
<1>. QED
    BY <1>1, <1>2, Waits

LEMMA AnswerKeeps ==
    ASSUME IInv, NEW r \in Readers, Answer(r)
    PROVE  IInv'
<1>1. PICK v \in ServedByNodes(read[r].account) :
          read' = [read EXCEPT ![r].answer = [version |-> v, age |-> 0]]
    BY DEF Answer
<1>. DEFINE a == read[r].account
            k == [read[r] EXCEPT !.answer = [version |-> v, age |-> 0]]
<1>2. /\ Fetching(r) /\ a \in Accounts /\ v \in Versions
      /\ v < chain[a] => obsolete[a][v] <= Lag
      /\ UNCHANGED <<chain, obsolete, entry, lateness, oldest, straddled>>
  <2>1. Fetching(r) /\ UNCHANGED <<chain, obsolete, entry, lateness, oldest, straddled>>
      BY DEF Answer, history
  <2>2. a \in Accounts
      BY <2>1, ReaderTypes DEF IInv
  <2>3. v \in Versions /\ (v = chain[a] \/ (v < chain[a] /\ obsolete[a][v] <= Lag))
      BY <1>1 DEF ServedByNodes
  <2>4. v < chain[a] => obsolete[a][v] <= Lag
    <3>1. v \in Nat /\ chain[a] \in Nat
        BY <2>2, <2>3, AccountTypes DEF IInv
    <3>. QED
        BY <3>1, <2>3
  <2>. QED
      BY <2>1, <2>2, <2>3, <2>4
<1>3. k \in Reads /\ k.account = a /\ k.answer = [version |-> v, age |-> 0]
    BY <1>2, ReaderTypes, Bounds DEF IInv, Reads
<1>4. read' = [read EXCEPT ![r] = k]
    BY <1>1, <1>2 DEF IInv, TypeOK
<1>5. /\ read' \in [Readers -> Reads] /\ read'[r] = k
      /\ \A q \in Readers \ {r} : read'[q] = read[q]
    BY <1>3, <1>4, ReadType DEF IInv
<1>. HIDE DEF k
<1>6. AnswerInv(r)'
  <2>1. v < chain[a] => obsolete[a][v] <= 0 + Lag
      BY <1>2, Bounds
  <2>2. v >= oldest[a]
      BY <1>1, <1>2 DEF IInv, ServedInv
  <2>3. /\ read'[r].account = a /\ read'[r].answer.version = v
        /\ read'[r].answer.age + Lag = 0 + Lag
      BY <1>3, <1>5
  <2>. HIDE DEF a
  <2>. QED
      BY <2>1, <2>2, <2>3, <1>2 DEF AnswerInv, ReplacedWithin
<1>7. \A q \in Readers : AnswerInv(q)'
    BY <1>2, <1>5, <1>6, AnswerFrame
<1>8. TypeOK' /\ BoundedStaleness'
    BY <1>2, <1>5 DEF IInv, TypeOK, BoundedStaleness
<1>. QED
    BY <1>2, <1>7, <1>8, EntryFrame, ServedFrame DEF IInv

LEMMA StoreKeeps ==
    ASSUME IInv, NEW r \in Readers, Store(r)
    PROVE  IInv'
<1>. DEFINE a == read[r].account
            v == read[r].answer.version
            e == [version |-> v, age |-> 0]
<1>1. /\ Answered(r) /\ Fetching(r) /\ v > 0
      /\ entry' = [entry EXCEPT ![a] = e]
      /\ lateness' = IF v < chain[a] THEN obsolete[a][v] ELSE 0
      /\ read' = [read EXCEPT ![r] = Idle]
      /\ UNCHANGED <<chain, obsolete, oldest, straddled>>
    BY DEF Store, Answered, HandOut, Return
<1>2. /\ a \in Accounts /\ v \in Versions /\ v \in Nat /\ read[r].answer.age \in 0..ReplyTime
      /\ obsolete[a][v] \in Nat
    BY <1>1, ReaderTypes, AccountTypes DEF IInv
<1>3. v < chain[a] => obsolete[a][v] <= read[r].answer.age + Lag
    BY <1>1 DEF IInv, AnswerInv, ReplacedWithin
<1>4. v < chain[a] => obsolete[a][v] <= 0 + ReplyTime + Lag
    BY <1>2, <1>3, Bounds
<1>5. lateness' \in Nat /\ lateness' <= StalenessBound
    BY <1>1, <1>2, <1>4, Bounds
<1>6. /\ read' \in [Readers -> Reads] /\ read'[r] = Idle
      /\ \A q \in Readers \ {r} : read'[q] = read[q]
    BY <1>1, ReadType DEF IInv, Reads
<1>7. e \in [version: Versions \ {0}, age: 0..Ttl] /\ e.version = v /\ e.age = 0
    BY <1>1, <1>2, Bounds
<1>8. ~straddled[a] => v >= oldest[a]
    BY <1>1 DEF IInv, AnswerInv
<1>. HIDE DEF a, v, e
<1>9. entry'[a] = e /\ \A b \in Accounts \ {a} : entry'[b] = entry[b]
    BY <1>1, <1>2 DEF IInv, TypeOK
<1>10. TypeOK' /\ BoundedStaleness'
  <2>1. entry' \in [Accounts -> [version: Versions \ {0}, age: 0..Ttl] \cup {NoEntry}]
      BY <1>1, <1>2, <1>7 DEF IInv, TypeOK
  <2>. QED
      BY <2>1, <1>1, <1>5, <1>6, Bounds DEF IInv, TypeOK, BoundedStaleness, Ages
<1>11. \A q \in Readers : AnswerInv(q)'
  <2>1. AnswerInv(r)'
      BY <1>6 DEF AnswerInv, Answered, Fetching, Idle
  <2>. QED
      BY <2>1, <1>1, <1>6, AnswerFrame
<1>12. ASSUME NEW b \in Accounts PROVE EntryInv(b)'
  <2>1. CASE b = a
    <3>1. entry'[b].version = v /\ entry'[b].age = 0
        BY <2>1, <1>7, <1>9
    <3>2. v < chain[b] => obsolete[b][v] <= 0 + ReplyTime + Lag
        BY <2>1, <1>4
    <3>. QED
        BY <2>1, <3>1, <3>2, <1>1, <1>8 DEF EntryInv, ReplacedWithin
  <2>2. CASE b # a
      BY <2>2, <1>1, <1>9, EntryFrame
  <2>. QED
      BY <2>1, <2>2
<1>13. \A b \in Accounts : EntryInv(b)'
    BY <1>12
<1>. QED
    BY <1>1, <1>10, <1>11, <1>13, ServedFrame DEF IInv

LEMMA MissingKeeps ==
    ASSUME IInv, NEW r \in Readers, Missing(r)
    PROVE  IInv'
    BY Waits DEF Missing, Return, Reads

LEMMA AttemptFailsKeeps ==
    ASSUME IInv, NEW r \in Readers, AttemptFails(r)
    PROVE  IInv'
<1>1. Fetching(r) /\ UNCHANGED <<chain, obsolete, entry, history>>
    BY DEF AttemptFails
<1>2. CASE Return(r)
    BY <1>1, <1>2, Waits DEF Return, Reads
<1>3. CASE /\ read[r].attempt < MaxRetries
           /\ read' = [read EXCEPT ![r].attempt = @ + 1, ![r].answer = NoAnswer]
  <2>. DEFINE k == [read[r] EXCEPT !.attempt = @ + 1, !.answer = NoAnswer]
  <2>1. read[r].attempt + 1 \in 0..MaxRetries
      BY <1>1, <1>3, ReaderTypes, Bounds DEF IInv
  <2>2. k \in Reads /\ k.answer = NoAnswer
      BY <2>1, <1>1, ReaderTypes DEF IInv, Reads
  <2>3. read' = [read EXCEPT ![r] = k]
      BY <1>1, <1>3 DEF IInv, TypeOK
  <2>. HIDE DEF k
  <2>. QED
      BY <2>2, <2>3, <1>1, Waits
<1>. QED
    BY <1>2, <1>3 DEF AttemptFails

-----------------------------------------------------------------------------
(* Invalidation, updates and time                                          *)

\* The oldest version that is served.
LEMMA OldestServed ==
    ASSUME IInv, NEW a \in Accounts,
           NEW m, m = CHOOSE v \in ServedByNodes(a) : \A w \in ServedByNodes(a) : v <= w
    PROVE  m \in Versions /\ \A w \in ServedByNodes(a) : m <= w
<1>1. ServedByNodes(a) \in SUBSET Nat /\ ServedByNodes(a) \subseteq Versions
      /\ chain[a] \in ServedByNodes(a)
    BY AccountTypes DEF IInv, ServedByNodes
<1>2. \E v \in ServedByNodes(a) : \A w \in ServedByNodes(a) : v <= w
    BY <1>1, Smallest
<1>. QED
    BY <1>1, <1>2

LEMMA DropKeeps ==
    ASSUME IInv, NEW dropped \in SUBSET Accounts, Drop(dropped)
    PROVE  IInv'
<1>1. /\ entry' = [a \in Accounts |-> IF a \in dropped THEN NoEntry ELSE entry[a]]
      /\ oldest' = [a \in Accounts |->
            IF a \in dropped
            THEN CHOOSE v \in ServedByNodes(a) : \A w \in ServedByNodes(a) : v <= w
            ELSE oldest[a]]
      /\ straddled' = [a \in Accounts |->
            IF a \in dropped
            THEN \E r \in Readers : Answered(r) /\ read[r].account = a
            ELSE straddled[a]]
      /\ UNCHANGED <<chain, obsolete, read, lateness>>
    BY DEF Drop
<1>2. \A a \in dropped : oldest'[a] \in Versions /\ \A w \in ServedByNodes(a) : oldest'[a] <= w
    BY <1>1, OldestServed
<1>3. TypeOK' /\ BoundedStaleness'
  <2>1. oldest' \in [Accounts -> Versions]
      BY <1>1, <1>2 DEF IInv, TypeOK
  <2>2. entry' \in [Accounts -> [version: Versions \ {0}, age: 0..Ttl] \cup {NoEntry}]
      BY <1>1 DEF IInv, TypeOK
  <2>3. straddled' \in [Accounts -> BOOLEAN]
      BY <1>1 DEF IInv, TypeOK
  <2>. QED
      BY <2>1, <2>2, <2>3, <1>1 DEF IInv, TypeOK, BoundedStaleness
<1>4. ASSUME NEW r \in Readers PROVE AnswerInv(r)'
  <2>1. SUFFICES ASSUME Answered(r)
                 PROVE  /\ ReplacedWithin(read[r].account, read[r].answer.version,
                                          read[r].answer.age + Lag)
                        /\ ~straddled'[read[r].account] =>
                               read[r].answer.version >= oldest'[read[r].account]
      BY <1>1 DEF AnswerInv, Answered, Fetching, ReplacedWithin
  <2>2. read[r].account \in Accounts
      BY <2>1, ReaderTypes DEF IInv, Answered
  <2>. QED
      BY <2>1, <2>2, <1>1 DEF IInv, AnswerInv
<1>5. ASSUME NEW a \in Accounts PROVE EntryInv(a)' /\ ServedInv(a)'
  <2>1. EntryInv(a)'
      BY <1>1 DEF IInv, EntryInv, ReplacedWithin
  <2>2. ServedByNodes(a)' = ServedByNodes(a)
      BY <1>1 DEF ServedByNodes
  <2>3. CASE a \in dropped
      BY <2>1, <2>2, <2>3, <1>2, AccountTypes DEF IInv, ServedInv, ServedByNodes
  <2>4. CASE a \notin dropped
      BY <2>1, <2>2, <2>4, <1>1 DEF IInv, ServedInv
  <2>. QED
      BY <2>3, <2>4
<1>. QED
    BY <1>3, <1>4, <1>5 DEF IInv

LEMMA UpdateKeeps ==
    ASSUME IInv, NEW a \in Accounts, Update(a)
    PROVE  IInv'
<1>. DEFINE old == chain[a]
<1>1. /\ old < MaxVersion /\ old \in Versions /\ old \in Nat
      /\ chain' = [chain EXCEPT ![a] = old + 1]
      /\ obsolete' = [obsolete EXCEPT ![a] = [obsolete[a] EXCEPT ![old] = 0]]
      /\ UNCHANGED <<entry, read, lateness, oldest, straddled>>
    BY AccountTypes DEF Update, IInv, TypeOK, history
<1>2. obsolete \in [Accounts -> [Versions -> Ages]] /\ chain \in [Accounts -> Versions]
    BY DEF IInv, TypeOK
<1>3. old + 1 \in Versions /\ 0 \in Ages
    BY <1>1, Bounds DEF Versions, Ages
<1>. HIDE DEF old
<1>4. chain' \in [Accounts -> Versions] /\ obsolete' \in [Accounts -> [Versions -> Ages]]
    BY <1>1, <1>2, <1>3
<1>5. /\ chain'[a] = old + 1 /\ chain[a] = old
      /\ \A v \in Versions : obsolete'[a][v] = IF v = old THEN 0 ELSE obsolete[a][v]
      /\ \A b \in Accounts \ {a} : chain'[b] = chain[b] /\ obsolete'[b] = obsolete[b]
    BY <1>1, <1>2 DEF old
<1>6. ASSUME NEW b \in Accounts, NEW v \in Versions, NEW ticks \in Nat, ReplacedWithin(b, v, ticks)
      PROVE  v < chain'[b] => obsolete'[b][v] <= ticks
  <2>1. CASE b = a
      BY <2>1, <1>1, <1>5, <1>6, AccountTypes DEF ReplacedWithin, IInv
  <2>2. CASE b # a
      BY <2>2, <1>5, <1>6 DEF ReplacedWithin
  <2>. QED
      BY <2>1, <2>2
<1>7. TypeOK' /\ BoundedStaleness'
    BY <1>1, <1>4 DEF IInv, TypeOK, BoundedStaleness
<1>8. ASSUME NEW r \in Readers PROVE AnswerInv(r)'
  <2>1. CASE Answered(r)
    <3>. DEFINE b == read[r].account
                v == read[r].answer.version
                ticks == read[r].answer.age + Lag
    <3>1. b \in Accounts /\ v \in Versions /\ ticks \in Nat
        BY <2>1, ReaderTypes, Bounds DEF IInv, Answered
    <3>2. ReplacedWithin(b, v, ticks) /\ (~straddled[b] => v >= oldest[b])
        BY <2>1 DEF IInv, AnswerInv
    <3>. HIDE DEF b, v, ticks
    <3>3. v < chain'[b] => obsolete'[b][v] <= ticks
        BY <3>1, <3>2, <1>6
    <3>. QED
        BY <3>2, <3>3, <1>1 DEF AnswerInv, b, v, ticks, ReplacedWithin
  <2>2. CASE ~Answered(r)
      BY <2>2, <1>1 DEF AnswerInv, Answered, Fetching
  <2>. QED
      BY <2>1, <2>2
<1>9. ASSUME NEW b \in Accounts PROVE EntryInv(b)'
  <2>1. SUFFICES ASSUME entry[b] # NoEntry PROVE EntryInv(b)'
      BY <1>1 DEF EntryInv
  <2>. DEFINE v == entry[b].version
              ticks == entry[b].age + ReplyTime + Lag
  <2>2. v \in Versions /\ ticks \in Nat
      BY <2>1, AccountTypes, Bounds DEF IInv
  <2>3. entry[b].age < Ttl => ReplacedWithin(b, v, ticks)
      BY <2>1 DEF IInv, EntryInv
  <2>. HIDE DEF v, ticks
  <2>4. entry[b].age < Ttl => (v < chain'[b] => obsolete'[b][v] <= ticks)
      BY <2>2, <2>3, <1>6
  <2>. QED
      BY <2>1, <2>4, <1>1 DEF IInv, EntryInv, v, ticks, ReplacedWithin
<1>10. ASSUME NEW b \in Accounts PROVE ServedInv(b)'
  <2>1. CASE b # a
      BY <2>1, <1>1, <1>5 DEF IInv, ServedInv, ServedByNodes
  <2>2. CASE b = a
    <3>1. old \in ServedByNodes(a) /\ old >= oldest[a] /\ oldest[a] \in Nat
        BY <1>1, <1>5, AccountTypes DEF IInv, ServedInv, ServedByNodes
    <3>2. \A v \in ServedByNodes(a)' : v \in ServedByNodes(a) \/ v = old \/ v = old + 1
        BY <1>1, <1>5, AccountTypes DEF IInv, ServedByNodes
    <3>. QED
        BY <2>2, <3>1, <3>2, <1>1 DEF IInv, ServedInv
  <2>. QED
      BY <2>1, <2>2
<1>. QED
    BY <1>7, <1>8, <1>9, <1>10 DEF IInv

LEMMA TickKeeps ==
    ASSUME IInv, Tick
    PROVE  IInv'
<1>1. /\ \A r \in Readers : Answered(r) => read[r].answer.age < ReplyTime
      /\ obsolete' = [a \in Accounts |-> [v \in Versions |->
            Capped(obsolete[a][v] + 1, StalenessBound + 1)]]
      /\ entry' = [a \in Accounts |->
            IF entry[a] = NoEntry THEN NoEntry
            ELSE [entry[a] EXCEPT !.age = Capped(@ + 1, Ttl)]]
      /\ read' = [r \in Readers |->
            IF Answered(r) THEN [read[r] EXCEPT !.answer.age = @ + 1] ELSE read[r]]
      /\ UNCHANGED <<chain, lateness, oldest, straddled>>
    BY DEF Tick, history
<1>2. ASSUME NEW a \in Accounts, NEW v \in Versions
      PROVE  /\ obsolete'[a][v] \in Ages /\ obsolete'[a][v] <= obsolete[a][v] + 1
             /\ obsolete'[a][v] <= Lag => obsolete[a][v] <= Lag
  <2>1. obsolete'[a][v] = Capped(obsolete[a][v] + 1, StalenessBound + 1)
      BY <1>1
  <2>2. obsolete[a][v] \in Nat
      BY AccountTypes DEF IInv
  <2>. QED
      BY <2>1, <2>2, Bounds DEF Capped, Ages
<1>3. ASSUME NEW a \in Accounts, NEW v \in Versions, NEW ticks \in Nat, ReplacedWithin(a, v, ticks)
      PROVE  v < chain'[a] => obsolete'[a][v] <= ticks + 1
  <2>1. obsolete[a][v] \in Nat /\ obsolete'[a][v] \in Nat
      BY <1>2, AccountTypes, Bounds DEF IInv, Ages
  <2>. QED
      BY <2>1, <1>1, <1>2, <1>3 DEF ReplacedWithin
<1>4. ASSUME NEW a \in Accounts, entry[a] # NoEntry
      PROVE  /\ entry'[a] \in [version: Versions \ {0}, age: 0..Ttl]
             /\ entry'[a].version = entry[a].version
             /\ entry'[a].age < Ttl => entry'[a].age = entry[a].age + 1
  <2>1. entry[a] \in [version: Versions \ {0}, age: 0..Ttl]
      BY <1>4 DEF IInv, TypeOK
  <2>2. entry'[a] = [entry[a] EXCEPT !.age = Capped(entry[a].age + 1, Ttl)]
      BY <1>1, <1>4
  <2>3. /\ Capped(entry[a].age + 1, Ttl) \in 0..Ttl
        /\ Capped(entry[a].age + 1, Ttl) < Ttl =>
               Capped(entry[a].age + 1, Ttl) = entry[a].age + 1
      BY <2>1, Bounds DEF Capped
  <2>. QED
      BY <2>1, <2>2, <2>3
<1>5. ASSUME NEW r \in Readers, Answered(r)
      PROVE  /\ read'[r] \in Reads /\ read'[r].account = read[r].account
             /\ read'[r].answer = [version |-> read[r].answer.version,
                                   age |-> read[r].answer.age + 1]
  <2>1. /\ read[r] \in [pc: {"fetching"}, account: Accounts, attempt: 0..MaxRetries,
                        answer: [version: Versions, age: 0..ReplyTime] \cup {NoAnswer}]
        /\ read[r].answer \in [version: Versions, age: 0..ReplyTime]
      BY <1>5, ReaderTypes DEF IInv, Answered
  <2>2. read[r].answer.age < ReplyTime
      BY <1>1, <1>5
  <2>. DEFINE answer == [read[r].answer EXCEPT !.age = @ + 1]
  <2>3. answer \in [version: Versions, age: 0..ReplyTime]
        /\ answer = [version |-> read[r].answer.version, age |-> read[r].answer.age + 1]
      BY <2>1, <2>2, Bounds
  <2>4. read'[r] = [read[r] EXCEPT !.answer = answer]
      BY <1>1, <1>5
  <2>. HIDE DEF answer
  <2>. QED
      BY <2>1, <2>3, <2>4 DEF Reads
<1>6. \A r \in Readers : ~Answered(r) => read'[r] = read[r]
    BY <1>1
<1>7. TypeOK' /\ BoundedStaleness'
  <2>1. obsolete' \in [Accounts -> [Versions -> Ages]]
      BY <1>1, <1>2
  <2>2. entry' \in [Accounts -> [version: Versions \ {0}, age: 0..Ttl] \cup {NoEntry}]
    <3>1. \A a \in Accounts :
              entry'[a] \in [version: Versions \ {0}, age: 0..Ttl] \cup {NoEntry}
        BY <1>1, <1>4
    <3>2. entry' = [a \in Accounts |-> entry'[a]]
        BY <1>1
    <3>. QED
        BY <3>1, <3>2
  <2>3. read' \in [Readers -> Reads]
    <3>1. \A r \in Readers : read'[r] \in Reads
        BY <1>5, <1>6 DEF IInv, TypeOK
    <3>2. read' = [r \in Readers |-> read'[r]]
        BY <1>1
    <3>. QED
        BY <3>1, <3>2
  <2>. QED
      BY <2>1, <2>2, <2>3, <1>1 DEF IInv, TypeOK, BoundedStaleness
<1>8. ASSUME NEW r \in Readers PROVE AnswerInv(r)'
  <2>1. CASE Answered(r)
    <3>. DEFINE a == read[r].account
                v == read[r].answer.version
                age == read[r].answer.age
    <3>1. a \in Accounts /\ v \in Versions /\ age \in Nat /\ age + Lag \in Nat
        BY <2>1, ReaderTypes, Bounds DEF IInv, Answered
    <3>2. ReplacedWithin(a, v, age + Lag) /\ (~straddled[a] => v >= oldest[a])
        BY <2>1 DEF IInv, AnswerInv
    <3>3. read'[r].account = a /\ read'[r].answer.version = v /\ read'[r].answer.age = age + 1
      <4>1. read'[r].answer = [version |-> v, age |-> age + 1]
          BY <2>1, <1>5
      <4>. QED
          BY <4>1, <2>1, <1>5
    <3>. HIDE DEF a, v, age
    <3>4. v < chain'[a] => obsolete'[a][v] <= (age + Lag) + 1
        BY <3>1, <3>2, <1>3
    <3>5. (age + Lag) + 1 = (age + 1) + Lag
        BY <3>1, Bounds
    <3>6. v < chain'[a] => obsolete'[a][v] <= (age + 1) + Lag
        BY <3>4, <3>5
    <3>. QED
        BY <3>2, <3>3, <3>6, <1>1 DEF AnswerInv, ReplacedWithin
  <2>2. CASE ~Answered(r)
      BY <2>2, <1>6 DEF AnswerInv, Answered, Fetching
  <2>. QED
      BY <2>1, <2>2
<1>9. ASSUME NEW a \in Accounts PROVE EntryInv(a)'
  <2>1. CASE entry[a] = NoEntry
      BY <2>1, <1>1 DEF EntryInv
  <2>2. CASE entry[a] # NoEntry
    <3>. DEFINE v == entry[a].version
                age == entry[a].age
    <3>1. v \in Versions /\ age \in Nat /\ age + ReplyTime + Lag \in Nat /\ age <= Ttl
        BY <2>2, AccountTypes, Bounds DEF IInv
    <3>2. /\ age < Ttl => ReplacedWithin(a, v, age + ReplyTime + Lag)
          /\ ~straddled[a] => v >= oldest[a]
        BY <2>2 DEF IInv, EntryInv
    <3>3. entry'[a].version = v /\ (entry'[a].age < Ttl => entry'[a].age = age + 1)
        BY <2>2, <1>4
    <3>. HIDE DEF v, age
    <3>4. SUFFICES ASSUME entry'[a].age < Ttl
                   PROVE  v < chain'[a] => obsolete'[a][v] <= age + 1 + ReplyTime + Lag
        BY <3>2, <3>3, <1>1 DEF EntryInv, ReplacedWithin
    <3>5. age < Ttl /\ (age + ReplyTime + Lag) + 1 = age + 1 + ReplyTime + Lag
        BY <3>1, <3>3, <3>4, Bounds
    <3>6. v < chain'[a] => obsolete'[a][v] <= (age + ReplyTime + Lag) + 1
        BY <3>1, <3>2, <3>5, <1>3
    <3>. QED
        BY <3>5, <3>6
  <2>. QED
      BY <2>1, <2>2
<1>10. ASSUME NEW a \in Accounts PROVE ServedInv(a)'
  <2>1. ServedByNodes(a)' \subseteq ServedByNodes(a)
      BY <1>1, <1>2 DEF ServedByNodes
  <2>. QED
      BY <2>1, <1>1 DEF IInv, ServedInv
<1>. QED
    BY <1>7, <1>8, <1>9, <1>10 DEF IInv

-----------------------------------------------------------------------------
(* Theorems                                                                *)

LEMMA InitHolds == Init => IInv
<1>. SUFFICES ASSUME Init PROVE IInv
    OBVIOUS
<1>1. {0, 1} \subseteq Versions /\ Versions \subseteq Nat /\ 0 \in Ages /\ StalenessBound + 1 \in Ages
    BY Bounds DEF Versions, Ages
<1>2. TypeOK /\ BoundedStaleness
    BY <1>1, Bounds DEF Init, TypeOK, BoundedStaleness, Reads
<1>3. \A r \in Readers : AnswerInv(r)
    BY DEF Init, AnswerInv, Answered, Fetching, Idle
<1>4. \A a \in Accounts : EntryInv(a) /\ ServedInv(a)
    BY <1>1 DEF Init, EntryInv, ServedInv, ServedByNodes
<1>. QED
    BY <1>2, <1>3, <1>4 DEF IInv

LEMMA StepKeeps == IInv /\ [Next]_vars => IInv'
<1>. SUFFICES ASSUME IInv, [Next]_vars PROVE IInv'
    OBVIOUS
<1>1. ASSUME NEW r \in Readers, ReaderStep(r) PROVE IInv'
    BY <1>1, HitKeeps, MissKeeps, AnswerKeeps, StoreKeeps, MissingKeeps, AttemptFailsKeeps
       DEF ReaderStep
<1>2. CASE Invalidate \/ \E m \in Markets : InvalidateMarket(m)
    BY <1>2, DropKeeps DEF Invalidate, InvalidateMarket, Markets
<1>3. CASE UNCHANGED vars
    BY <1>3 DEF vars, IInv, TypeOK, BoundedStaleness, AnswerInv, Answered, Fetching,
       ReplacedWithin, EntryInv, ServedInv, ServedByNodes
<1>. QED
    BY <1>1, <1>2, <1>3, UpdateKeeps, TickKeeps DEF Next

THEOREM Invariant == Spec => []IInv
    BY InitHolds, StepKeeps, PTL DEF Spec

\* Every reachable state of the cache is well typed: no fetch makes more
\* attempts than withRetry allows.
THEOREM TypeCorrect == Spec => []TypeOK
<1>1. IInv => TypeOK
    BY DEF IInv
<1>. QED
    BY <1>1, Invariant, PTL

\* However lookups, late answers and invalidations overlap, no value is handed
\* out later than one time to live, one answer's way and the lag allow.
THEOREM StalenessIsBounded == Spec => []BoundedStaleness
<1>1. IInv => BoundedStaleness
    BY DEF IInv
<1>. QED
    BY <1>1, Invariant, PTL

\* What was outdated when an account was invalidated never comes back into the
\* cache, except in an answer that was on its way.
THEOREM InvalidationHolds == Spec => []FreshAfterInvalidation
<1>1. IInv => FreshAfterInvalidation
    BY DEF IInv, EntryInv, FreshAfterInvalidation
<1>. QED
    BY <1>1, Invariant, PTL
=============================================================================
