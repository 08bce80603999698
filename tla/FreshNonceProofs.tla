--------------------------- MODULE FreshNonceProofs ---------------------------
(***************************************************************************)
(* Proofs about FreshNonce, for any number of calls, any size of the nonce *)
(* space, window and batch, and any markets and dust that are there.       *)
(*                                                                         *)
(* A call sends a second transaction only when the first is void for good, *)
(* and a probe passes over a nonce only when it has seen its market; both  *)
(* are carried by what each call remembers of its way.                     *)
(***************************************************************************)
EXTENDS FreshNonce, TLAPS

-----------------------------------------------------------------------------
(* The inductive invariant                                                 *)

\* The nonces the probe that runs or ran last has passed over.
Passed(c) ==
    IF call[c].pc = "sending"
    THEN call[c].floor..call[c].tried[Len(call[c].tried)] - 1
    ELSE call[c].floor..Lesser(call[c].start, ProbeEnd(call[c].floor)) - 1

Probing(c) == call[c].pc = "probing"
Void == {"collided", "rolledback"}

CallInv(c) ==
    /\ call[c].floor \in MinNonce..NonceEnd
    /\ call[c].start >= call[c].floor
    /\ Probing(c) => Len(call[c].tried) <= 1
    /\ call[c].pc = "sending" =>
          /\ Len(call[c].tried) >= 1
          /\ call[c].start <= call[c].tried[Len(call[c].tried)]
    /\ \A i \in DOMAIN call[c].tried : call[c].tried[i] >= MinNonce
    /\ Len(call[c].tried) = 2 => call[c].tried[2] > call[c].tried[1]
    /\ Len(call[c].tried) = 1 /\ Probing(c) => call[c].floor > call[c].tried[1]
    \* A transaction is followed by another one only if it is void.
    /\ Len(call[c].tried) = 2 \/ (Len(call[c].tried) = 1 /\ Probing(c)) => tx[c][1] \in Void

\* The markets a call has opened are those of its transactions.
OwnInv(c) ==
    /\ \A n \in Nonces : market[n] = c => \E i \in DOMAIN tx[c] : tx[c][i] = "opened"
    /\ \A i \in DOMAIN tx[c] : tx[c][i] = "opened" => market[call[c].tried[i]] = c

IInv ==
    /\ TypeOK
    /\ \A c \in Callers : CallInv(c) /\ OwnInv(c) /\ Passed(c) \subseteq Taken

-----------------------------------------------------------------------------
(* One call                                                                *)

LEMMA Types ==
    ASSUME TypeOK, NEW c \in Callers
    PROVE  /\ call[c].pc \in {"probing", "sending", "signature", "error"}
           /\ call[c].tried \in Seq(Nonces)
           /\ call[c].floor \in 0..NonceEnd
           /\ call[c].start \in Nat
           /\ tx[c] \in Seq(Fates)
           /\ Len(tx[c]) = Len(call[c].tried) /\ Len(tx[c]) \in 0..2
           /\ DOMAIN tx[c] = DOMAIN call[c].tried
           /\ DOMAIN tx[c] = 1..Len(tx[c])
<1>1. call[c] \in Calls /\ tx[c] \in Seq(Fates)
      /\ Len(tx[c]) = Len(call[c].tried) /\ Len(tx[c]) <= 2
    BY DEF TypeOK
<1>2. /\ call[c].pc \in {"probing", "sending", "signature", "error"}
      /\ call[c].tried \in Seq(Nonces)
      /\ call[c].floor \in 0..NonceEnd
      /\ call[c].start \in Nat
    BY <1>1 DEF Calls
<1>3. /\ DOMAIN tx[c] = 1..Len(tx[c]) /\ Len(tx[c]) \in Nat
      /\ DOMAIN call[c].tried = 1..Len(call[c].tried)
    BY <1>1, <1>2
<1>4. DOMAIN tx[c] = DOMAIN call[c].tried
    BY ONLY <1>1, <1>3, Zenon
<1>5. Len(tx[c]) \in 0..2
  <2>1. \A n \in Nat : n <= 2 => n \in 0..2
      OBVIOUS
  <2>. QED
      BY <2>1, <1>1, <1>3, Zenon
<1>. QED
    BY <1>1, <1>2, <1>3, <1>4, <1>5

LEMMA Numbers ==
    /\ NonceEnd \in Nat \ {0} /\ MinNonce \in Nat /\ MinNonce < NonceEnd
    /\ MaxProbe \in Nat \ {0} /\ BatchSize \in Nat \ {0}
    /\ \A floor \in 0..NonceEnd : /\ ProbeEnd(floor) \in Nat /\ ProbeEnd(floor) <= NonceEnd
                                  /\ ProbeEnd(floor) >= floor
    BY ProbeAssumption DEF ProbeEnd, Lesser

\* What another call does leaves a call alone.
LEMMA Undisturbed ==
    ASSUME IInv, NEW c \in Callers, call'[c] = call[c], tx'[c] = tx[c],
           \A n \in Nonces : market'[n] = market[n] \/ (market[n] = Nobody /\ market'[n] # c
                                                        /\ market'[n] # Nobody)
    PROVE  CallInv(c)' /\ OwnInv(c)' /\ Passed(c)' \subseteq Taken'
<1>1. CallInv(c)'
    BY DEF IInv, CallInv, Probing
<1>2. OwnInv(c)'
  <2>1. \A i \in DOMAIN tx[c] : call[c].tried[i] \in Nonces
      BY Types DEF IInv
  <2>2. c # Nobody
      BY NamesAssumption
  <2>. QED
      BY <2>1, <2>2 DEF IInv, OwnInv
<1>3. Passed(c)' = Passed(c) /\ Taken \subseteq Taken'
    BY DEF Passed, Taken
<1>. QED
    BY <1>1, <1>2, <1>3 DEF IInv

\* A step of one call that opens no market.
LEMMA CallSteps ==
    ASSUME IInv, NEW c \in Callers, UNCHANGED market,
           NEW k \in Calls, call' = [call EXCEPT ![c] = k],
           NEW t \in Seq(Fates), tx' = [tx EXCEPT ![c] = t],
           Len(t) = Len(k.tried), Len(t) <= 2,
           CallInv(c)', OwnInv(c)', Passed(c)' \subseteq Taken
    PROVE  IInv'
<1>1. /\ call'[c] = k /\ tx'[c] = t
      /\ \A d \in Callers \ {c} : call'[d] = call[d] /\ tx'[d] = tx[d]
      /\ Taken' = Taken
    BY DEF IInv, TypeOK, Taken
<1>2. TypeOK'
    BY <1>1 DEF IInv, TypeOK
<1>3. \A d \in Callers \ {c} : CallInv(d)' /\ OwnInv(d)' /\ Passed(d)' \subseteq Taken'
    BY <1>1, Undisturbed
<1>. QED
    BY <1>1, <1>2, <1>3 DEF IInv

\* A call that ends keeps what it knows, unless its probe was cut short.
LEMMA Ends ==
    ASSUME IInv, NEW c \in Callers, NEW pc \in {"signature", "error"}, End(c, pc),
           UNCHANGED <<market, tx>>
    PROVE  IInv'
<1>. DEFINE k == [call[c] EXCEPT !.pc = pc]
<1>1. /\ k \in Calls /\ call' = [call EXCEPT ![c] = k] /\ tx' = [tx EXCEPT ![c] = tx[c]]
      /\ tx[c] \in Seq(Fates) /\ Len(tx[c]) = Len(k.tried) /\ Len(tx[c]) <= 2
    BY DEF IInv, TypeOK, Calls, End
<1>2. /\ call'[c].pc = pc /\ call'[c].tried = call[c].tried /\ call'[c].floor = call[c].floor
      /\ call'[c].start = call[c].start /\ tx'[c] = tx[c]
    BY <1>1 DEF IInv, TypeOK, Calls
<1>3. CallInv(c)' /\ OwnInv(c)'
    BY <1>2 DEF IInv, CallInv, OwnInv, Probing
<1>4. Passed(c)' \subseteq Passed(c)
  <2>1. Passed(c)' = call[c].floor..Lesser(call[c].start, ProbeEnd(call[c].floor)) - 1
      BY <1>2 DEF Passed
  <2>2. CASE call[c].pc = "sending"
    <3>. DEFINE last == call[c].tried[Len(call[c].tried)]
                a == call[c].floor
                l == Lesser(call[c].start, ProbeEnd(call[c].floor))
    <3>1. call[c].start <= last /\ Len(call[c].tried) >= 1
        BY <2>2 DEF IInv, CallInv
    <3>2. last \in Nat
      <4>1. call[c].tried \in Seq(Nonces) /\ Len(call[c].tried) \in DOMAIN call[c].tried
          BY <3>1, Types DEF IInv
      <4>2. last \in Nonces
          BY <4>1
      <4>. QED
          BY <4>2 DEF Nonces
    <3>3. l <= call[c].start /\ l \in Nat /\ call[c].start \in Nat /\ a \in Nat
        BY Types, Numbers DEF IInv, Lesser
    <3>4. Passed(c) = a..last - 1
        BY <2>2 DEF Passed
    <3>. HIDE DEF last, a, l
    <3>5. a..l - 1 \subseteq a..last - 1
        BY <3>1, <3>2, <3>3
    <3>. QED
        BY <2>1, <3>4, <3>5 DEF a, l
  <2>3. CASE call[c].pc # "sending"
      BY <2>1, <2>3 DEF Passed
  <2>. QED
      BY <2>2, <2>3
<1>. HIDE DEF k
<1>. QED
    BY <1>1, <1>3, <1>4, CallSteps DEF IInv

-----------------------------------------------------------------------------
(* The steps                                                               *)

LEMMA BatchEmpty ==
    ASSUME IInv, NEW c \in Callers, Probing(c),
           call[c].start < ProbeEnd(call[c].floor), Batch(c) \subseteq Taken,
           call' = [call EXCEPT ![c].start = @ + BatchSize], UNCHANGED <<tx, market>>
    PROVE  IInv'
<1>. DEFINE k == [call[c] EXCEPT !.start = @ + BatchSize]
<1>1. /\ k \in Calls /\ call' = [call EXCEPT ![c] = k] /\ tx' = [tx EXCEPT ![c] = tx[c]]
      /\ tx[c] \in Seq(Fates) /\ Len(tx[c]) = Len(k.tried) /\ Len(tx[c]) <= 2
  <2>1. call[c] \in Calls /\ call[c].start + BatchSize \in Nat
      BY Types, Numbers DEF IInv, TypeOK
  <2>2. k \in Calls /\ k.tried = call[c].tried
      BY <2>1 DEF Calls
  <2>3. call' = [call EXCEPT ![c] = k] /\ tx' = [tx EXCEPT ![c] = tx[c]]
      BY DEF IInv, TypeOK
  <2>4. /\ tx[c] \in Seq(Fates) /\ Len(tx[c]) = Len(call[c].tried) /\ Len(tx[c]) <= 2
      BY DEF IInv, TypeOK
  <2>. HIDE DEF k
  <2>. QED
      BY <2>2, <2>3, <2>4
<1>2. /\ call'[c].pc = call[c].pc /\ call'[c].tried = call[c].tried
      /\ call'[c].floor = call[c].floor
      /\ call'[c].start = call[c].start + BatchSize /\ tx'[c] = tx[c]
    BY <1>1 DEF IInv, TypeOK, Calls
<1>3. CallInv(c)' /\ OwnInv(c)'
    BY <1>2, Types, Numbers DEF IInv, CallInv, OwnInv, Probing
<1>4. Passed(c)' \subseteq Taken
  <2>. DEFINE a == call[c].floor
              s == call[c].start
              e == ProbeEnd(call[c].floor)
  <2>1. Passed(c)' = a..Lesser(s + BatchSize, e) - 1
      BY <1>2 DEF Passed, Probing
  <2>2. Passed(c) = a..s - 1 /\ Passed(c) \subseteq Taken
      BY Types, Numbers DEF Passed, Probing, Lesser, IInv
  <2>3. Batch(c) = s..Lesser(s + BatchSize, e) - 1
      BY DEF Batch
  <2>4. a \in Nat /\ s \in Nat /\ e \in Nat /\ Lesser(s + BatchSize, e) \in Nat
      BY Types, Numbers DEF IInv, Lesser
  <2>. HIDE DEF a, s, e
  <2>5. a..Lesser(s + BatchSize, e) - 1 \subseteq (a..s - 1) \cup (s..Lesser(s + BatchSize, e) - 1)
      BY <2>4
  <2>. QED
      BY <2>1, <2>2, <2>3, <2>5
<1>. HIDE DEF k
<1>. QED
    BY <1>1, <1>3, <1>4, CallSteps DEF IInv

LEMMA BatchHit ==
    ASSUME IInv, NEW c \in Callers, Probing(c),
           call[c].start < ProbeEnd(call[c].floor),
           NEW n \in Batch(c), \A m \in Batch(c) : m < n => m \in Taken,
           call' = [call EXCEPT ![c].pc = "sending", ![c].tried = Append(@, n)],
           tx' = [tx EXCEPT ![c] = Append(@, "inflight")], UNCHANGED market
    PROVE  IInv'
<1>. DEFINE k == [call[c] EXCEPT !.pc = "sending", !.tried = Append(@, n)]
            tried == call[c].tried
<1>1. /\ n \in Nonces /\ n >= call[c].start /\ call[c].start >= call[c].floor
      /\ call[c].floor >= MinNonce
    BY Types, Numbers DEF Batch, Lesser, Nonces, IInv, CallInv
<1>2. /\ tried \in Seq(Nonces) /\ Len(tried) \in {0, 1} /\ tx[c] \in Seq(Fates)
      /\ Len(tx[c]) = Len(tried) /\ \A i \in DOMAIN tried : tried[i] \in Nonces
    BY Types DEF IInv, CallInv
<1>3. /\ k \in Calls /\ call' = [call EXCEPT ![c] = k]
      /\ Append(tx[c], "inflight") \in Seq(Fates)
      /\ tx' = [tx EXCEPT ![c] = Append(tx[c], "inflight")]
      /\ Len(Append(tx[c], "inflight")) = Len(k.tried)
      /\ Len(Append(tx[c], "inflight")) <= 2
    BY <1>1, <1>2 DEF IInv, TypeOK, Calls, Fates
<1>4. /\ call'[c].pc = "sending" /\ call'[c].tried = Append(tried, n)
      /\ call'[c].floor = call[c].floor /\ call'[c].start = call[c].start
      /\ tx'[c] = Append(tx[c], "inflight")
    BY <1>3 DEF IInv, TypeOK, Calls
<1>. HIDE DEF tried
<1>5. /\ Len(Append(tried, n)) = Len(tried) + 1
      /\ Append(tried, n)[Len(tried) + 1] = n
      /\ \A i \in DOMAIN tried : Append(tried, n)[i] = tried[i]
      /\ \A i \in DOMAIN Append(tried, n) : i \in DOMAIN tried \/ i = Len(tried) + 1
    BY <1>1, <1>2
<1>6. CallInv(c)'
  <2>1. \A i \in DOMAIN Append(tried, n) : Append(tried, n)[i] >= MinNonce
    <3>1. \A i \in DOMAIN tried : tried[i] >= MinNonce
        BY DEF IInv, CallInv, tried
    <3>2. n >= MinNonce
        BY <1>1, Types, Numbers DEF IInv, Nonces
    <3>. QED
        BY <3>1, <3>2, <1>5
  <2>2. Len(Append(tried, n)) = 2 =>
            /\ Append(tried, n)[2] > Append(tried, n)[1]
            /\ Append(tx[c], "inflight")[1] \in Void
    <3>1. SUFFICES ASSUME Len(tried) = 1
                   PROVE  n > tried[1] /\ Append(tx[c], "inflight")[1] = tx[c][1]
                          /\ tx[c][1] \in Void
        BY <1>2, <1>5
    <3>2. call[c].floor > tried[1] /\ tx[c][1] \in Void
        BY <3>1 DEF IInv, CallInv, tried
    <3>3. Append(tx[c], "inflight")[1] = tx[c][1]
        BY <3>1, <1>2
    <3>4. tried[1] \in Nat /\ n \in Nat /\ call[c].floor \in Nat /\ call[c].start \in Nat
      <4>1. 1 \in DOMAIN tried
          BY <3>1, <1>2
      <4>. QED
          BY <4>1, <1>1, <1>2, Types DEF IInv, Nonces
    <3>. QED
        BY <3>2, <3>3, <3>4, <1>1
  <2>3. Len(Append(tried, n)) >= 1 /\ call[c].start <= Append(tried, n)[Len(Append(tried, n))]
      BY <1>1, <1>2, <1>5, Types DEF IInv, Nonces
  <2>. QED
      BY <2>1, <2>2, <2>3, <1>4 DEF IInv, CallInv, Probing
<1>7. OwnInv(c)'
  <2>1. /\ \A i \in DOMAIN tx[c] : /\ i \in DOMAIN Append(tx[c], "inflight")
                                   /\ Append(tx[c], "inflight")[i] = tx[c][i]
                                   /\ Append(tried, n)[i] = tried[i]
        /\ \A i \in DOMAIN Append(tx[c], "inflight") :
               i \in DOMAIN tx[c] \/ Append(tx[c], "inflight")[i] = "inflight"
      BY <1>2, <1>5
  <2>2. /\ \A m \in Nonces : market[m] = c => \E i \in DOMAIN tx[c] : tx[c][i] = "opened"
        /\ \A i \in DOMAIN tx[c] : tx[c][i] = "opened" => market[tried[i]] = c
      BY DEF IInv, OwnInv, tried
  <2>3. \A m \in Nonces : market[m] = c => \E i \in DOMAIN Append(tx[c], "inflight") :
                                              Append(tx[c], "inflight")[i] = "opened"
      BY <2>1, <2>2
  <2>4. \A i \in DOMAIN Append(tx[c], "inflight") :
            Append(tx[c], "inflight")[i] = "opened" => market[Append(tried, n)[i]] = c
      BY <2>1, <2>2
  <2>. QED
      BY <2>3, <2>4, <1>4 DEF OwnInv
<1>8. Passed(c)' \subseteq Taken
  <2>. DEFINE a == call[c].floor
              s == call[c].start
  <2>1. Passed(c)' = a..n - 1
      BY <1>4, <1>5 DEF Passed
  <2>2. Passed(c) = a..s - 1 /\ Passed(c) \subseteq Taken
      BY Types, Numbers DEF Passed, Probing, Lesser, IInv
  <2>3. a \in Nat /\ s \in Nat /\ n \in Nat
      BY <1>1, Types DEF IInv, Nonces
  <2>4. \A m \in s..n - 1 : m \in Batch(c)
      BY <2>3, Types, Numbers DEF Batch, Lesser, IInv
  <2>. HIDE DEF a, s
  <2>5. \A m \in a..n - 1 : m \in a..s - 1 \/ (m \in s..n - 1 /\ m < n)
      BY <2>3
  <2>. QED
      BY <2>1, <2>2, <2>4, <2>5
<1>. HIDE DEF k
<1>. QED
    BY <1>3, <1>6, <1>7, <1>8, CallSteps

LEMMA ProbeBatchKeeps ==
    ASSUME IInv, NEW c \in Callers, ProbeBatch(c)
    PROVE  IInv'
<1>1. Probing(c) /\ call[c].start < ProbeEnd(call[c].floor) /\ UNCHANGED market
    BY DEF ProbeBatch, Probing
<1>2. PICK seen \in SUBSET Taken :
          LET free == {n \in Batch(c) : Free(n, seen)}
          IN  \/ /\ free = {}
                 /\ call' = [call EXCEPT ![c].start = @ + BatchSize]
                 /\ UNCHANGED tx
              \/ \E n \in free :
                  /\ \A m \in free : n <= m
                  /\ call' = [call EXCEPT ![c].pc = "sending", ![c].tried = Append(@, n)]
                  /\ tx' = [tx EXCEPT ![c] = Append(@, "inflight")]
    BY DEF ProbeBatch
<1>. DEFINE free == {n \in Batch(c) : Free(n, seen)}
<1>3. \A n \in Batch(c) : n \in free \/ n \in Taken
    BY DEF Free, Account
<1>4. CASE free = {} /\ call' = [call EXCEPT ![c].start = @ + BatchSize] /\ UNCHANGED tx
    BY <1>1, <1>3, <1>4, BatchEmpty
<1>5. ASSUME NEW n \in free, \A m \in free : n <= m,
             call' = [call EXCEPT ![c].pc = "sending", ![c].tried = Append(@, n)],
             tx' = [tx EXCEPT ![c] = Append(@, "inflight")]
      PROVE  IInv'
  <2>1. \A m \in Batch(c) : m \in Int
      BY DEF Batch
  <2>2. \A m \in Batch(c) : m < n => m \in Taken
      BY <2>1, <1>3, <1>5
  <2>. QED
      BY <2>2, <1>1, <1>5, BatchHit
<1>. QED
    BY <1>2, <1>4, <1>5

\* A rejection that names the collision proves that the transaction is void.
LEMMA CollisionIsVoid ==
    ASSUME NEW c \in Callers, NEW error \in Rejections(c), Collision(error)
    PROVE  Fate(c) \in Void
    BY DEF Rejections, Collision, OtherError, Error, MarketAlreadyExists, Void

LEMMA RetryKeeps ==
    ASSUME IInv, NEW c \in Callers, Len(call[c].tried) = 1, Fate(c) \in Void,
           call' = [call EXCEPT ![c].pc = "probing",
                                ![c].floor = RetryFloor(c), ![c].start = RetryFloor(c)],
           UNCHANGED <<tx, market>>
    PROVE  IInv'
<1>. DEFINE k == [call[c] EXCEPT !.pc = "probing", !.floor = RetryFloor(c), !.start = RetryFloor(c)]
<1>1. call[c].tried[1] \in Nonces
    BY Types DEF IInv
<1>2. /\ RetryFloor(c) \in MinNonce..NonceEnd /\ RetryFloor(c) > call[c].tried[1]
      /\ RetryFloor(c) \in Nat
    BY <1>1, Numbers DEF RetryFloor, Greater, Nonces
<1>3. /\ k \in Calls /\ call' = [call EXCEPT ![c] = k] /\ tx' = [tx EXCEPT ![c] = tx[c]]
      /\ tx[c] \in Seq(Fates) /\ Len(tx[c]) = Len(k.tried) /\ Len(tx[c]) <= 2
  <2>1. call[c] \in Calls /\ RetryFloor(c) \in 0..NonceEnd
      BY <1>2, Numbers DEF IInv, TypeOK
  <2>2. k \in Calls /\ k.tried = call[c].tried
      BY <2>1, <1>2 DEF Calls
  <2>3. call' = [call EXCEPT ![c] = k] /\ tx' = [tx EXCEPT ![c] = tx[c]]
      BY DEF IInv, TypeOK
  <2>4. /\ tx[c] \in Seq(Fates) /\ Len(tx[c]) = Len(call[c].tried) /\ Len(tx[c]) <= 2
      BY DEF IInv, TypeOK
  <2>. HIDE DEF k
  <2>. QED
      BY <2>2, <2>3, <2>4
<1>4. /\ call'[c].pc = "probing" /\ call'[c].tried = call[c].tried
      /\ call'[c].floor = RetryFloor(c) /\ call'[c].start = RetryFloor(c) /\ tx'[c] = tx[c]
    BY <1>3 DEF IInv, TypeOK, Calls
<1>5. tx[c][1] \in Void
    BY Types DEF IInv, Fate
<1>6. CallInv(c)' /\ OwnInv(c)'
  <2>1. CallInv(c)'
    <3>1. /\ RetryFloor(c) \in MinNonce..NonceEnd /\ RetryFloor(c) >= RetryFloor(c)
          /\ Len(call[c].tried) <= 1 /\ Len(call[c].tried) # 2
          /\ \A i \in DOMAIN call[c].tried : call[c].tried[i] >= MinNonce
        BY <1>2 DEF IInv, CallInv
    <3>. QED
        BY <3>1, <1>2, <1>4, <1>5 DEF CallInv, Probing
  <2>2. OwnInv(c)'
      BY <1>4 DEF IInv, OwnInv
  <2>. QED
      BY <2>1, <2>2
<1>7. Passed(c)' \subseteq Taken
  <2>1. Passed(c)' = RetryFloor(c)..Lesser(RetryFloor(c), ProbeEnd(RetryFloor(c))) - 1
      BY <1>4 DEF Passed
  <2>2. ProbeEnd(RetryFloor(c)) \in Nat /\ ProbeEnd(RetryFloor(c)) >= RetryFloor(c)
      BY <1>2, Numbers
  <2>. QED
      BY <2>1, <2>2, <1>2 DEF Lesser
<1>. HIDE DEF k
<1>. QED
    BY <1>3, <1>6, <1>7, CallSteps

LEMMA CallStepKeeps ==
    ASSUME IInv, NEW c \in Callers, CallStep(c)
    PROVE  IInv'
<1>1. CASE ProbeBatch(c)
    BY <1>1, ProbeBatchKeeps
<1>2. CASE ProbeExhausted(c) \/ ProbeFails(c) \/ SendResolves(c)
    BY <1>2, Ends DEF ProbeExhausted, ProbeFails, SendResolves
<1>3. CASE SendRejects(c)
    BY <1>3, CollisionIsVoid, RetryKeeps, Ends DEF SendRejects
<1>. QED
    BY <1>1, <1>2, <1>3 DEF CallStep

\* The program lets a transaction open a market only where there is none.
LEMMA LandKeeps ==
    ASSUME IInv, NEW c \in Callers, NEW i \in DOMAIN tx[c], Land(c, i)
    PROVE  IInv'
<1>. DEFINE n == call[c].tried[i]
<1>1. /\ tx[c][i] = "inflight" /\ n \in Nonces /\ UNCHANGED call
      /\ \/ market[n] = Nobody /\ market' = [market EXCEPT ![n] = c] /\ tx'[c][i] = "opened"
         \/ market' = market /\ tx'[c][i] \in Void
      /\ \A j \in DOMAIN tx[c] : j # i => tx'[c][j] = tx[c][j]
      /\ tx' \in [Callers -> Seq(Fates)] /\ Len(tx'[c]) = Len(tx[c])
      /\ DOMAIN tx'[c] = DOMAIN tx[c]
      /\ \A d \in Callers \ {c} : tx'[d] = tx[d]
  <2>1. tx[c][i] = "inflight" /\ n \in Nonces /\ UNCHANGED call
      BY Types DEF Land, IInv
  <2>2. PICK fate \in {"opened", "collided", "rolledback"} :
            /\ tx' = [tx EXCEPT ![c][i] = fate]
            /\ \/ market[n] = Nobody /\ market' = [market EXCEPT ![n] = c] /\ fate = "opened"
               \/ market' = market /\ fate \in Void
      BY DEF Land, Void
  <2>3. tx' = [tx EXCEPT ![c] = [tx[c] EXCEPT ![i] = fate]]
      BY <2>2
  <2>4. /\ [tx[c] EXCEPT ![i] = fate] \in Seq(Fates)
        /\ Len([tx[c] EXCEPT ![i] = fate]) = Len(tx[c])
        /\ DOMAIN [tx[c] EXCEPT ![i] = fate] = DOMAIN tx[c]
        /\ [tx[c] EXCEPT ![i] = fate][i] = fate
        /\ \A j \in DOMAIN tx[c] : j # i => [tx[c] EXCEPT ![i] = fate][j] = tx[c][j]
      BY Types DEF IInv, Fates
  <2>5. tx \in [Callers -> Seq(Fates)]
      BY DEF IInv, TypeOK
  <2>. QED
      BY <2>1, <2>2, <2>3, <2>4, <2>5
<1>. HIDE DEF n
<1>2. c # Nobody /\ Callers \cap {Nobody, Earlier} = {}
    BY NamesAssumption
<1>3. market \in [Nonces -> Callers \cup {Nobody, Earlier}]
    BY DEF IInv, TypeOK
<1>4. TypeOK'
  <2>1. market' \in [Nonces -> Callers \cup {Nobody, Earlier}]
      BY <1>1, <1>3
  <2>2. \A d \in Callers : Len(tx'[d]) = Len(call[d].tried) /\ Len(tx'[d]) <= 2
      BY <1>1 DEF IInv, TypeOK
  <2>. QED
      BY <2>1, <2>2, <1>1 DEF IInv, TypeOK
<1>5. \A m \in Nonces : market'[m] = market[m] \/ (market[m] = Nobody /\ market'[m] = c)
    BY <1>1, <1>3
<1>6. \A d \in Callers \ {c} : CallInv(d)' /\ OwnInv(d)' /\ Passed(d)' \subseteq Taken'
    BY <1>1, <1>2, <1>5, Undisturbed
<1>7. CallInv(c)'
  <2>1. Len(call[c].tried) = 2 \/ (Len(call[c].tried) = 1 /\ Probing(c)) => i # 1 /\ tx[c][1] \in Void
      BY <1>1 DEF IInv, CallInv, Void
  <2>2. Len(call[c].tried) >= 1 => 1 \in DOMAIN tx[c]
      BY Types DEF IInv
  <2>3. Len(call[c].tried) = 2 \/ (Len(call[c].tried) = 1 /\ Probing(c)) => tx'[c][1] \in Void
      BY <2>1, <2>2, <1>1
  <2>. QED
      BY <2>3, <1>1 DEF IInv, CallInv, Probing
<1>8. OwnInv(c)'
  <2>1. ASSUME NEW m \in Nonces, market'[m] = c
        PROVE  \E j \in DOMAIN tx'[c] : tx'[c][j] = "opened"
    <3>1. CASE market[m] = c
      <4>1. PICK j \in DOMAIN tx[c] : tx[c][j] = "opened"
          BY <3>1 DEF IInv, OwnInv
      <4>. QED
          BY <4>1, <1>1
    <3>2. CASE market[m] # c
        BY <3>2, <2>1, <1>1, <1>3
    <3>. QED
        BY <3>1, <3>2
  <2>2. ASSUME NEW j \in DOMAIN tx'[c], tx'[c][j] = "opened"
        PROVE  market'[call'[c].tried[j]] = c
    <3>1. CASE j = i
        BY <3>1, <2>2, <1>1, <1>3 DEF Void, n
    <3>2. CASE j # i
      <4>1. tx[c][j] = "opened" /\ market[call[c].tried[j]] = c /\ call[c].tried[j] \in Nonces
          BY <3>2, <2>2, <1>1, Types DEF IInv, OwnInv
      <4>. QED
          BY <4>1, <1>1, <1>2, <1>5
    <3>. QED
        BY <3>1, <3>2
  <2>. QED
      BY <2>1, <2>2 DEF OwnInv
<1>9. Passed(c)' = Passed(c) /\ Taken \subseteq Taken'
    BY <1>1, <1>2, <1>5 DEF Passed, Taken
<1>. QED
    BY <1>4, <1>6, <1>7, <1>8, <1>9 DEF IInv

LEMMA InitHolds == Init => IInv
<1>. SUFFICES ASSUME Init PROVE IInv
    OBVIOUS
<1>1. /\ market = [n \in Nonces |-> IF n \in Existing THEN Earlier ELSE Nobody]
      /\ \A c \in Callers : /\ call[c] = [pc |-> "probing", tried |-> <<>>,
                                          floor |-> MinNonce, start |-> MinNonce]
                            /\ tx[c] = <<>>
    BY DEF Init
<1>2. TypeOK
    BY <1>1, Numbers DEF Init, TypeOK, Calls
<1>3. \A c \in Callers : CallInv(c)
  <2>. SUFFICES ASSUME NEW c \in Callers PROVE CallInv(c)
      OBVIOUS
  <2>1. /\ call[c].pc = "probing" /\ call[c].tried = <<>> /\ Len(call[c].tried) = 0
        /\ DOMAIN call[c].tried = {} /\ call[c].floor = MinNonce /\ call[c].start = MinNonce
      BY <1>1
  <2>. QED
      BY <2>1, Numbers DEF CallInv, Probing
<1>4. \A c \in Callers : OwnInv(c)
  <2>. SUFFICES ASSUME NEW c \in Callers PROVE OwnInv(c)
      OBVIOUS
  <2>1. tx[c] = <<>> /\ \A n \in Nonces : market[n] # c
      BY <1>1, NamesAssumption
  <2>2. DOMAIN tx[c] = {}
      BY <2>1
  <2>. QED
      BY <2>1, <2>2 DEF OwnInv
<1>5. \A c \in Callers : Passed(c) = {}
  <2>. SUFFICES ASSUME NEW c \in Callers PROVE Passed(c) = {}
      OBVIOUS
  <2>1. Passed(c) = MinNonce..Lesser(MinNonce, ProbeEnd(MinNonce)) - 1
      BY <1>1 DEF Passed
  <2>2. MinNonce \in 0..NonceEnd /\ ProbeEnd(MinNonce) >= MinNonce /\ ProbeEnd(MinNonce) \in Nat
      BY Numbers
  <2>. QED
      BY <2>1, <2>2, Numbers DEF Lesser
<1>. QED
    BY <1>2, <1>3, <1>4, <1>5 DEF IInv

LEMMA StepKeeps == IInv /\ [Next]_vars => IInv'
<1>. SUFFICES ASSUME IInv, [Next]_vars PROVE IInv'
    OBVIOUS
<1>1. CASE Next
    BY <1>1, CallStepKeeps, LandKeeps DEF Next
<1>2. CASE UNCHANGED vars
    BY <1>2 DEF vars, IInv, TypeOK, CallInv, OwnInv, Passed, Taken, Probing
<1>. QED
    BY <1>1, <1>2

-----------------------------------------------------------------------------
(* Theorems                                                                *)

THEOREM Invariant == Spec => []IInv
    BY InitHolds, StepKeeps, PTL DEF Spec

\* Every reachable state is well typed, and no call sends a third transaction.
THEOREM TypeCorrect == Spec => []TypeOK
<1>1. IInv => TypeOK
    BY DEF IInv
<1>. QED
    BY <1>1, Invariant, PTL

\* No lag, batch boundary or dust makes findNextMarketNonce skip a free nonce.
THEOREM NothingIsSkipped == Spec => []SkipsOnlyMarkets
<1>1. IInv => SkipsOnlyMarkets
    BY DEF IInv, SkipsOnlyMarkets, Passed
<1>. QED
    BY <1>1, Invariant, PTL

\* The retry never sends the nonce that collided, nor one below minNonce.
THEOREM RetriesMoveOn == Spec => []RetryMovesOn
<1>1. IInv => RetryMovesOn
    BY DEF IInv, CallInv, RetryMovesOn
<1>. QED
    BY <1>1, Invariant, PTL

-----------------------------------------------------------------------------
(* The refinement                                                          *)

Outcome == [c \in Callers |->
    IF call[c].pc \in {"signature", "error"} THEN call[c].pc ELSE "running"]

\* A call that has a transaction in flight has opened nothing yet.
LEMMA InFlightHasNone ==
    ASSUME IInv, NEW c \in Callers, NEW i \in DOMAIN tx[c], tx[c][i] = "inflight",
           NEW n \in Nonces
    PROVE  market[n] # c
<1>. SUFFICES ASSUME market[n] = c PROVE FALSE
    OBVIOUS
<1>1. PICK j \in DOMAIN tx[c] : tx[c][j] = "opened"
    BY DEF IInv, OwnInv
<1>2. i # j /\ i \in 1..Len(tx[c]) /\ j \in 1..Len(tx[c]) /\ Len(tx[c]) \in 0..2
      /\ Len(tx[c]) = Len(call[c].tried)
    BY <1>1, Types DEF IInv
<1>3. Len(call[c].tried) = 2 /\ (i = 1 \/ j = 1)
    BY <1>2
<1>4. tx[c][1] \in Void
    BY <1>3 DEF IInv, CallInv
<1>. QED
    BY <1>1, <1>3, <1>4 DEF Void

LEMMA RefinesInit == Init => Promise!Init
<1>. SUFFICES ASSUME Init PROVE Promise!Init
    OBVIOUS
<1>1. /\ market = [n \in Nonces |-> IF n \in Existing THEN Earlier ELSE Nobody]
      /\ \A c \in Callers : call[c].pc = "probing"
    BY DEF Init
<1>2. \A c \in Callers : ~Promise!Opened(c)
    BY <1>1, NamesAssumption DEF Promise!Opened
<1>. QED
    BY <1>1, <1>2 DEF Promise!Init

\* A call that reports reports truly.
LEMMA Reports ==
    ASSUME IInv, NEW c \in Callers, NEW pc \in {"signature", "error"}, End(c, pc),
           UNCHANGED market, call[c].pc \in {"probing", "sending"},
           pc = "signature" => Promise!Opened(c)
    PROVE  Promise!Report(c)
<1>1. call \in [Callers -> Calls]
    BY DEF IInv, TypeOK
<1>2. call'[c].pc = pc /\ \A d \in Callers \ {c} : call'[d] = call[d]
    BY <1>1 DEF End, Calls
<1>3. Outcome[c] = "running" /\ Outcome' = [Outcome EXCEPT ![c] = pc]
    BY <1>2 DEF Outcome
<1>. QED
    BY <1>3 DEF Promise!Report, Outcome

LEMMA RefinesStep ==
    ASSUME IInv, [Next]_vars
    PROVE  Promise!Next \/ UNCHANGED <<market, Outcome>>
<1>0. call \in [Callers -> Calls]
    BY DEF IInv, TypeOK
<1>1. ASSUME NEW c \in Callers, ProbeBatch(c)
      PROVE  UNCHANGED <<market, Outcome>>
  <2>1. UNCHANGED market /\ call[c].pc = "probing"
      BY <1>1 DEF ProbeBatch
  <2>2. call'[c].pc \in {"probing", "sending"} /\ \A d \in Callers \ {c} : call'[d] = call[d]
    <3>1. \/ call' = [call EXCEPT ![c].start = @ + BatchSize]
          \/ \E n : call' = [call EXCEPT ![c].pc = "sending", ![c].tried = Append(@, n)]
        BY <1>1 DEF ProbeBatch
    <3>. QED
        BY <3>1, <2>1, <1>0 DEF Calls
  <2>. QED
      BY <2>1, <2>2 DEF Outcome
<1>2. ASSUME NEW c \in Callers, ProbeExhausted(c) \/ ProbeFails(c)
      PROVE  Promise!Next
  <2>1. Promise!Report(c)
      BY <1>2, Reports DEF ProbeExhausted, ProbeFails
  <2>. QED
      BY <2>1 DEF Promise!Next
<1>3. ASSUME NEW c \in Callers, SendResolves(c)
      PROVE  Promise!Next
  <2>1. call[c].pc = "sending" /\ Fate(c) = "opened" /\ End(c, "signature") /\ UNCHANGED market
      BY <1>3 DEF SendResolves
  <2>. DEFINE last == Len(tx[c])
  <2>2. last \in DOMAIN tx[c] /\ tx[c][last] = "opened" /\ call[c].tried[last] \in Nonces
      BY <2>1, Types DEF IInv, CallInv, Fate
  <2>3. market[call[c].tried[last]] = c
      BY <2>2 DEF IInv, OwnInv
  <2>4. Promise!Opened(c)
      BY <2>2, <2>3 DEF Promise!Opened
  <2>5. Promise!Report(c)
      BY <2>1, <2>4, Reports
  <2>. QED
      BY <2>5 DEF Promise!Next
<1>4. ASSUME NEW c \in Callers, SendRejects(c)
      PROVE  Promise!Next \/ UNCHANGED <<market, Outcome>>
  <2>1. UNCHANGED market /\ call[c].pc = "sending"
      BY <1>4 DEF SendRejects
  <2>2. CASE End(c, "error")
    <3>1. Promise!Report(c)
        BY <2>1, <2>2, Reports
    <3>. QED
        BY <3>1 DEF Promise!Next
  <2>3. CASE call' = [call EXCEPT ![c].pc = "probing",
                                  ![c].floor = RetryFloor(c), ![c].start = RetryFloor(c)]
    <3>1. call'[c].pc = "probing" /\ \A d \in Callers \ {c} : call'[d] = call[d]
        BY <2>3, <1>0 DEF Calls
    <3>. QED
        BY <3>1, <2>1 DEF Outcome
  <2>. QED
      BY <1>4, <2>2, <2>3 DEF SendRejects
<1>5. ASSUME NEW c \in Callers, NEW i \in DOMAIN tx[c], Land(c, i)
      PROVE  Promise!Next \/ UNCHANGED <<market, Outcome>>
  <2>. DEFINE n == call[c].tried[i]
  <2>1. tx[c][i] = "inflight" /\ n \in Nonces /\ UNCHANGED Outcome
      BY <1>5, Types DEF Land, IInv, Outcome
  <2>2. CASE market[n] = Nobody /\ market' = [market EXCEPT ![n] = c]
    <3>1. ~Promise!Opened(c)
        BY <2>1, InFlightHasNone DEF Promise!Opened
    <3>2. Promise!Open(c, n)
        BY <2>1, <2>2, <3>1 DEF Promise!Open, Outcome
    <3>. QED
        BY <2>1, <3>2 DEF Promise!Next
  <2>3. CASE UNCHANGED market
      BY <2>1, <2>3
  <2>. QED
      BY <1>5, <2>2, <2>3 DEF Land
<1>6. CASE UNCHANGED vars
    BY <1>6 DEF vars, Outcome
<1>. QED
    BY <1>1, <1>2, <1>3, <1>4, <1>5, <1>6 DEF Next, CallStep

\* One call opens at most one market and returns a signature only when it did,
\* whatever the chain, the nodes and the other calls do.
THEOREM OpensAtMostOneMarket == Spec => OpensAtMostOne
<1>1. IInv /\ [Next]_vars => [Promise!Next]_<<market, Outcome>>
    BY RefinesStep
<1>. QED
    BY <1>1, RefinesInit, Invariant, PTL DEF Spec, OpensAtMostOne, Promise!Spec, Outcome
=============================================================================
