---------------------------- MODULE MarketOpening ----------------------------
(***************************************************************************)
(* What createMarketWithFreshNonce promises its caller: a call that        *)
(* returns a signature has opened exactly one market of its borrower, and  *)
(* a call that throws has opened at most one.  A market never changes      *)
(* hands and a nonce is never used twice.                                  *)
(***************************************************************************)
CONSTANTS
    Callers,    \* calls of createMarketWithFreshNonce for one borrower
    Nonces,
    Nobody      \* the slot of a nonce that no market has

VARIABLES
    market,     \* the call that opened the market of a nonce, or whoever did
    outcome     \* what each call has reported

Outcomes == {"running", "signature", "error"}

Opened(c) == \E n \in Nonces : market[n] = c

Init ==
    /\ outcome = [c \in Callers |-> "running"]
    /\ \A c \in Callers : ~Opened(c)

\* The transaction of a call lands, perhaps after its caller has given up.
Open(c, n) ==
    /\ ~Opened(c)
    /\ market[n] = Nobody
    /\ market' = [market EXCEPT ![n] = c]
    /\ UNCHANGED outcome

Report(c) ==
    /\ outcome[c] = "running"
    /\ \/ Opened(c) /\ outcome' = [outcome EXCEPT ![c] = "signature"]
       \/ outcome' = [outcome EXCEPT ![c] = "error"]
    /\ UNCHANGED market

Next == \E c \in Callers : Report(c) \/ \E n \in Nonces : Open(c, n)

Spec == Init /\ [][Next]_<<market, outcome>>
=============================================================================
