--------------------------- MODULE ErrorHandling ----------------------------
(***************************************************************************)
(* ErrorHandling: what becomes of a transaction whose sending fails.       *)
(*                                                                         *)
(* Three callers hand errors on.  CoalesceClient.sendAndConfirm converts   *)
(* them in withErrorHandling, and the application asks isRetryableError    *)
(* about what it gets.  The examples' sendWithRetry asks about the raw     *)
(* error, sendWithErrorHandling parses it and gives up.  An answer that    *)
(* is lost leaves the transaction in flight: it may land at any time until *)
(* its blockhash expires, and every new attempt is a new transaction.      *)
(***************************************************************************)
EXTENDS ErrorParse

CONSTANTS
    RetryableCodes,    \* ProtocolPaused, SettlementGracePeriod
    MaxAttempts        \* sendWithRetry's maxAttempts: 3

ASSUME HandlingAssumption ==
    /\ RetryableCodes \subseteq Codes
    /\ MaxAttempts \in Nat \ {0}

VARIABLES
    caller,
    stage,        \* idle, sending, parsing, waiting, returned, raised
    attempt,
    inFlight,     \* attempts whose transaction may still land
    landed,       \* attempts whose transaction took effect
    raised        \* the error the caller was left with

callVars == <<caller, stage, attempt, inFlight, landed, raised>>
vars == <<parseVars, callVars>>

Callers == {"sendAndConfirm", "sendWithRetry", "sendWithErrorHandling"}
Attempts == 1..MaxAttempts

-----------------------------------------------------------------------------
(* Errors                                                                  *)

NoError == [class |-> "none"]
ProgramError(code) == [class |-> "CoalescefiError", code |-> code]

\* Mutant: what cannot be parsed counts as a network error.
WrappedAsNetwork == [class |-> "SdkError", type |-> "network"]

\* withErrorHandling gives every other error the type unknown.
Wrapped == [class |-> "SdkError", type |-> "unknown"]

\* transient: the message speaks of a timeout, the network, a connection, an
\* unknown blockhash or a rate limit.
Raw(g, transient) ==
    IF g.kind[Root] = "CoalescefiError" THEN ProgramError(g.text[Root])
    ELSE [class |-> g.kind[Root], transient |-> transient]

IsRetryableError(e) ==
    \/ e.class = "CoalescefiError" /\ e.code \in RetryableCodes
    \/ e.class = "SdkError" /\ e.type = "network"
    \/ e.class = "Error" /\ e.transient

\* An error that names neither a code nor a failed program leaves open whether
\* the transaction was sent.
Inconclusive(g) ==
    \A n \in Nodes : g.blames[n] = {} /\ {g.logs[n], g.instruction[n], g.text[n]} = {None}

-----------------------------------------------------------------------------
(* Actions                                                                 *)

Begin(c) ==
    /\ stage = "idle"
    /\ caller' = c
    /\ stage' = "sending"
    /\ attempt' = 1
    /\ UNCHANGED <<parseVars, inFlight, landed, raised>>

\* sendAndConfirmTransaction resolves.
Confirmed ==
    /\ stage = "sending"
    /\ stage' = "returned"
    /\ landed' = landed \cup {attempt}
    /\ UNCHANGED <<parseVars, caller, attempt, inFlight, raised>>

\* Mutant: one attempt too many.
RetriesOnceMore(e) == IsRetryableError(e) /\ attempt <= MaxAttempts

Retries(e) == IsRetryableError(e) /\ attempt < MaxAttempts

\* Either wait for the next attempt or leave the caller with the error.
Settle(e) ==
    /\ stage' = IF Retries(e) THEN "waiting" ELSE "raised"
    /\ raised' = IF Retries(e) THEN NoError ELSE e

\* sendAndConfirmTransaction throws.
Fails ==
    /\ stage = "sending"
    /\ \E g \in Errors, transient, sent \in BOOLEAN :
          /\ sent => Inconclusive(g)
          /\ inFlight' = IF sent THEN inFlight \cup {attempt} ELSE inFlight
          /\ \/ /\ caller = "sendWithRetry"
                /\ Settle(Raw(g, transient))
                /\ UNCHANGED parseVars
             \/ /\ caller # "sendWithRetry"
                /\ Throw(g, caller = "sendAndConfirm")
                /\ stage' = "parsing"
                /\ UNCHANGED raised
    /\ UNCHANGED <<caller, attempt, landed>>

Parsing ==
    /\ ParseStep
    /\ UNCHANGED callVars

\* withErrorHandling.
Handled == IF result # None THEN ProgramError(result) ELSE Wrapped

\* The example raises what it could not parse as it is.
HandledByExample ==
    IF result # None THEN ProgramError(result) ELSE [class |-> thrown.kind[Root]]

Parsed ==
    /\ stage = "parsing"
    /\ Forget
    /\ \/ /\ caller = "sendAndConfirm"
          /\ Settle(Handled)
       \/ /\ caller = "sendWithErrorHandling"
          /\ stage' = "raised"
          /\ raised' = HandledByExample
    /\ UNCHANGED <<caller, attempt, inFlight, landed>>

\* Mutant: a retry is not counted.
SameAttempt == attempt

NextAttempt == attempt + 1

\* After the delay the caller asks for a new blockhash, which may fail as well.
Refresh ==
    /\ stage = "waiting"
    /\ \/ stage' = "sending" /\ attempt' = NextAttempt /\ UNCHANGED raised
       \/ stage' = "raised" /\ raised' = [class |-> "Error"] /\ UNCHANGED attempt
    /\ UNCHANGED <<parseVars, caller, inFlight, landed>>

\* What is in flight lands, or its blockhash expires.
Land(a) ==
    /\ a \in inFlight
    /\ inFlight' = inFlight \ {a}
    /\ landed' = landed \cup {a}
    /\ UNCHANGED <<parseVars, caller, stage, attempt, raised>>

Expire(a) ==
    /\ a \in inFlight
    /\ inFlight' = inFlight \ {a}
    /\ UNCHANGED <<parseVars, caller, stage, attempt, landed, raised>>

\* The next call starts afresh when nothing of this one can land any more.
Finish ==
    /\ stage \in {"returned", "raised"}
    /\ inFlight = {}
    /\ stage' = "idle"
    /\ attempt' = 0
    /\ landed' = {}
    /\ raised' = NoError
    /\ UNCHANGED <<parseVars, caller, inFlight>>

Init ==
    /\ ParseInit
    /\ caller = "sendAndConfirm"
    /\ stage = "idle"
    /\ attempt = 0
    /\ inFlight = {}
    /\ landed = {}
    /\ raised = NoError

Next ==
    \/ \E c \in Callers : Begin(c)
    \/ Confirmed \/ Fails \/ Parsing \/ Parsed \/ Refresh
    \/ \E a \in Attempts : Land(a) \/ Expire(a)
    \/ Finish

Spec == Init /\ [][Next]_vars

\* The connection answers, or gives up when the blockhash expires, and timers fire.
Answered == stage = "sending" /\ stage' \in {"returned", "parsing", "waiting", "raised"}

FairSpec ==
    Spec /\ WF_stage(Answered) /\ WF_vars(Parsing) /\ WF_vars(Parsed) /\ WF_vars(Refresh)

-----------------------------------------------------------------------------
(* Properties                                                              *)

TypeOK ==
    /\ ParseTypeOK
    /\ caller \in Callers
    /\ stage \in {"idle", "sending", "parsing", "waiting", "returned", "raised"}
    /\ stage = "parsing" <=> phase # "idle"
    /\ attempt \in 0..MaxAttempts
    /\ inFlight \subseteq 1..attempt /\ landed \subseteq 1..attempt
    /\ raised.class \in {"none", "CoalescefiError", "SdkError", "Error", "object", "string"}

\* "Network / transient error - safe to retry": an operation takes effect once
\* although its caller sends it again.
RetriesAreSafe == Cardinality(landed) <= 1

\* What sendAndConfirm throws keeps the promise: acting on isRetryableError never
\* sends an operation twice that may have taken effect, and a program error
\* means that no attempt of the operation did or will.
ClientRetriesAreSafe ==
    caller = "sendAndConfirm" =>
        /\ Cardinality(landed \cup inFlight) <= 1
        /\ raised.class = "CoalescefiError" => landed \cup inFlight = {}

\* Every operation ends with an answer for its caller.
CallsEnd == stage = "sending" ~> stage \in {"returned", "raised"}
=============================================================================
