# Verification of the CoalesceFi SDKs

This directory holds TLA+ models of the client SDKs of the CoalesceFi lending
program (TypeScript under `ts/`, Rust under `rust/`, Python under `python/`),
TLC configurations that check them on small instances, and TLAPS proofs. The
Solana program itself is not in the repository; where a model needs it, it
contains what the SDK relies on and marks it external.

## Inventory

| Component | State | Operations | Hard behaviour | What makes it correct |
|---|---|---|---|---|
| Idempotency manager (`ts/src/idempotency.ts`, `python/.../idempotency.py`) | a pending and a completed record per key, in a storage shared by tabs or lost with the process | `executeOnce`, `markCompleted`, `clearPending`, `clearAll`, queries | two awaits inside `executeOnce`, lost answers, late landings, restarts, deadlines | a retry never runs beside a recorded transaction that can still land or has succeeded; the records are true |
| Account cache (`ts/src/client/cache.ts`) | one entry per account with its fetch time | `getProtocolConfig`, `getMarket`, `tryGetMarket`, `invalidate`, `invalidateMarket` | overlapping fetches, answers after an invalidation, lagging nodes, retries | bounded staleness; invalidation takes effect; lookups end |
| Fresh market nonce (`findNextMarketNonce` in `ts/src/accounts.ts`, `createMarketWithFreshNonce` in `ts/src/client.ts`) | none of its own; the markets on chain | batched probe, send, one retry | rivals between probe and landing, lagging probe, ambiguous send errors, ends of the u64 space | one call opens at most one market and reports it truthfully; no usable nonce is skipped; calls end |
| RPC retry (`withRetry`) | attempt counter | retry with back-off | error classes, exhaustion | at most `maxRetries + 1` attempts |
| Client facade (`ts/src/client.ts`, `ts/src/client/resolve.ts`, `client.py`, `client.rs`) | the cache, a fixed program id | resolves accounts and builds instructions for every program operation | cached market next to a fresh position in `withdrawByUsdc`; zero as a sentinel; token accounts that their owners close before a transaction lands | an exit by amount burns what the amount bought, never everything by accident; what is built is accepted |
| Arithmetic (`math.ts`, `math.py`, `math.rs`) | none | WAD products and powers, scaled and normalised amounts, interest, utilisation | rounding, widths of u64 and u128, projections of an account that is behind | round trips lose and never gain; a quote is what the program books |
| Error handling (`errors.ts`, `errors.py`, `errors.rs`) | visited set and budget of a traversal | parse, attribution, classification, wrapping, the decision to retry | cycles and fan-out in wrapped errors, foreign programs' codes, answers lost after sending | no code is hidden or borrowed; a retry never repeats what may have happened |
| Configuration (`constants.*`) | global configuration, cached program id | `configureSdk`, `resetSdkConfig`, `getProgramId`, `PROGRAM_ID` | the cache outlives a reconfiguration; calls that resolve the program at each await | one program per transaction |
| Instructions (`instructions.*`) | minimum timestamp | validate and encode arguments, waterfall repayment | widths, signed timestamps, empty parts | what is accepted is encoded faithfully |
| Account decoding (`accounts.*`) | none | tag and length checks, field reads | lengths shared by several types | an account decodes as one type only |
| PDAs (`pdas.*`) | none | derivations | seeds of another program or market; a nonce wider than its seed | every address is the one its instruction needs |
| Types, address compatibility | none | declarations | none | not modelled |
| Example programs (`ts/examples`) | none | one function per operation for a regular wallet, senders, Squads proposals | the program is resolved between awaits | as for the facade |

How they interact: every operation of the client facade reads the cache, whose
misses go through `withRetry` to the RPC node; it derives PDAs, encodes an
instruction and returns it. The application signs and sends it, with
`sendAndConfirm`, inside `executeOnce` or on its own, and hands errors to the
error parser. `createMarketWithFreshNonce` runs that whole path itself with the
application's `send` as a callback. The models cut the system along the state
that is shared: the storage, the cache, the markets on chain, a lender's
position, the configuration, one operation's transactions, a loan. What one
model needs of another it takes as an arbitrary choice at least as wide: the
factor `Withdrawal` reads is any factor the cache could hold, the error
`FreshNonce` parses yields what `ErrorHandling` shows a parse can yield.

## Modules

| Module | Contents |
|---|---|
| `Idempotency` | the TypeScript idempotency manager with its storage, its callers, the chain and the clock |
| `ProtocolCache` | the cache, the fetches in flight, `withRetry`, RPC nodes that lag |
| `MarketOpening` | abstract: what `createMarketWithFreshNonce` promises |
| `FreshNonce` | probe, send and retry of concurrent calls; implements `MarketOpening` |
| `WadMath` | shares, tokens and settlement payouts in fixed point |
| `Withdrawal` | a lender's exits, built by the client and landing later; the program's accounting as far as they need it; extends `WadMath` |
| `WadPower` | `mulWad` and the loop of `powWad`; extends `WadMath` |
| `LoanInterest` | a borrower's quote and the program that accrues, charges and sweeps; extends `WadPower` |
| `SdkConfig` | resolution of the program id, the cache behind `PROGRAM_ID`, the resets |
| `Pdas` | program-derived addresses, as records of what they are derived from |
| `Instructions` | validation, accounts and data of every instruction builder; extends `Pdas` |
| `ClientCalls` | every building method of the client and ten functions of the examples, from the call to the chain; composes `SdkConfig` and `Instructions` |
| `ErrorParse` | the traversal that looks for the program's code in whatever was thrown, with its own specification `ParseSpec` |
| `ErrorHandling` | sending, wrapping, retrying; extends `ErrorParse` and implements `ParseSpec` |
| `...Proofs` | theorems: of `Idempotency`, `ProtocolCache`, `FreshNonce`, `WadMath`, `Withdrawal`, `LoanInterest`, `ClientCalls`, `ErrorHandling` |
| `MC...` | small instances for TLC |

### Idempotency

`executeOnce` is synchronous between its awaits, so it is three actions:
`ExecuteOnce` up to the status query (or, when there is no fresh pending
record, up to the operation), `StatusReply` / `StatusError` for the answer, and
`OperationReturns` / `OperationThrows` for the operation, which is the
application's and sends a transaction in between (`OperationSends`). The two
storage keys of an idempotency key are the functions `pending` and `completed`;
`getPending` and `getCompleted` remove what they find expired (`Purged`), for
queries too. `now` is `Date.now()`; the code compares it with `<` in one place
and with `>` in another, and both are kept. `tx` is the chain: a transaction is
in flight, processed, confirmed, or one of these with an `err`; it lands only
while its blockhash lives. A node may answer null for any transaction.

`guarded` is a history variable: the instant until which the manager owes a
refusal for a signature; `finished` another one: until when a completion forbids
its key, as long as the storage that holds it is not lost.

Three switches name what the code leaves to its environment. `Serialized`: the
application does not overlap calls for one key. `Persistent`: `localStorage`,
which survives a closed tab, or `MemoryStorage`, which is lost or cleared.
`OperationTimesOut`: the operation may throw after it has sent.

| Run | Instance | Shows |
|---|---|---|
| `IdempotencySerialized` | 2 callers, 1 key, 3 signatures, serialised, persistent, timeouts, clock to 6 | types; a recorded transaction that can land is its key's pending record; no launch while a refusal is owed |
| `IdempotencyConcurrent` | 2 callers, 2 keys, 2 signatures, overlapping, volatile, clock to 3 | records are real; a completed key stays refused, also to a call that had read the pending record before |
| `IdempotencyFailedTx` | 1 caller | **violated**: a failed transaction is recorded as completed |
| `IdempotencyTimeout` | 1 caller | **violated**: an operation that throws after sending is executed twice |

`CompletionIsFinal` holds although a call acts on a record it read before its
await, because `executeOnce` looks for the completed record last: a call whose
node answers null late removes whatever is pending, and is still refused.

Three consequences of the same rules have no property, and are hazards with a
note. Without `Serialized` two overlapping calls for one key both execute. A call
that acts on an old status removes the newer pending record of another call. And a
transaction that landed but is not yet confirmed at its deadline is dropped as
never landed. `IdempotencyTimeout` has one caller and a clock that stands still: it
shows the operation that throws after sending, and none of these three.

Bounds: a pending timeout of 2, a retention of 3 and a blockhash life of 2 let
a record expire, be replaced and expire again within 6 ticks; two callers give
every overlap of two awaits; a third signature is a retry of a retry. The runs
allow the system to stop, because signatures and clock are finite.

### ProtocolCache

A lookup is `Hit`, or `Miss` and then, for each attempt of `withRetry`,
`Answer` (a node computes the answer), and `Store`, `Missing` or
`AttemptFails` when the promise settles. The cache does not share fetches in
flight, so readers overlap and late answers overwrite earlier ones. Time is
kept as ages, so the state space is finite without a bound on the clock: an
entry's age stops counting at its time to live, the history of a version at
one more than the bound under test. `ReplyTime` bounds the way of an answer to
the client, `Lag` how long a node serves a replaced version; both are
assumptions about the RPC service and nothing in the code bounds them.

| Run | Instance | Shows |
|---|---|---|
| `Cache` | 2 readers, one market, versions 0 to 2, TTL 3, reply 2, lag 1, 1 retry | types; data handed out was replaced at most TTL - 1 + reply + lag ago (the bound is tight: one less is violated); after an invalidation only an answer that was on its way then can bring back what nodes no longer serve; every lookup ends, also when every request fails |

The config and a market are separate entries that share no step, so one account
suffices. Version 0 is a market that does not exist yet.

Fairness in `Cache`: weak fairness of each reader's progress (a settled await
continues, and a request is answered or fails) and of time. No request is
assumed to succeed.

### FreshNonce

Each call probes a batch per await (`ProbeBatch`), from whatever subset of the
markets the node has seen, sends a transaction for the first free nonce, and is
told its fate by `send` (`SendResolves`, `SendRejects`) before or after it lands
(`Land`). `Rejections` lists what `send` may reject with: an error without a
code whatever happened, the program's code 4 with or without logs when the
nonce was taken, another program's code 4 when the application has bundled its
instruction. Only a parse that yields `MarketAlreadyExists` leads to a second
transaction. A `send` that re-signs and resubmits on its own, and may then
report a collision with its own market, is outside the model.

| Run | Instance | Shows |
|---|---|---|
| `FreshNonce` | 3 calls, nonces 0 to 3, a market at 1, dust at 0 and 3, batches of 2, windows of 3 from 1 | types; only nonces with a market are skipped, up to the end of the nonce space; a retry moves past the collision; the calls implement `MarketOpening`; every call ends |

The run allows the system to stop when all calls have ended. Fairness: the
awaits of a call settle; neither an RPC failure nor a landing is assumed.

With two rivals the retry can collide again: both take, one after the other,
the nonce that the call has just probed. The comment at `client.ts:457` calls a
second collision in a row a genuine bug; in the model it is an ordinary race.

### Withdrawal

A call of the client is a record. `withdrawByUsdc` is split at its awaits:
`WithdrawByUsdc` (the check of the amount), `MarketRead` (the market from the
cache or the chain), `PositionRead` (the balance, the conversion, the guard
against zero, the clamp). `Withdraw`, `WithdrawAndClose`, `ClaimHaircut` and
`CloseLenderPosition` build from addresses alone. `Land` applies the
instructions as one transaction, whenever it lands; `Lost` stands for one that
is never sent, dropped or rejected.

Two sources of staleness are kept apart: `market.factor` is the factor the
program stored at its last instruction, `market.due` the one it computes when
it accrues, and `cached` is what the client read before either. What
`ProtocolCache` shows about the age of an entry is not needed here: `Served` lets
a cached factor be arbitrarily old. A lagging node's answer to the position
read is a read that happened earlier, and a transaction signed after the read
was built earlier; both are the same behaviours, except that `shrunk` then
counts from the instant of the answer's state.

The program is external: `Burn`, `AfterWithdraw`, `AfterClaim`, `AfterClose`,
`Deposit`, `ForceClose`, `Settle` and accrual follow the accounting that
`types.ts` and `math.ts` document. `Settle` sets any factor up to one and may
raise it; the vault's balance is not modelled. The settlement that the first
withdrawal after maturity triggers is a step of its own before it. `minPayout`
is passed through and left out. `AfterClaim` lets a claim recover any positive
part of the debt.

| Run | Instance | Shows |
|---|---|---|
| `Withdrawal` | 2 calls, one = 3, factors 3 to 5, u128 up to 29, at most 4 shares, amounts 0, 1, 2, 5, 10 | types; the clamp covers a position that has not lost shares; a full exit empties and closes whatever it meets on a funded market; an exit by amount burns the shares its amount bought and pays within one share of it |
| `WithdrawCloseDistress` | 1 call | **violated**: `withdrawAndClose`, documented as a guaranteed full withdrawal, is rejected as a whole on a distressed market where `withdraw` alone would pay |

Bounds: at factors 4 and 5 with one = 3, amount 1 floors to zero shares, 2 and
5 leave remainders, 5 exceeds most positions and 10 overflows; two calls of one
lender give every race on a position, and calls repeat.

The comment in `client.ts` expects the clamp to absorb an overshoot of the
round trip. `RoundTripStrandsOneShare` proves that floor division at one factor
never overshoots; the clamp is needed for amounts the application chooses and
for factors that have grown between display and conversion.

### LoanInterest

A borrower reads the market account and computes what remains to be paid in
interest and fees (`TransformedRemainingInterest`). The account is behind: the
program accrues only when an instruction touches the market, at the fee rate of
that moment, and capped at maturity. The model lets accruals, deposits,
repayments, fee collections, fee changes, settlement and time interleave freely
and compares the quote before and after each. The program is external and
follows the formulas that `math.ts` documents as the on-chain ones. The account, the
fee rate and the sum of the fees collected are taken to be read at one moment;
a caller that reads them apart gets a quote for no moment at all.

Growth that does not fit a u128 is `Overflow`, as `mulWad` throws; the program
then fails every instruction, and the quote throws too. Products that the code
does not check are not checked in the model.

The loop of `powWad` is a recursive function of its three variables (`PowLoop`),
one application of `Turn` for each bit of the exponent; a recursive operator
would keep the module from the prover. `Exact` is the power it stands for.

`RatesAssumption` relates the rates to the fixed-point one: a day does not more
than double what is owed, and the interest of one second is worth the roundings
of all days to maturity. With a one of 10^18, rates of 1 to 10,000 basis points
(`MAX_ANNUAL_INTEREST_BPS`, `constants.ts:302`) and days of 86,400 seconds it
holds for every maturity within 4,000 years. Where it fails, the quote may fall
when a day is full, because the power of one more day rounds more often.

| Run | Instance | Shows |
|---|---|---|
| `LoanInterest` | one = 100, u128 up to 35,000, 2 seconds to a day and 2 days to a year, maturity 7, time to 8, rates 5 and 10 of 10, fees 0 and 3 of 10, amounts 2 and 7 | types; powers at most the exact ones, and below them by a part in the one per product; no accrual or sweep moves a quote and a repayment lowers it by what it pays; a new fee rate is not charged on what has accrued; a deposit costs the quote a share's rounding at most; time never lowers it and after maturity leaves it alone |

Bounds: the day is two seconds so that an accrual has whole days, a part of a
day, both or neither; three whole days square the base; a rate of 10 of 10
doubles within a year, so that three accruals reach the overflow and the
smaller rate does not. The system may stop at the end of time, when all sums are
at their bounds.

### SdkConfig, Pdas, Instructions, ClientCalls

One call is followed from its arguments to the chain. A client method resolves
its accounts and builds for `ClientProgram`, the program its client was
constructed with, so it is one action; `ReadFails` is a method that throws
because it could not read. A function in `examples/` resolves the program anew
at each use: `Moments` gives the number of times per function, `ExampleCall` the
part up to the first await, `ExampleResumes` the part after one. Between them,
`Reconfigure` is another task that calls `configureSdk` or `resetSdkConfig`.
`call.moved` is a history variable: the program changed under the call.

`Pdas` makes an address the record of its seeds, so two derivations agree only
when everything they are derived from agrees. `Instructions` has one operator per
builder, with its validation, its accounts in order with their signer flags,
and its data at their width (`U64Range`, `U128Range`, `MaxBps`, signed
timestamps). `Outcome` is what the chain makes of a transaction: missing
accounts, missing signatures, an account in the wrong place, a recipient without
a token account, or success. Owners open and close token accounts at any time
before a transaction lands. Accounts that the examples leave out are
"Incomplete".

| Run | Instance | Shows |
|---|---|---|
| `ClientCalls` | 3 programs, two configurations and the reset, u64 of 2 bits and u128 of 3, numbers -1, 0, 1, 2, 4, minimum timestamps 0 and 1 | types; `PROGRAM_ID` agrees with `getProgramId` unless `configureSdk` came between; every account is the one its place needs; what the client builds is not turned down for an address, a signature or a missing token account; arguments reach the program unchanged, but for a maturity of 2^63 or more; a repayment is split without loss, interest first |

Bounds: the numbers lie below, at and above the limits of a u64 and an i64 of
that width; three programs make every pair of configured, legacy and client
program differ. One call at a time suffices because calls share nothing but the
configuration and token accounts, and these change at any time anyway.

### ErrorParse, ErrorHandling

What is thrown is a graph: nodes are strings and objects, edges the five
properties the parser follows, and a node bears codes in its logs, its
instruction error and its text. Nodes may be shared and edges may form cycles.
The recursion of `findFailedProgramIds` (its `walk`) and
`parseCoalescefiErrorNode` is kept as
`agenda`, the stack of what is still to be looked at; `expanded` is the visited
set and `remaining` the budget. When the caller names a program, a first pass
collects the programs that logs blame.

`ErrorHandling` adds the callers: `CoalesceClient.sendAndConfirm` with
`withErrorHandling`, and the two senders of `examples/error-handling.ts`. An
answer that is lost leaves its transaction in `inFlight`; it may land until its
blockhash expires, also while a later attempt is under way. Acting on
`isRetryableError` is part of the model: of the raw error in `sendWithRetry`, of
what `sendAndConfirm` throws in the application.

| Run | Instance | Shows |
|---|---|---|
| `ErrorHandling` | 3 nodes, up to 2 links of the root and 1 below, one code of either sort at one place, own and foreign blame, a budget of 3, 3 attempts | types; no code that the budget could reach is hidden, and none is reported that a foreign program raised; an application that acts on what `sendAndConfirm` throws never repeats what may have taken effect; calls end |
| `RetryAfterLostAnswer` | the same | **violated**: `isRetryableError` holds of errors after which the transaction may still land, and `sendWithRetry` executes the operation twice |

Bounds: with a budget of 3 for 3 nodes every graph fits, and one visit too many
would not; the theorems hold for any budget and say what it must cover. Two links and one
give sharing, a cycle through the root, and precedence between properties. Three
attempts are the code's own default.

Fairness in `ErrorHandling`: the connection answers or gives up when the
blockhash expires (`WF_stage(Answered)`), the parser and timers go on. Landing is
not assumed.

## Proofs

Every theorem holds for all values of the constants that satisfy the named
assumptions.

`IdempotencyProofs` proves, for any number of callers, keys and signatures and
any timeouts with `BlockhashLife <= PendingTimeout`:

* `TypeCorrect`;
* `StoredRecordsAreReal`, without any discipline of the application. `RecordInv` strengthens them: a call that is checking has
  seen a record that was once stored (`RecordedIsGuarded`), so acting on it
  late still writes a true record, and a signature that is still held by a
  running operation belongs to no record and to no other call
  (`OperationsOwnTheirs`);
* `CompletionsAreFinal`, likewise. `CompletionInv` adds that a completion which
  still forbids its key is the stored record or was replaced there by a later one,
  whose deadline is later too; so the completed check of any call meets it;
* `LiveIsPending` and `LaunchesAreJustified`, for `Serialized` and
  `Persistent`. `SerialInv` adds that at most one call is active per key, that
  each open window (a transaction for which a refusal is owed) is the key's
  pending or completed record, that at most one window of a key is open, and
  that a window outlasts its transaction's blockhash.

The invariants were checked with TLC before they were proved.

`WadMathProofs` proves the bounds of each conversion (`ScaledBounds`,
`NormalizedBounds`, `PayoutBounds`), all from the two inequalities of a floor
(`FloorBounds`), and `RoundTripStrandsOneShare`. `WithdrawalProofs` and
`LoanInterestProofs` rest on them.

`WithdrawalProofs` proves, for any fixed-point one, any amounts and factors and
any number of calls:

* `TypeCorrect` and `ClampAlwaysCovers`, from the inductive `IInv`: `TypeOK`;
  `FactorInv` (the cached factor is at most the stored one, the stored one at
  most the one due);
  `CallInv` (what a signed call carries is what its amount, factor and balance
  yield); and `ClampCovers`, which needs both because a deposit or an accrual
  may come between the read and the landing;
* `FullExitAlways`: with settlement at one a burn adds no debt
  (`PayoutBounds`), so the close accepts, and a share is worth a token at least,
  so the withdrawal does;
* `BurnsAlwaysAsAsked` and `PaysItsTarget`, step properties from `IInv`: the
  landing burns exactly what the call carries (`LandingBurns`), and the two
  floors of conversion and payout compose (`PaidAgainstAsked`).

`LoanInterestProofs` proves, for any rates, fees, amounts, lengths of day and
year that meet `RatesAssumption` (only the last of these uses it):

* `AllInLandsNearby`: the stored rate plus its fee differs from the rate the
  borrower asked for by less than the rounding of one basis point;
* `TypeCorrect`, from `IInv`, which adds that the market's factor still fits when
  multiplied by one, so that an accrual of no time cannot overflow;
* `QuoteIsExact` and `OldFeesStay`. On an account that is up to date the quote is
  a debt that only the totals determine (`CurrentQuote`); on any other account it
  is the debt after one accrual (`ProjectedQuote`), and that accrual is what
  every instruction performs first (`AccrualEffect`). So the two sides of a step
  are the same debt, less what was repaid;
* `DepositsAreNoInterest`: principal and minted shares cancel but for one floor
  (`DepositRounds`);
* `PowWadIsClose` and, for the states of the loan, `PowersStayClose`. Induction is
  over sets: numbers are well-founded, so what holds of zero and of every
  successor holds of all (`SetInduction`), and a recursion on one earlier value
  has a solution (`RecursionHasSolution`), which the recursive functions of
  `WadPower` then are (`PowLoopUnfolds`, `RaisedUnfolds`). The induction over the
  loop says that result and base stay close to the powers they stand for
  (`LoopIsClose`), because a product's floor costs at most one part in Wad of it
  (`CloseProduct`);
* `PowWadFits`: no product in the loop is larger than Wad times the exact power
  (by the same induction, with `WithinProduct`);
* `TimeNeverLowersTheQuote`. Within a day only `SubDay` grows. When a day is full,
  the power of one day more must make up for the last second's interest and for
  its own roundings: Bernoulli's inequality (`Bernoulli`) turns these into a
  fraction of the base that `RatesAssumption` bounds (`LastSecondPays`,
  `RoundingsAreSmall`, `DayBefore`), and `PowWadFits` shows that what a day more
  does not overflow did not overflow before.

`ErrorHandlingProofs` proves, for any graph, budget, programs and attempts:

* `ParserTypeCorrect`, `ParserHidesNothing` and `ParserReportsOurs` of
  `ParseSpec`. The inductive `ParseIInv` says that whatever the visited part leads
  to is visited or on the agenda (`FrontierInv`), that nothing visited in the
  second pass bore a code (`ReadInv`), and that the programs collected are those
  the visited part blames (`BlameInv`). With an empty agenda the visited set is
  then closed under links, so it is everything reachable (`ReachableLeast`); the
  budget bounds it by cardinality (`BudgetSuffices`);
* `HandlingImplementsParser`: every step of `ErrorHandling` is a step of the parser
  or a stutter, so that the three hold of it (`NoCodeIsHidden`, `CodesAreOurs`);
* `RetriesAreSafeForTheClient`, with `LastAttemptInv`: only the current attempt can
  be in flight, because what `withErrorHandling` cannot parse is of type unknown
  and never retried (`WrappedIsFinal`), and an error with a code means that the
  transaction had no effect (`CodesAreConclusive`).

`FreshNonceProofs` proves, for any number of callers and any nonces, batches and
windows: `TypeCorrect`; `NothingIsSkipped` and `RetriesMoveOn`, from an invariant
that counts the nonces a call has passed as taken, batch by batch; and
`OpensAtMostOneMarket`, the refinement of `MarketOpening`, which needs that a
call has a second transaction only when its first is void.

`ProtocolCacheProofs` proves, for any readers, accounts, times to live, reply
times and lags: `TypeCorrect`, `StalenessIsBounded` and `InvalidationHolds`. The
invariant bounds what an answer under way, an entry and the data handed out
(`ServedInv`) may be obsolete by: lag plus the age of the copy.

`ClientCallsProofs` proves `LegacyConstantAgrees`, for any programs and
configurations; that a number the validators accept is encoded as itself
(`ValidatedNumbersKeepTheirValue`); that a repayment is split without loss
(`WaterfallSplits`); and, for any programs, amounts, widths and reconfigurations
by other tasks, the properties of what a call builds: `ClientCallTypes`,
`AddressesNeverMixed`, `ArgumentsKeepTheirValue` and `RepaymentsPayTheirSplit`; and
`AcceptedAsBuilt`, that the chain never turns a client's transaction down for how
it was built, whichever token accounts come and go in the meantime.
The argument goes bottom up:

* one lemma per builder (`DepositBuilds`, ...) says what it encodes, and that each
  account is at the place the program reads it from and only the signer's has to
  sign (`Laid`, which implies `Placed`) if the record it was given names the right
  accounts (`Names`: for a client method the expected one, for a function of
  `examples/` that one or none);
* one lemma per method of the client (`DepositSound`, ...) says that the record does
  name them, because everything in it is derived for `ClientProgram`; the
  transaction is then `SoundTx`, which also has an account that is paid created
  by an earlier instruction unless the caller named it (`Funded`, `CreatedFirst`);
* one lemma per function of `examples/` (`ExampleDepositSound`, ...) says the same
  if every program it resolved is the one it started with;
* `BuiltInv` alone is not inductive: what a function of `examples/` builds depends
  on what it resolved before its earlier awaits. `DerivingInv` carries that: until
  the resolved program changes, it is the program the call started with, and so is
  each one kept. `IInv`, which joins `TypeOK`, `DerivingInv`, `BuiltInv` and the
  outcome of the call before (`SoundIsAccepted`), is inductive.

Assumptions, all named `ASSUME`s of the modules: the fixed-point one and the
bounds are positive, the one's square fits the width, amounts are natural
numbers, the markers for absent values differ from what they mark, a
blockhash lives no longer than a pending record, a `CoalescefiError` has a
code, `RatesAssumption`, and `AddressesAssumption`: `None`, which stands for an
account left out, is none of the accounts the program expects of a client's call.

Only model-checked: the liveness properties `ReadsEnd` and `CallsEnd` (of
`FreshNonce` and of `ErrorHandling`), which are out of the prover's reach.

## What the properties leave out

The exceptions are part of the properties' statements, and each is a fact about
the code:

* `FreshAfterInvalidation` speaks of invalidations that meet no answer on its way
  (`straddled`). A late answer does repopulate the cache; `BoundedStaleness`, which
  has no exception, says for how long it can be served.
* `LegacyAgrees` exempts `configureSdk` (`reconfigured`), which leaves the cached
  `PROGRAM_ID` alone; it is about the two resets.
* `NeverMisaddressed` exempts functions that are called without a client and whose
  default program changes between their awaits (`call.moved`).
* `EncodedFaithfully` exempts timestamps of 2^63 and more, which the code lets wrap.
* `NoCodeHidden` speaks of errors that fit the parser's budget.
* In `LoanInterest` the program's side computes with the same operators as the
  quote, since the program is not in the repository. The runs and proofs show that
  the quote predicts what a program with those formulas does, in whatever order it
  does it; not that the deployed program has them.

## Not modelled

* The Python and Rust ports, which follow the TypeScript code step by step; their
  integer widths differ. For the Python idempotency manager, what the RPC library
  returns as `confirmation_status` decides whether anything is ever completed,
  and the library is not in the repository.
* Account decoding and byte layouts: tables of offsets.
* The memo wrappers and the key generators of the idempotency module: formats of
  strings (the unescaped separators are listed as a hazard).
* The Squads multisig examples: the Squads program is not in the repository.
* `getMarket`, `getPosition` and the two scans of the facade, which read and
  return.
* Utilisation, the vault estimate and percentages for display.
* Tables of error names, texts, severities and categories.
* Types and address compatibility: declarations and conversions.
* Steps of a wall clock backwards; the length of back-off delays.
* The Solana program, beyond what the models name as external.

## Plan

Done: the idempotency manager; the cache; the fresh nonce and its
refinement; a lender's exits; the borrower's interest; configuration, addresses,
instructions and client calls; error parsing and handling; proofs for all of them.

Left: the ports, as variants of `Idempotency`, `WadMath` and `ErrorParse` with
their own widths; the operations of `Withdrawal` and `LoanInterest` on one market, so that the vault's
balance decides the settlement factor; utilisation and vault estimate next to `LoanInterest`.
