---------------------------- MODULE ClientCalls -----------------------------
(***************************************************************************)
(* ClientCalls: from a call on the SDK to the transaction the chain sees.  *)
(*                                                                         *)
(* A method of CoalesceClient resolves accounts, builds instructions for   *)
(* the program the client was constructed with and leaves sending them to  *)
(* the caller.  The functions in examples/ use the free functions of the   *)
(* SDK instead, which resolve the program anew at each use: between two    *)
(* awaits another task may reconfigure the SDK.  Between building and      *)
(* landing the owners of token accounts may open and close them.           *)
(*                                                                         *)
(* One call is followed at a time.  Calls share no state but the           *)
(* configuration, which any task may change at any time here, and the      *)
(* cached accounts, of which these methods use immutable fields only.      *)
(***************************************************************************)
EXTENDS SdkConfig, Instructions, FiniteSets

CONSTANTS
    ClientProgram,     \* CoalesceClient.programId, readonly
    Borrower,          \* the borrower of every market a call names
    Lender, FeeAuthority, Admin, Manager,
    Sponsor,           \* pays the rent of another's token account
    Mint, BlacklistProgram,
    OtherAccount,      \* a token account named by the caller
    Configs,           \* what the tasks of the application configure
    Numbers,           \* amounts, nonces, rates and times that callers pass
    MinimumTimestamps

ASSUME InputsAssumption ==
    /\ ClientProgram \in ProgramIds
    /\ Configs \subseteq SdkConfigs
    /\ Numbers \subseteq Int
    /\ MinimumTimestamps \subseteq Nat

VARIABLES
    minimumTimestamp,
    tokenAccounts,     \* canonical token accounts that exist
    call               \* the call in progress and what came of it

vars == <<configVars, minimumTimestamp, tokenAccounts, call>>

-----------------------------------------------------------------------------
(* Addresses a call should use                                             *)

Ata(owner) == Pda("ata", TokenProgram, <<owner, Mint>>)
Recipients == {Borrower, Lender, FeeAuthority}
MarketOf(program) == FindMarketPda(Borrower, 0, program)

Call(by, method, program, signer) ==
    [by |-> by, method |-> method, program |-> program, signer |-> signer,
     market |-> MarketOf(program), token |-> Ata(signer), payer |-> signer,
     target |-> None, args |-> <<>>]

With(c, args) == [c EXCEPT !.args = args]
\* The caller may name the token account.
Naming(c, overridden) == IF overridden THEN [c EXCEPT !.token = OtherAccount] ELSE c

\* What the program expects of the account in each role.
Role(c) ==
    [market |-> c.market, signer |-> c.signer, token |-> c.token, mint |-> Mint,
     config |-> FindProtocolConfigPda(c.program),
     vault |-> FindVaultPda(c.market, c.program),
     authority |-> FindMarketAuthorityPda(c.market, c.program),
     haircut |-> FindHaircutStatePda(c.market, c.program),
     position |-> FindLenderPositionPda(c.market, Lender, c.program),
     whitelist |-> FindBorrowerWhitelistPda(Borrower, c.program),
     blacklist |-> FindBlacklistCheckPda(c.signer, BlacklistProgram),
     programData |-> FindProgramDataPda(c.program),
     target |-> c.target, manager |-> Manager, borrower |-> Borrower,
     blacklistProgram |-> BlacklistProgram,
     tokens |-> TokenProgram, system |-> SystemProgram]

\* None stands for an account that is left out, so that it is none of those the
\* program expects of any call.
ASSUME AddressesAssumption ==
    \A signer \in {Borrower, Lender, FeeAuthority, Admin, Manager, Sponsor},
       nonce \in {n \in Numbers \cup {0} : IsU64(n)}, overridden \in BOOLEAN :
        LET c == [Naming(Call("client", "any", ClientProgram, signer), overridden) EXCEPT
                     !.market = FindMarketPda(Borrower, nonce, ClientProgram),
                     !.target = FeeAuthority]
        IN  \A role \in DOMAIN Role(c) : Role(c)[role] # None

\* The order in which the program reads the accounts of an instruction.
OnChainOrder ==
    [InitializeProtocol |->
        <<"config", "signer", "target", "manager", "blacklistProgram", "system", "programData">>,
     SetFeeConfig |-> <<"config", "signer", "target">>,
     SetBorrowerWhitelist |-> <<"whitelist", "config", "signer", "borrower", "system">>,
     SetPause |-> <<"config", "signer">>,
     SetBlacklistMode |-> <<"config", "signer">>,
     SetAdmin |-> <<"config", "signer", "target">>,
     SetWhitelistManager |-> <<"config", "signer", "target">>,
     CreateMarket |-> <<"market", "signer", "mint", "vault", "authority", "config",
                        "whitelist", "blacklist", "system", "tokens", "haircut">>,
     Deposit |-> <<"market", "signer", "token", "vault", "position", "blacklist", "config",
                   "mint", "tokens", "system">>,
     Borrow |-> <<"market", "signer", "token", "vault", "authority", "whitelist",
                  "blacklist", "config", "tokens">>,
     Repay |-> <<"market", "signer", "token", "vault", "config", "mint", "whitelist", "tokens">>,
     RepayInterest |-> <<"market", "signer", "token", "vault", "config", "tokens">>,
     Withdraw |-> <<"market", "signer", "token", "vault", "position", "authority",
                    "blacklist", "config", "tokens", "haircut">>,
     WithdrawExcess |-> <<"market", "signer", "token", "vault", "authority", "tokens",
                          "config", "blacklist", "whitelist">>,
     CollectFees |-> <<"market", "config", "signer", "token", "vault", "authority", "tokens">>,
     CloseLenderPosition |-> <<"market", "signer", "position", "system", "config">>,
     ReSettle |-> <<"market", "vault", "config", "haircut">>,
     ForceClosePosition |-> <<"market", "signer", "position", "vault", "token", "authority",
                              "config", "tokens", "haircut">>,
     ClaimHaircut |-> <<"market", "signer", "position", "token", "vault", "authority",
                        "haircut", "config", "tokens">>,
     ForceClaimHaircut |-> <<"market", "signer", "position", "token", "vault", "authority",
                             "haircut", "config", "tokens">>]

Accounts(ix) == [i \in DOMAIN ix.keys |-> ix.keys[i].pubkey]
Addressed(ix, c) ==
    \/ ix.op = "CreateAta"
    \/ /\ ix.program = c.program
       /\ Accounts(ix) = [i \in DOMAIN OnChainOrder[ix.op] |-> Role(c)[OnChainOrder[ix.op][i]]]

-----------------------------------------------------------------------------
(* client/resolve.ts                                                       *)

CreateAta(payer, owner) ==
    [op |-> "CreateAta", program |-> TokenProgram,
     keys |-> Metas(<<payer, Ata(owner), owner, Mint>>, {1}, {1, 2}), data |-> <<>>]

\* Mutant: the account is only created when it is missing at build time.
CreatingOnlyMissing(recipient, tokenAccount, rentPayer) ==
    IF tokenAccount = Ata(recipient) /\ tokenAccount \notin tokenAccounts
    THEN <<CreateAta(rentPayer, recipient)>> ELSE <<>>

BuildRecipientAtaIxs(recipient, tokenAccount, rentPayer) ==
    IF tokenAccount = Ata(recipient) THEN <<CreateAta(rentPayer, recipient)>> ELSE <<>>

SettlementAccounts(c) ==
    [market |-> c.market,
     protocolConfig |-> FindProtocolConfigPda(ClientProgram),
     marketAuthority |-> FindMarketAuthorityPda(c.market, ClientProgram),
     haircutState |-> FindHaircutStatePda(c.market, ClientProgram),
     vault |-> FindVaultPda(c.market, ClientProgram)]

\* Mutant: the haircut state is derived for the default program.
LenderAccountsByDefault(c) ==
    [market |-> c.market, lender |-> c.signer, mint |-> Mint,
     protocolConfig |-> FindProtocolConfigPda(ClientProgram),
     lenderPosition |-> FindLenderPositionPda(c.market, c.signer, ClientProgram),
     marketAuthority |-> FindMarketAuthorityPda(c.market, ClientProgram),
     haircutState |-> FindHaircutStatePda(c.market, GetProgramId),
     blacklistCheck |-> FindBlacklistCheckPda(c.signer, BlacklistProgram),
     lenderTokenAccount |-> c.token,
     vault |-> FindVaultPda(c.market, ClientProgram)]

LenderAccounts(c) ==
    [market |-> c.market, lender |-> c.signer, mint |-> Mint,
     protocolConfig |-> FindProtocolConfigPda(ClientProgram),
     lenderPosition |-> FindLenderPositionPda(c.market, c.signer, ClientProgram),
     marketAuthority |-> FindMarketAuthorityPda(c.market, ClientProgram),
     haircutState |-> FindHaircutStatePda(c.market, ClientProgram),
     blacklistCheck |-> FindBlacklistCheckPda(c.signer, BlacklistProgram),
     lenderTokenAccount |-> c.token,
     vault |-> FindVaultPda(c.market, ClientProgram)]

BorrowerAccounts(c) ==
    [market |-> c.market, borrower |-> c.signer,
     protocolConfig |-> FindProtocolConfigPda(ClientProgram),
     marketAuthority |-> FindMarketAuthorityPda(c.market, ClientProgram),
     borrowerWhitelist |-> FindBorrowerWhitelistPda(c.signer, ClientProgram),
     blacklistCheck |-> FindBlacklistCheckPda(c.signer, BlacklistProgram),
     borrowerTokenAccount |-> c.token,
     vault |-> FindVaultPda(c.market, ClientProgram)]

-----------------------------------------------------------------------------
(* Stages of a call                                                        *)

Idle == [stage |-> "idle"]
Done(c, outcome) == [stage |-> "done", by |-> c.by, method |-> c.method,
                     overridden |-> c.token = OtherAccount, outcome |-> outcome]

\* A builder that throws fails the call; otherwise the caller gets the
\* instructions and signs the transaction.
Returned(c, tx) ==
    IF tx = Rejected \/ \E i \in DOMAIN tx : tx[i] = Rejected
    THEN Done(c, "failed")
    ELSE [stage |-> "built", ask |-> c, tx |-> tx, moved |-> FALSE]

\* A method of the client starts and returns; only the values it read matter.
Calls ==
    /\ call = Idle
    /\ UNCHANGED <<configVars, minimumTimestamp, tokenAccounts>>

Client(method, signer) == Call("client", method, ClientProgram, signer)

\* A client method that awaits an account may find the RPC failing or the
\* account missing.
ReadFails ==
    \E method \in {"deposit", "borrow", "withdraw", "repay", "collectFees", "createMarket"} :
        /\ Calls
        /\ call' = Done(Client(method, Borrower), "failed")

-----------------------------------------------------------------------------
(* Methods of CoalesceClient                                               *)

Deposit ==
    \E amount \in Numbers, overridden \in BOOLEAN :
        LET c == Naming(Client("deposit", Lender), overridden)
        IN  /\ Calls
            /\ call' = Returned(With(c, [amount |-> amount]),
                      <<DepositInstruction(LenderAccounts(c), amount, ClientProgram)>>)

WithdrawTx(c, scaledAmount, minPayout) ==
    BuildRecipientAtaIxs(c.signer, c.token, c.signer)
    \o <<WithdrawInstruction(LenderAccounts(c), scaledAmount, minPayout, ClientProgram)>>

Withdraw ==
    \E scaledAmount \in Numbers \cup {U128Range - 1, U128Range}, minPayout \in Numbers,
       overridden \in BOOLEAN :
        LET c == Naming(Client("withdraw", Lender), overridden)
        IN  /\ Calls
            /\ call' = Returned(
                   With(c, [scaledAmount |-> scaledAmount, minPayout |-> minPayout]),
                      WithdrawTx(c, scaledAmount, minPayout))

ClosePosition(c) ==
    CloseLenderPositionInstruction(
        [market |-> c.market, lender |-> c.signer,
         lenderPosition |-> FindLenderPositionPda(c.market, c.signer, ClientProgram),
         protocolConfig |-> FindProtocolConfigPda(ClientProgram)], ClientProgram)

WithdrawAndClose ==
    \E minPayout \in Numbers, overridden \in BOOLEAN :
        LET c == Naming(Client("withdrawAndClose", Lender), overridden)
        IN  /\ Calls
            /\ call' = Returned(With(c, [scaledAmount |-> 0, minPayout |-> minPayout]),
                      WithdrawTx(c, 0, minPayout) \o <<ClosePosition(c)>>)

CloseLenderPosition ==
    LET c == Client("closeLenderPosition", Lender) IN Calls /\ call' = Returned(c, <<ClosePosition(c)>>)

ClaimTx(c) ==
    BuildRecipientAtaIxs(c.signer, c.token, c.signer)
    \o <<ClaimHaircutInstruction(LenderAccounts(c), ClientProgram)>>

ClaimHaircut ==
    \E overridden \in BOOLEAN :
        LET c == Naming(Client("claimHaircut", Lender), overridden)
        IN  /\ Calls
            /\ call' = Returned(c, ClaimTx(c))

ClaimHaircutAndClose ==
    \E overridden \in BOOLEAN :
        LET c == Naming(Client("claimHaircutAndClose", Lender), overridden)
        IN  /\ Calls
            /\ call' = Returned(c, ClaimTx(c) \o <<ClosePosition(c)>>)

CreateMarket ==
    \E nonce, rate, maturity, supply \in Numbers :
        LET args == [nonce |-> nonce, annualInterestBps |-> rate,
                     maturityTimestamp |-> maturity, maxTotalSupply |-> supply]
            pdas == DeriveMarketPdas(Borrower, nonce, ClientProgram)
            c == [With(Client("createMarket", Borrower), args) EXCEPT
                     !.market = FindMarketPda(Borrower, nonce, ClientProgram)]
        IN  /\ Calls
            /\ call' = Returned(c,
                  IF pdas = Rejected THEN Rejected
                  ELSE <<CreateMarketInstruction(
                           [market |-> pdas.market, borrower |-> c.signer, mint |-> Mint,
                            vault |-> pdas.vault, marketAuthority |-> pdas.marketAuthority,
                            protocolConfig |-> FindProtocolConfigPda(ClientProgram),
                            borrowerWhitelist |-> FindBorrowerWhitelistPda(c.signer, ClientProgram),
                            blacklistCheck |-> FindBlacklistCheckPda(c.signer, BlacklistProgram),
                            haircutState |-> FindHaircutStatePda(pdas.market, ClientProgram)],
                           args, minimumTimestamp, ClientProgram)>>)

Borrow ==
    \E amount \in Numbers, overridden \in BOOLEAN :
        LET c == Naming(Client("borrow", Borrower), overridden)
        IN  /\ Calls
            /\ call' = Returned(With(c, [amount |-> amount]),
                      BuildRecipientAtaIxs(c.signer, c.token, c.signer)
                      \o <<BorrowInstruction(BorrowerAccounts(c), amount, ClientProgram)>>)

\* Anyone may repay; the whitelist is that of the market's borrower.
Repay ==
    \E total, interest \in Numbers, payer \in {Borrower, Lender}, overridden \in BOOLEAN :
        LET c == Naming(Client("repay", payer), overridden)
        IN  /\ Calls
            /\ call' = Returned(With(c, [total |-> total, interest |-> interest]),
                      IF total = 0 \/ interest > total THEN Rejected
                      ELSE WaterfallRepayInstructions(
                               [market |-> c.market, payer |-> payer, payerTokenAccount |-> c.token,
                                vault |-> FindVaultPda(c.market, ClientProgram), mint |-> Mint,
                                protocolConfig |-> FindProtocolConfigPda(ClientProgram),
                                borrowerWhitelist |-> FindBorrowerWhitelistPda(Borrower, ClientProgram)],
                               total, interest, ClientProgram))

WithdrawExcess ==
    \E overridden \in BOOLEAN :
        LET c == Naming(Client("withdrawExcess", Borrower), overridden)
        IN  /\ Calls
            /\ call' = Returned(c, BuildRecipientAtaIxs(c.signer, c.token, c.signer)
                         \o <<WithdrawExcessInstruction(BorrowerAccounts(c), ClientProgram)>>)

\* The borrower moves what a lender left behind to an escrow it names.
Escrowed(c) ==
    LET s == SettlementAccounts(c)
    IN  [market |-> s.market, borrower |-> c.signer, escrowTokenAccount |-> c.token,
         lenderPosition |-> FindLenderPositionPda(c.market, Lender, ClientProgram),
         protocolConfig |-> s.protocolConfig, marketAuthority |-> s.marketAuthority,
         haircutState |-> s.haircutState, vault |-> s.vault]

ForceClosePosition ==
    LET c == [Client("forceClosePosition", Borrower) EXCEPT !.token = OtherAccount]
    IN  /\ Calls
        /\ call' = Returned(c, <<ForceClosePositionInstruction(Escrowed(c), ClientProgram)>>)

ForceClaimHaircut ==
    LET c == [Client("forceClaimHaircut", Borrower) EXCEPT !.token = OtherAccount]
    IN  /\ Calls
        /\ call' = Returned(c, <<ForceClaimHaircutInstruction(Escrowed(c), ClientProgram)>>)

ReSettle ==
    LET c == Client("reSettle", Lender)
    IN  /\ Calls
        /\ call' = Returned(c, <<ReSettleInstruction(SettlementAccounts(c), ClientProgram)>>)

CollectFees ==
    \E overridden \in BOOLEAN, payer \in {FeeAuthority, Sponsor} :
        LET c == [Naming(Client("collectFees", FeeAuthority), overridden) EXCEPT !.payer = payer]
            s == SettlementAccounts(c)
        IN  /\ Calls
            /\ call' = Returned(c, BuildRecipientAtaIxs(c.signer, c.token, c.payer)
                         \o <<CollectFeesInstruction(
                                [market |-> s.market, protocolConfig |-> s.protocolConfig,
                                 marketAuthority |-> s.marketAuthority, vault |-> s.vault,
                                 feeAuthority |-> c.signer, feeTokenAccount |-> c.token],
                                ClientProgram)>>)

-----------------------------------------------------------------------------
(* AdminOperations                                                         *)

ClientConfigPda == FindProtocolConfigPda(ClientProgram)
AsAdmin(method) == [Client(method, Admin) EXCEPT !.target = FeeAuthority]

InitializeProtocol ==
    \E rate \in Numbers :
        LET c == AsAdmin("initializeProtocol")
        IN  /\ Calls
            /\ call' = Returned(With(c, [feeRateBps |-> rate]),
                      <<InitializeProtocolInstruction(
                          [protocolConfig |-> ClientConfigPda, admin |-> c.signer,
                           feeAuthority |-> c.target, whitelistManager |-> Manager,
                           blacklistProgram |-> BlacklistProgram,
                           programData |-> FindProgramDataPda(ClientProgram)], rate, ClientProgram)>>)

SetFeeConfig ==
    \E rate \in Numbers :
        LET c == AsAdmin("setFeeConfig")
        IN  /\ Calls
            /\ call' = Returned(With(c, [feeRateBps |-> rate]),
                      <<SetFeeConfigInstruction(
                          [protocolConfig |-> ClientConfigPda, admin |-> c.signer,
                           newFeeAuthority |-> c.target], rate, ClientProgram)>>)

WhitelistBorrower ==
    \E isWhitelisted \in BOOLEAN, capacity \in Numbers :
        LET c == Client("whitelistBorrower", Manager)
        IN  /\ Calls
            /\ call' = Returned(
                   With(c, [isWhitelisted |-> isWhitelisted, maxBorrowCapacity |-> capacity]),
                      <<SetBorrowerWhitelistInstruction(
                          [borrowerWhitelist |-> FindBorrowerWhitelistPda(Borrower, ClientProgram),
                           protocolConfig |-> ClientConfigPda, whitelistManager |-> c.signer,
                           borrower |-> Borrower], isWhitelisted, capacity, ClientProgram)>>)

SetPause ==
    \E paused \in BOOLEAN :
        LET c == AsAdmin("setPause")
        IN  /\ Calls
            /\ call' = Returned(With(c, [paused |-> paused]),
                      <<SetPauseInstruction([protocolConfig |-> ClientConfigPda, admin |-> c.signer],
                                            paused, ClientProgram)>>)

SetBlacklistMode ==
    \E failClosed \in BOOLEAN :
        LET c == AsAdmin("setBlacklistMode")
        IN  /\ Calls
            /\ call' = Returned(With(c, [failClosed |-> failClosed]),
                      <<SetBlacklistModeInstruction(
                          [protocolConfig |-> ClientConfigPda, admin |-> c.signer],
                          failClosed, ClientProgram)>>)

SetAdmin ==
    LET c == AsAdmin("setAdmin")
    IN  /\ Calls
        /\ call' = Returned(c, <<SetAdminInstruction(
                         [protocolConfig |-> ClientConfigPda, currentAdmin |-> c.signer,
                          newAdmin |-> c.target], ClientProgram)>>)

SetWhitelistManager ==
    LET c == AsAdmin("setWhitelistManager")
    IN  /\ Calls
        /\ call' = Returned(c, <<SetWhitelistManagerInstruction(
                         [protocolConfig |-> ClientConfigPda, admin |-> c.signer,
                          newWhitelistManager |-> c.target], ClientProgram)>>)

-----------------------------------------------------------------------------
(* The functions of examples/, regular wallets                             *)
(*                                                                         *)
(* m[i] is the program resolved after the i-th await at which a function   *)
(* uses the default program.  None is an account the function leaves out.  *)

\* A fetched market names the vault it was created with.
VaultOf(market) == FindVaultPda(market, market.program)

ExampleDeposit(c, m) ==
    <<DepositInstruction(
        [market |-> c.market, lender |-> c.signer, lenderTokenAccount |-> c.token,
         vault |-> VaultOf(c.market), mint |-> Mint,
         protocolConfig |-> FindProtocolConfigPda(m[1]),
         lenderPosition |-> FindLenderPositionPda(c.market, c.signer, m[2]),
         blacklistCheck |-> FindBlacklistCheckPda(c.signer, BlacklistProgram)],
        c.args.amount, m[3])>>

ExampleBorrow(c, m) ==
    <<BorrowInstruction(
        [market |-> c.market, borrower |-> c.signer, borrowerTokenAccount |-> c.token,
         vault |-> VaultOf(c.market),
         protocolConfig |-> FindProtocolConfigPda(m[1]),
         marketAuthority |-> FindMarketAuthorityPda(c.market, m[2]),
         borrowerWhitelist |-> FindBorrowerWhitelistPda(c.signer, m[2]),
         blacklistCheck |-> FindBlacklistCheckPda(c.signer, BlacklistProgram)],
        c.args.amount, m[3])>>

ExampleRepay(c, m) ==
    WaterfallRepayInstructions(
        [market |-> c.market, payer |-> c.signer, payerTokenAccount |-> c.token,
         vault |-> VaultOf(c.market), mint |-> Mint,
         protocolConfig |-> FindProtocolConfigPda(m[1]),
         borrowerWhitelist |-> FindBorrowerWhitelistPda(Borrower, m[2])],
        c.args.total, c.args.interest, m[3])

ExampleWithdraw(c, m) ==
    <<WithdrawInstruction(
        [market |-> c.market, lender |-> c.signer, lenderTokenAccount |-> c.token,
         vault |-> VaultOf(c.market), haircutState |-> None,
         lenderPosition |-> FindLenderPositionPda(c.market, c.signer, m[1]),
         protocolConfig |-> FindProtocolConfigPda(m[2]),
         marketAuthority |-> FindMarketAuthorityPda(c.market, m[3]),
         blacklistCheck |-> FindBlacklistCheckPda(c.signer, BlacklistProgram)],
        c.args.scaledAmount, c.args.minPayout, m[4])>>

ExampleCollectFees(c, m) ==
    <<CollectFeesInstruction(
        [market |-> c.market, feeAuthority |-> c.signer, feeTokenAccount |-> c.token,
         vault |-> VaultOf(c.market),
         protocolConfig |-> FindProtocolConfigPda(m[1]),
         marketAuthority |-> FindMarketAuthorityPda(c.market, m[1])], m[2])>>

ExampleWithdrawExcess(c, m) ==
    <<WithdrawExcessInstruction(
        [market |-> c.market, borrower |-> c.signer, borrowerTokenAccount |-> c.token,
         vault |-> VaultOf(c.market), blacklistCheck |-> None, borrowerWhitelist |-> None,
         protocolConfig |-> FindProtocolConfigPda(m[1]),
         marketAuthority |-> FindMarketAuthorityPda(c.market, m[1])], m[2])>>

ExampleClosePosition(c, m) ==
    <<CloseLenderPositionInstruction(
        [market |-> c.market, lender |-> c.signer,
         lenderPosition |-> FindLenderPositionPda(c.market, c.signer, m[1]),
         protocolConfig |-> FindProtocolConfigPda(m[1])], m[2])>>

ExampleCreateMarket(c, m) ==
    LET pdas == DeriveMarketPdas(c.signer, c.args.nonce, m[1])
    IN  <<CreateMarketInstruction(
            [market |-> pdas.market, borrower |-> c.signer, mint |-> Mint,
             vault |-> pdas.vault, marketAuthority |-> pdas.marketAuthority,
             protocolConfig |-> FindProtocolConfigPda(m[1]),
             borrowerWhitelist |-> FindBorrowerWhitelistPda(c.signer, m[2]),
             haircutState |-> FindHaircutStatePda(pdas.market, m[2]),
             blacklistCheck |-> FindBlacklistCheckPda(c.signer, BlacklistProgram)],
            c.args, minimumTimestamp, m[2])>>

ExampleReSettle(c, m) ==
    <<ReSettleInstruction(
        [market |-> c.market, vault |-> VaultOf(c.market), haircutState |-> None,
         protocolConfig |-> FindProtocolConfigPda(m[1])], m[1])>>

ExampleSetPause(c, m) ==
    <<SetPauseInstruction([protocolConfig |-> FindProtocolConfigPda(m[1]), admin |-> c.signer],
                          c.args.paused, m[1])>>

ExampleTx(c, m) ==
    CASE c.method = "deposit" -> ExampleDeposit(c, m)
      [] c.method = "borrow" -> ExampleBorrow(c, m)
      [] c.method = "repay" -> ExampleRepay(c, m)
      [] c.method = "withdraw" -> ExampleWithdraw(c, m)
      [] c.method = "collectFees" -> ExampleCollectFees(c, m)
      [] c.method = "withdrawExcess" -> ExampleWithdrawExcess(c, m)
      [] c.method = "closeLenderPosition" -> ExampleClosePosition(c, m)
      [] c.method = "createMarket" -> ExampleCreateMarket(c, m)
      [] c.method = "reSettle" -> ExampleReSettle(c, m)
      [] c.method = "setPause" -> ExampleSetPause(c, m)

\* How often a function resolves the default program with an await between.
Moments ==
    [deposit |-> 3, borrow |-> 3, repay |-> 3, withdraw |-> 4, collectFees |-> 2,
     withdrawExcess |-> 2, closeLenderPosition |-> 2, createMarket |-> 2,
     reSettle |-> 1, setPause |-> 1]

\* These resolve it before their first await.
AtOnce == {"closeLenderPosition", "createMarket", "setPause"}

Args ==
    [deposit |-> [amount |-> 1], borrow |-> [amount |-> 1],
     repay |-> [total |-> 2, interest |-> 1],
     withdraw |-> [scaledAmount |-> 1, minPayout |-> 0],
     createMarket |-> [nonce |-> 0, annualInterestBps |-> 1, maturityTimestamp |-> 1,
                       maxTotalSupply |-> 1],
     setPause |-> [paused |-> TRUE],
     collectFees |-> <<>>, withdrawExcess |-> <<>>, closeLenderPosition |-> <<>>,
     reSettle |-> <<>>]

SignerOf ==
    [deposit |-> Lender, withdraw |-> Lender, closeLenderPosition |-> Lender,
     reSettle |-> Lender, borrow |-> Borrower, repay |-> Borrower, createMarket |-> Borrower,
     withdrawExcess |-> Borrower, collectFees |-> FeeAuthority, setPause |-> Admin]

\* The function resolves the default program once more, and builds when it has
\* resolved it for the last time.
Resolved(c, m, moved, program) ==
    IF program = Unresolved THEN Done(c, "failed")
    ELSE IF Len(m) + 1 < Moments[c.method]
    THEN [stage |-> "deriving", ask |-> c, moments |-> Append(m, program), moved |-> moved]
    ELSE LET built == Returned(c, ExampleTx(c, Append(m, program)))
         IN  IF built.stage = "built" THEN [built EXCEPT !.moved = moved] ELSE built

\* Every function starts with configureSdk({ network: 'mainnet' }).
ExampleCall ==
    \E method \in DOMAIN Moments :
        LET program == ResolveProgramId(OnMainnet, env)
            c == With(Call("example", method, program, SignerOf[method]), Args[method])
        IN  /\ call = Idle
            /\ ConfigureSdk(OnMainnet)
            /\ call' = IF method \in AtOnce THEN Resolved(c, <<>>, FALSE, program)
                       ELSE [stage |-> "deriving", ask |-> c, moments |-> <<>>, moved |-> FALSE]
            /\ UNCHANGED <<minimumTimestamp, tokenAccounts>>

ExampleResumes ==
    /\ call.stage = "deriving"
    /\ call' = Resolved(call.ask, call.moments, call.moved, GetProgramId)
    /\ UNCHANGED <<configVars, minimumTimestamp, tokenAccounts>>

\* A read of the function fails or finds nothing, or the function itself gives
\* up on what it read: no position, no fees, another borrower, not yet matured.
ExampleReadFails ==
    /\ call.stage = "deriving"
    /\ call' = Done(call.ask, "failed")
    /\ UNCHANGED <<configVars, minimumTimestamp, tokenAccounts>>

-----------------------------------------------------------------------------
(* Sending                                                                 *)

AllMetas(tx) == UNION {{tx[i].keys[j] : j \in DOMAIN tx[i].keys} : i \in DOMAIN tx}
RequiredSigners(tx) == {k.pubkey : k \in {meta \in AllMetas(tx) : meta.isSigner}}

\* The program transfers tokens to the account in the role "token".
PaysOut == {"Borrow", "Withdraw", "WithdrawExcess", "CollectFees", "ClaimHaircut"}
TakesIn == {"Deposit", "Repay", "RepayInterest"}

\* Instructions of a transaction run in order and take effect together.
Created(tx) == {tx[i].keys[2].pubkey : i \in {j \in DOMAIN tx : tx[j].op = "CreateAta"}}
HasToken(tx, c, ops) ==
    \A i \in DOMAIN tx : tx[i].op \in ops =>
        c.token \in tokenAccounts \cup {OtherAccount}
                    \cup Created(SubSeq(tx, 1, i - 1))

Outcome(tx, c) ==
    IF tx = <<>> THEN "failed"
    ELSE IF \E i \in DOMAIN tx : \E j \in DOMAIN tx[i].keys : tx[i].keys[j].pubkey = None
    THEN "Incomplete"
    ELSE IF ~(RequiredSigners(tx) \subseteq {c.signer, c.payer}) THEN "Unsigned"
    ELSE IF \E i \in DOMAIN tx : ~Addressed(tx[i], c) THEN "InvalidPda"
    ELSE IF ~HasToken(tx, c, PaysOut) THEN "InvalidAccountOwner"
    ELSE IF ~HasToken(tx, c, TakesIn) THEN "NoFunds"
    ELSE "landed"

SendAndConfirm ==
    /\ call.stage = "built"
    /\ LET outcome == Outcome(call.tx, call.ask)
       IN  /\ call' = Done(call.ask, outcome)
           /\ tokenAccounts' = IF outcome = "landed" THEN tokenAccounts \cup Created(call.tx)
                               ELSE tokenAccounts
    /\ UNCHANGED <<configVars, minimumTimestamp>>

Finish ==
    /\ call.stage = "done"
    /\ call' = Idle
    /\ UNCHANGED <<configVars, minimumTimestamp, tokenAccounts>>

-----------------------------------------------------------------------------
(* What other tasks and the owners of token accounts do                    *)

\* A call that is between two awaits finds another program from here on.
Reconfigure ==
    /\ \/ \E c \in Configs : ConfigureSdk(c)
       \/ ResetSdkConfig
    /\ call' = IF call.stage = "deriving" /\ GetProgramId' # GetProgramId
               THEN [call EXCEPT !.moved = TRUE] ELSE call
    /\ UNCHANGED <<minimumTimestamp, tokenAccounts>>

LegacyProgramId ==
    /\ GetProgramIdLazy \/ ClearProgramIdCache
    /\ UNCHANGED <<minimumTimestamp, tokenAccounts, call>>

\* resetMinimumTimestamp sets one of these too.
SetMinimumTimestamp ==
    /\ minimumTimestamp' \in MinimumTimestamps
    /\ UNCHANGED <<configVars, tokenAccounts, call>>

OwnersAct ==
    /\ \E owner \in Recipients :
          tokenAccounts' \in {tokenAccounts \cup {Ata(owner)}, tokenAccounts \ {Ata(owner)}}
    /\ UNCHANGED <<configVars, minimumTimestamp, call>>

Init ==
    /\ ConfigInit
    /\ minimumTimestamp \in MinimumTimestamps
    /\ tokenAccounts \in SUBSET {Ata(owner) : owner \in Recipients}
    /\ call = Idle

ClientCall ==
    \/ Deposit \/ Withdraw \/ WithdrawAndClose \/ CloseLenderPosition
    \/ ClaimHaircut \/ ClaimHaircutAndClose
    \/ CreateMarket \/ Borrow \/ Repay \/ WithdrawExcess
    \/ ForceClosePosition \/ ForceClaimHaircut \/ ReSettle \/ CollectFees
    \/ InitializeProtocol \/ SetFeeConfig \/ WhitelistBorrower \/ SetPause
    \/ SetBlacklistMode \/ SetAdmin \/ SetWhitelistManager
    \/ ReadFails

Next ==
    \/ ClientCall
    \/ ExampleCall \/ ExampleResumes \/ ExampleReadFails
    \/ SendAndConfirm \/ Finish
    \/ Reconfigure \/ LegacyProgramId \/ SetMinimumTimestamp \/ OwnersAct

Spec == Init /\ [][Next]_vars

-----------------------------------------------------------------------------
(* Properties                                                              *)

\* The configuration, the legacy cache and the stages of a call have the values
\* the SDK gives them.
TypeOK ==
    /\ config \in SdkConfigs
    /\ env \in Environments
    /\ cachedProgramId \in ProgramIds \cup {None}
    /\ reconfigured \in BOOLEAN
    /\ minimumTimestamp \in MinimumTimestamps
    /\ tokenAccounts \subseteq {Ata(owner) : owner \in Recipients}
    /\ call.stage \in {"idle", "deriving", "built", "done"}

\* PROGRAM_ID, read once and kept, is the program getProgramId resolves now
\* unless configureSdk was called between the two: resetSdkConfig and
\* clearProgramIdCache bring the legacy constant back in line.
LegacyAgrees ==
    cachedProgramId = None \/ reconfigured \/ cachedProgramId = GetProgramId

\* Each account of an instruction is the one the program expects there, or is
\* left out.
Placed(ix, c) ==
    /\ ix.program = c.program
    /\ DOMAIN ix.keys = DOMAIN OnChainOrder[ix.op]
    /\ \A j \in DOMAIN ix.keys :
          ix.keys[j].pubkey \in {None, Role(c)[OnChainOrder[ix.op][j]]}

\* Every account of an instruction is the one the program expects at its place,
\* for the program the instruction is sent to, the market, the borrower and the
\* position the caller means.  A client method keeps this whatever other tasks
\* configure; a function built on the default program keeps it when the
\* resolved program did not change between its awaits.
NeverMisaddressed ==
    call.stage = "built" /\ (call.ask.by = "client" \/ ~call.moved) =>
        \A i \in DOMAIN call.tx :
            call.tx[i].op = "CreateAta" \/ Placed(call.tx[i], call.ask)

\* A transaction a client method built is never turned down for an address, a
\* missing signer or a recipient without a token account, although owners may
\* close their accounts at any time before it lands: create-ATA travels with it.
ClientCallsAreAccepted ==
    call.stage = "done" /\ call.by = "client" => call.outcome \in {"failed", "landed", "NoFunds"}

\* The data of an instruction says what the caller asked for.
Encodes(ix, args) ==
    CASE ix.op = "CreateMarket" ->
           \/ ix.data = args
           \/ /\ args.maturityTimestamp >= U64Range \div 2
              /\ ix.data = [args EXCEPT !.maturityTimestamp = I64(@)]
      [] ix.op = "Repay" -> ix.data.amount = args.total - args.interest
      [] ix.op = "RepayInterest" -> ix.data.amount = args.interest
      [] ix.op \in {"CreateAta", "CloseLenderPosition"} -> TRUE
      [] OTHER -> ix.data = args

\* Every argument reaches the program as the caller passed it, so that no value
\* wraps at its width.  The exception is a maturity of 2^63 or more, which
\* validateTimestamp lets through and the i64 encoding turns into another time.
EncodedFaithfully ==
    call.stage = "built" => \A i \in DOMAIN call.tx : Encodes(call.tx[i], call.ask.args)

\* A transaction pays the interest and then the rest of the total.
PaidInOrder(tx, args) ==
    LET paid(op) == {i \in DOMAIN tx : tx[i].op = op}
        amount(op) == IF paid(op) = {} THEN 0 ELSE tx[CHOOSE i \in paid(op) : TRUE].data.amount
    IN  /\ tx # <<>>
        /\ \A op \in {"Repay", "RepayInterest"} : Cardinality(paid(op)) <= 1
        /\ amount("RepayInterest") = args.interest
        /\ amount("Repay") + amount("RepayInterest") = args.total
        /\ \A i \in paid("RepayInterest"), j \in paid("Repay") : i < j

\* A repayment pays all that was asked, interest before principal, and no part
\* twice: only the principal frees borrow capacity.
RepaysAsSplit ==
    call.stage = "built" /\ call.ask.method = "repay" =>
        PaidInOrder(call.tx, call.ask.args)
=============================================================================
