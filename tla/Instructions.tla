---------------------------- MODULE Instructions ----------------------------
(***************************************************************************)
(* Instructions: the builders of the protocol's instructions.              *)
(*                                                                         *)
(* A builder validates its arguments, lays the accounts out in the order   *)
(* the program reads them and encodes the arguments at their width.  Each  *)
(* takes the accounts as a record a and the program its caller resolved.   *)
(* Rejected is a validation that throws.  Data is kept as the record of    *)
(* the values the bytes decode to.                                         *)
(***************************************************************************)
EXTENDS Pdas, Sequences

CONSTANTS
    U128Range,        \* 2^128, abstracted to a small number for TLC
    MaxBps,           \* MAX_BPS: 10000
    TokenProgram,
    SystemProgram

ASSUME WidthsAssumption ==
    /\ U64Range \in Nat /\ U64Range % 2 = 0 /\ U64Range > 0
    /\ U128Range \in Nat /\ U128Range >= U64Range
    /\ MaxBps \in Nat

-----------------------------------------------------------------------------
(* Validation and encoding                                                 *)

IsU128(n) == n \in 0..(U128Range - 1)
IsBasisPoints(n) == n \in 0..MaxBps
\* No upper bound.
IsTimestamp(t, minimumTimestamp) == t >= 0 /\ t >= minimumTimestamp

\* The DataView setters keep the low bits of what they are given.
U64(n) == n % U64Range
U128(n) == n % U128Range
I64(n) == LET low == n % U64Range
          IN  IF low < U64Range \div 2 THEN low ELSE low - U64Range

Metas(pubkeys, signers, writables) ==
    [i \in DOMAIN pubkeys |-> [pubkey |-> pubkeys[i],
                               isSigner |-> i \in signers,
                               isWritable |-> i \in writables]]

Build(valid, op, program, keys, data) ==
    IF valid THEN [op |-> op, program |-> program, keys |-> keys, data |-> data] ELSE Rejected

-----------------------------------------------------------------------------
(* Administration                                                          *)

InitializeProtocolInstruction(a, feeRateBps, program) ==
    Build(IsBasisPoints(feeRateBps), "InitializeProtocol", program,
          Metas(<<a.protocolConfig, a.admin, a.feeAuthority, a.whitelistManager,
                  a.blacklistProgram, SystemProgram, a.programData>>, {2}, {1, 2}),
          [feeRateBps |-> feeRateBps])

SetFeeConfigInstruction(a, feeRateBps, program) ==
    Build(IsBasisPoints(feeRateBps), "SetFeeConfig", program,
          Metas(<<a.protocolConfig, a.admin, a.newFeeAuthority>>, {2}, {1}),
          [feeRateBps |-> feeRateBps])

SetBorrowerWhitelistInstruction(a, isWhitelisted, maxBorrowCapacity, program) ==
    Build(IsU64(maxBorrowCapacity), "SetBorrowerWhitelist", program,
          Metas(<<a.borrowerWhitelist, a.protocolConfig, a.whitelistManager, a.borrower,
                  SystemProgram>>, {3}, {1, 3}),
          [isWhitelisted |-> isWhitelisted, maxBorrowCapacity |-> U64(maxBorrowCapacity)])

SetPauseInstruction(a, paused, program) ==
    Build(TRUE, "SetPause", program,
          Metas(<<a.protocolConfig, a.admin>>, {2}, {1}), [paused |-> paused])

SetBlacklistModeInstruction(a, failClosed, program) ==
    Build(TRUE, "SetBlacklistMode", program,
          Metas(<<a.protocolConfig, a.admin>>, {2}, {1}), [failClosed |-> failClosed])

SetAdminInstruction(a, program) ==
    Build(TRUE, "SetAdmin", program,
          Metas(<<a.protocolConfig, a.currentAdmin, a.newAdmin>>, {2}, {1}), <<>>)

SetWhitelistManagerInstruction(a, program) ==
    Build(TRUE, "SetWhitelistManager", program,
          Metas(<<a.protocolConfig, a.admin, a.newWhitelistManager>>, {2}, {1}), <<>>)

-----------------------------------------------------------------------------
(* Lending                                                                 *)

CreateMarketInstruction(a, args, minimumTimestamp, program) ==
    Build(/\ IsU64(args.nonce)
          /\ IsBasisPoints(args.annualInterestBps)
          /\ IsTimestamp(args.maturityTimestamp, minimumTimestamp)
          /\ IsU64(args.maxTotalSupply) /\ args.maxTotalSupply # 0,
          "CreateMarket", program,
          Metas(<<a.market, a.borrower, a.mint, a.vault, a.marketAuthority, a.protocolConfig,
                  a.borrowerWhitelist, a.blacklistCheck, SystemProgram, TokenProgram,
                  a.haircutState>>, {2}, {1, 2, 4, 11}),
          [nonce |-> U64(args.nonce),
           annualInterestBps |-> args.annualInterestBps,
           maturityTimestamp |-> I64(args.maturityTimestamp),
           maxTotalSupply |-> U64(args.maxTotalSupply)])

DepositInstruction(a, amount, program) ==
    Build(IsU64(amount) /\ amount # 0, "Deposit", program,
          Metas(<<a.market, a.lender, a.lenderTokenAccount, a.vault, a.lenderPosition,
                  a.blacklistCheck, a.protocolConfig, a.mint, TokenProgram, SystemProgram>>,
                {2}, 1..5),
          [amount |-> U64(amount)])

BorrowInstruction(a, amount, program) ==
    Build(IsU64(amount) /\ amount # 0, "Borrow", program,
          Metas(<<a.market, a.borrower, a.borrowerTokenAccount, a.vault, a.marketAuthority,
                  a.borrowerWhitelist, a.blacklistCheck, a.protocolConfig, TokenProgram>>,
                {2}, {1, 3, 4, 6}),
          [amount |-> U64(amount)])

RepayInstruction(a, amount, program) ==
    Build(IsU64(amount) /\ amount # 0, "Repay", program,
          Metas(<<a.market, a.payer, a.payerTokenAccount, a.vault, a.protocolConfig, a.mint,
                  a.borrowerWhitelist, TokenProgram>>, {2}, {1, 3, 4, 7}),
          [amount |-> U64(amount)])

RepayInterestInstruction(a, amount, program) ==
    Build(IsU64(amount) /\ amount # 0, "RepayInterest", program,
          Metas(<<a.market, a.payer, a.payerTokenAccount, a.vault, a.protocolConfig,
                  TokenProgram>>, {2}, {1, 3, 4}),
          [amount |-> U64(amount)])

WithdrawInstruction(a, scaledAmount, minPayout, program) ==
    Build(IsU128(scaledAmount) /\ IsU64(minPayout), "Withdraw", program,
          Metas(<<a.market, a.lender, a.lenderTokenAccount, a.vault, a.lenderPosition,
                  a.marketAuthority, a.blacklistCheck, a.protocolConfig, TokenProgram,
                  a.haircutState>>, {2}, {1, 3, 4, 5, 10}),
          [scaledAmount |-> U128(scaledAmount), minPayout |-> U64(minPayout)])

WithdrawExcessInstruction(a, program) ==
    Build(TRUE, "WithdrawExcess", program,
          Metas(<<a.market, a.borrower, a.borrowerTokenAccount, a.vault, a.marketAuthority,
                  TokenProgram, a.protocolConfig, a.blacklistCheck, a.borrowerWhitelist>>,
                {2}, {3, 4}), <<>>)

-----------------------------------------------------------------------------
(* Settlement                                                              *)

CollectFeesInstruction(a, program) ==
    Build(TRUE, "CollectFees", program,
          Metas(<<a.market, a.protocolConfig, a.feeAuthority, a.feeTokenAccount, a.vault,
                  a.marketAuthority, TokenProgram>>, {3}, {1, 4, 5}), <<>>)

CloseLenderPositionInstruction(a, program) ==
    Build(TRUE, "CloseLenderPosition", program,
          Metas(<<a.market, a.lender, a.lenderPosition, SystemProgram, a.protocolConfig>>,
                {2}, {2, 3}), <<>>)

ReSettleInstruction(a, program) ==
    Build(TRUE, "ReSettle", program,
          Metas(<<a.market, a.vault, a.protocolConfig, a.haircutState>>, {}, {1}), <<>>)

ForceClosePositionInstruction(a, program) ==
    Build(TRUE, "ForceClosePosition", program,
          Metas(<<a.market, a.borrower, a.lenderPosition, a.vault, a.escrowTokenAccount,
                  a.marketAuthority, a.protocolConfig, TokenProgram, a.haircutState>>,
                {2}, {1, 3, 4, 5, 9}), <<>>)

ClaimHaircutInstruction(a, program) ==
    Build(TRUE, "ClaimHaircut", program,
          Metas(<<a.market, a.lender, a.lenderPosition, a.lenderTokenAccount, a.vault,
                  a.marketAuthority, a.haircutState, a.protocolConfig, TokenProgram>>,
                {2}, {1, 3, 4, 5, 7}), <<>>)

ForceClaimHaircutInstruction(a, program) ==
    Build(TRUE, "ForceClaimHaircut", program,
          Metas(<<a.market, a.borrower, a.lenderPosition, a.escrowTokenAccount, a.vault,
                  a.marketAuthority, a.haircutState, a.protocolConfig, TokenProgram>>,
                {2}, {1, 3, 4, 5, 7}), <<>>)

-----------------------------------------------------------------------------
\* Mutant: the principal instruction repays the whole amount.
WaterfallRepayingAll(a, totalAmount, interestAmount, program) ==
    IF ~IsU64(totalAmount) \/ ~IsU64(interestAmount) \/ interestAmount > totalAmount
    THEN Rejected
    ELSE (IF interestAmount > 0
          THEN <<RepayInterestInstruction(a, interestAmount, program)>> ELSE <<>>)
         \o (IF totalAmount > interestAmount
             THEN <<RepayInstruction(a, totalAmount, program)>> ELSE <<>>)

\* Interest first, then the principal that frees borrow capacity; a part that
\* is zero has no instruction.
WaterfallRepayInstructions(a, totalAmount, interestAmount, program) ==
    IF ~IsU64(totalAmount) \/ ~IsU64(interestAmount) \/ interestAmount > totalAmount
    THEN Rejected
    ELSE (IF interestAmount > 0
          THEN <<RepayInterestInstruction(a, interestAmount, program)>> ELSE <<>>)
         \o (IF totalAmount > interestAmount
             THEN <<RepayInstruction(a, totalAmount - interestAmount, program)>> ELSE <<>>)
=============================================================================
