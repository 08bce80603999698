-------------------------------- MODULE Pdas --------------------------------
(***************************************************************************)
(* Pdas: the program-derived addresses of the protocol.                    *)
(*                                                                         *)
(* An address is the record of what it is derived from: the seed prefix,   *)
(* the deriving program and the remaining seeds.  Distinct derivations     *)
(* have distinct addresses.                                                *)
(***************************************************************************)
EXTENDS Integers

CONSTANTS
    U64Range,         \* 2^64, abstracted to a small number for TLC
    BpfLoader,
    Rejected          \* what a derivation or a builder that throws returns

Pda(seed, program, of) == [seed |-> seed, program |-> program, of |-> of]

\* Mutant: the upper bound is not checked.
IsNotNegative(n) == n >= 0

\* What u64ToLEBytes accepts as a seed, and validateU64 as an argument.
IsU64(n) == n \in 0..(U64Range - 1)

FindProgramDataPda(program) == Pda("program_data", BpfLoader, <<program>>)
FindProtocolConfigPda(program) == Pda("protocol_config", program, <<>>)

\* u64ToLEBytes throws for a nonce that does not fit its seed.
FindMarketPda(borrower, nonce, program) ==
    IF IsU64(nonce) THEN Pda("market", program, <<borrower, nonce>>) ELSE Rejected

FindMarketAuthorityPda(market, program) == Pda("market_authority", program, <<market>>)
FindVaultPda(market, program) == Pda("vault", program, <<market>>)
FindLenderPositionPda(market, lender, program) == Pda("lender", program, <<market, lender>>)
FindBorrowerWhitelistPda(borrower, program) == Pda("borrower_whitelist", program, <<borrower>>)
FindHaircutStatePda(market, program) == Pda("haircut_state", program, <<market>>)
FindBlacklistCheckPda(address, blacklist) == Pda("blacklist", blacklist, <<address>>)

DeriveMarketPdas(borrower, nonce, program) ==
    LET market == FindMarketPda(borrower, nonce, program)
    IN  IF IsU64(nonce)
        THEN [market |-> market,
              marketAuthority |-> FindMarketAuthorityPda(market, program),
              vault |-> FindVaultPda(market, program)]
        ELSE Rejected
=============================================================================
