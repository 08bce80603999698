--------------------------- MODULE ClientCallsProofs ---------------------------
(***************************************************************************)
(* Proofs about SdkConfig, Instructions and ClientCalls, for any programs, *)
(* configurations, inputs and widths of the integers.                      *)
(*                                                                         *)
(* The argument about ClientCalls goes bottom up.  A lemma per builder     *)
(* says what its instruction holds: the operation, the data, each account  *)
(* at its place whenever the record of accounts it was given names the     *)
(* right ones, and that only the signer has to sign.  A lemma per method   *)
(* of the client and per function of the examples says that this record    *)
(* does name them, so that the transaction is Sound; a client method       *)
(* leaves none out, and creates the account it pays.  DerivingInv carries  *)
(* what a function of the examples has resolved across its awaits, which   *)
(* makes IInv inductive.                                                   *)
(***************************************************************************)
EXTENDS ClientCalls, SequenceTheorems, FiniteSetTheorems, TLAPS

-----------------------------------------------------------------------------
(* The configuration                                                       *)

\* The steps of the configuration.
ConfigNext ==
    \/ \E c : ConfigureSdk(c)
    \/ ResetSdkConfig
    \/ GetProgramIdLazy
    \/ ClearProgramIdCache

\* Whatever a call does, the configuration takes a step of its own or none.
LEMMA CallsConfigure ==
    ASSUME [Next]_vars
    PROVE  [ConfigNext]_configVars
<1>1. CASE ClientCall
    BY <1>1 DEF ClientCall, Calls, Deposit, Withdraw, WithdrawAndClose, CloseLenderPosition,
       ClaimHaircut, ClaimHaircutAndClose, CreateMarket, Borrow, Repay, WithdrawExcess,
       ForceClosePosition, ForceClaimHaircut, ReSettle, CollectFees, InitializeProtocol,
       SetFeeConfig, WhitelistBorrower, SetPause, SetBlacklistMode, SetAdmin,
       SetWhitelistManager, ReadFails
<1>2. CASE ExampleCall
    BY <1>2 DEF ExampleCall, ConfigNext
<1>3. CASE ExampleResumes \/ ExampleReadFails
    BY <1>3 DEF ExampleResumes, ExampleReadFails
<1>4. CASE SendAndConfirm \/ Finish
    BY <1>4 DEF SendAndConfirm, Finish
<1>5. CASE Reconfigure
    BY <1>5 DEF Reconfigure, ConfigNext
<1>6. CASE LegacyProgramId
    BY <1>6 DEF LegacyProgramId, ConfigNext
<1>7. CASE SetMinimumTimestamp \/ OwnersAct
    BY <1>7 DEF SetMinimumTimestamp, OwnersAct
<1>8. CASE UNCHANGED vars
    BY <1>8 DEF vars
<1>. QED
    BY <1>1, <1>2, <1>3, <1>4, <1>5, <1>6, <1>7, <1>8 DEF Next

LEMMA ConfigStepKeeps ==
    ASSUME LegacyAgrees, [ConfigNext]_configVars
    PROVE  LegacyAgrees'
<1>1. ASSUME NEW c, ConfigureSdk(c) PROVE LegacyAgrees'
    BY <1>1 DEF ConfigureSdk, LegacyAgrees
<1>2. CASE ResetSdkConfig
    BY <1>2 DEF ResetSdkConfig, LegacyAgrees
<1>3. CASE GetProgramIdLazy
    BY <1>3 DEF GetProgramIdLazy, LegacyAgrees, GetProgramId
<1>4. CASE ClearProgramIdCache
    BY <1>4 DEF ClearProgramIdCache, LegacyAgrees
<1>5. CASE UNCHANGED configVars
    BY <1>5 DEF configVars, LegacyAgrees, GetProgramId
<1>. QED
    BY <1>1, <1>2, <1>3, <1>4, <1>5 DEF ConfigNext

\* For any programs, environment and configurations, the legacy constant is the
\* program resolved now unless configureSdk was called since it was read.
THEOREM LegacyConstantAgrees == Spec => []LegacyAgrees
<1>1. Init => LegacyAgrees
    BY DEF Init, ConfigInit, LegacyAgrees
<1>2. LegacyAgrees /\ [Next]_vars => LegacyAgrees'
    BY CallsConfigure, ConfigStepKeeps
<1>. QED
    BY <1>1, <1>2, PTL DEF Spec

-----------------------------------------------------------------------------
(* Widths                                                                  *)

\* What validateU64 and validateU128 let through is written as it is; what
\* validateTimestamp lets through is, up to the last i64 and no further.
THEOREM ValidatedNumbersKeepTheirValue ==
    /\ \A n : IsU64(n) => U64(n) = n
    /\ \A n : IsU128(n) => U128(n) = n
    /\ \A t \in Int, minimum \in Nat :
           IsTimestamp(t, minimum) /\ t < U64Range =>
               (I64(t) = t <=> t < U64Range \div 2)
<1>1. U64Range \in Nat /\ U64Range > 0 /\ U128Range \in Nat /\ U128Range > 0
    BY WidthsAssumption
<1>2. \A m \in Nat, n \in Nat : n < m => n % m = n
    OBVIOUS
<1>3. \A n : IsU64(n) => U64(n) = n
    BY <1>1, <1>2 DEF IsU64, U64
<1>4. \A n : IsU128(n) => U128(n) = n
    BY <1>1, <1>2 DEF IsU128, U128
<1>5. ASSUME NEW t \in Int, NEW minimum \in Nat, IsTimestamp(t, minimum), t < U64Range
      PROVE  I64(t) = t <=> t < U64Range \div 2
  <2>1. t \in Nat /\ t % U64Range = t
      BY <1>1, <1>2, <1>5 DEF IsTimestamp
  <2>. QED
      BY <2>1, <1>1 DEF I64
<1>. QED
    BY <1>3, <1>4, <1>5

-----------------------------------------------------------------------------
(* The split of a repayment                                                *)

\* A repayment is rejected or has one of four shapes.
LEMMA WaterfallForms ==
    ASSUME NEW a, NEW total \in Int, NEW interest \in Int, NEW program,
           NEW first, first = RepayInterestInstruction(a, interest, program),
           NEW second, second = RepayInstruction(a, total - interest, program),
           NEW tx, tx = WaterfallRepayInstructions(a, total, interest, program),
           IsU64(total), IsU64(interest), interest <= total
    PROVE  \/ interest = 0 /\ total = 0 /\ tx = <<>>
           \/ interest = 0 /\ total > 0 /\ tx = <<second>>
           \/ interest > 0 /\ total = interest /\ tx = <<first>>
           \/ interest > 0 /\ total > interest /\ tx = <<first, second>>
<1>1. total \in Nat /\ interest \in Nat
    BY WidthsAssumption DEF IsU64
<1>2. tx = (IF interest > 0 THEN <<first>> ELSE <<>>)
           \o (IF total > interest THEN <<second>> ELSE <<>>)
    BY <1>1 DEF WaterfallRepayInstructions
<1>3. <<>> \o <<>> = <<>>
    OBVIOUS
<1>4. <<>> \o <<second>> = <<second>>
    OBVIOUS
<1>5. <<first>> \o <<>> = <<first>>
    OBVIOUS
<1>6. <<first>> \o <<second>> = <<first, second>>
  <2>. DEFINE S == {first, second}
  <2>1. <<first>> \in Seq(S) /\ <<second>> \in Seq(S) /\ <<first, second>> \in Seq(S)
      OBVIOUS
  <2>2. Len(<<first>>) = 1 /\ Len(<<second>>) = 1 /\ Len(<<first, second>>) = 2
      OBVIOUS
  <2>3. <<first>> \o <<second>> \in Seq(S) /\ Len(<<first>> \o <<second>>) = 2
      BY <2>1, <2>2, ConcatProperties
  <2>4. (<<first>> \o <<second>>)[1] = first /\ (<<first>> \o <<second>>)[2] = second
      BY <2>1, <2>2, ConcatProperties
  <2>5. \A s, t \in Seq(S) : Len(s) = 2 /\ Len(t) = 2 /\ s[1] = t[1] /\ s[2] = t[2] => s = t
      BY SeqEqual
  <2>. HIDE DEF S
  <2>. QED
      BY <2>1, <2>2, <2>3, <2>4, <2>5
<1>7. CASE interest = 0 /\ total = 0
    BY <1>2, <1>3, <1>7
<1>8. CASE interest = 0 /\ total > 0
    BY <1>2, <1>4, <1>8
<1>9. CASE interest > 0 /\ total = interest
  <2>1. ~(total > interest)
      BY <1>1, <1>9
  <2>2. tx = <<first>> \o <<>>
      BY <1>2, <1>9, <2>1
  <2>. QED
      BY <1>5, <1>9, <2>2
<1>10. CASE interest > 0 /\ total > interest
    BY <1>1, <1>2, <1>6, <1>10
<1>. QED
    BY <1>1, <1>7, <1>8, <1>9, <1>10

\* For any amounts, the waterfall pays the interest first and the rest as
\* principal, leaves out a part that is zero and nothing else, and rejects an
\* interest above the total.
THEOREM WaterfallSplits ==
    ASSUME NEW a, NEW total \in Int, NEW interest \in Int, NEW program
    PROVE  LET tx == WaterfallRepayInstructions(a, total, interest, program)
           IN  IF ~(IsU64(total) /\ IsU64(interest) /\ interest <= total) THEN tx = Rejected
               ELSE \/ /\ interest = 0 /\ total = 0 /\ tx = <<>>
                    \/ /\ interest = 0 /\ total > 0 /\ Len(tx) = 1
                       /\ tx[1].op = "Repay" /\ tx[1].data.amount = total
                    \/ /\ interest > 0 /\ total = interest /\ Len(tx) = 1
                       /\ tx[1].op = "RepayInterest" /\ tx[1].data.amount = total
                    \/ /\ interest > 0 /\ total > interest /\ Len(tx) = 2
                       /\ tx[1].op = "RepayInterest" /\ tx[1].data.amount = interest
                       /\ tx[2].op = "Repay" /\ tx[1].data.amount + tx[2].data.amount = total
<1>. DEFINE tx == WaterfallRepayInstructions(a, total, interest, program)
            first == RepayInterestInstruction(a, interest, program)
            second == RepayInstruction(a, total - interest, program)
<1>1. CASE ~(IsU64(total) /\ IsU64(interest) /\ interest <= total)
  <2>1. tx = Rejected
      BY <1>1 DEF WaterfallRepayInstructions
  <2>. QED
      BY <1>1, <2>1
<1>2. CASE IsU64(total) /\ IsU64(interest) /\ interest <= total
  <2>1. total \in Nat /\ interest \in Nat /\ total - interest \in Nat
        /\ IsU64(total - interest)
      BY <1>2, WidthsAssumption DEF IsU64
  <2>3. interest > 0 => first.op = "RepayInterest" /\ first.data.amount = interest
      BY <1>2, <2>1, ValidatedNumbersKeepTheirValue DEF RepayInterestInstruction, Build
  <2>4. total > interest => second.op = "Repay" /\ second.data.amount = total - interest
      BY <1>2, <2>1, ValidatedNumbersKeepTheirValue DEF RepayInstruction, Build
  <2>5. \/ interest = 0 /\ total = 0 /\ tx = <<>>
        \/ interest = 0 /\ total > 0 /\ tx = <<second>>
        \/ interest > 0 /\ total = interest /\ tx = <<first>>
        \/ interest > 0 /\ total > interest /\ tx = <<first, second>>
      BY <1>2, WaterfallForms
  <2>. HIDE DEF tx, first, second
  <2>6. (\A x : Len(<<x>>) = 1 /\ <<x>>[1] = x)
        /\ \A x, y : Len(<<x, y>>) = 2 /\ <<x, y>>[1] = x /\ <<x, y>>[2] = y
      OBVIOUS
  <2>7. \/ interest = 0 /\ total = 0 /\ tx = <<>>
        \/ /\ interest = 0 /\ total > 0 /\ Len(tx) = 1
           /\ tx[1].op = "Repay" /\ tx[1].data.amount = total
        \/ /\ interest > 0 /\ total = interest /\ Len(tx) = 1
           /\ tx[1].op = "RepayInterest" /\ tx[1].data.amount = total
        \/ /\ interest > 0 /\ total > interest /\ Len(tx) = 2
           /\ tx[1].op = "RepayInterest" /\ tx[1].data.amount = interest
           /\ tx[2].op = "Repay" /\ tx[1].data.amount + tx[2].data.amount = total
      BY <2>1, <2>3, <2>4, <2>5, <2>6
  <2>. QED
      BY <1>2, <2>7 DEF tx
<1>. QED
    BY <1>1, <1>2

-----------------------------------------------------------------------------
(* What each builder puts in its instruction                               *)

\* The account given for a role; a function of the examples may leave it out.
Names(x, role, c) ==
    IF c.by = "client" THEN x = Role(c)[role] /\ x # None ELSE x \in {None, Role(c)[role]}

\* The accounts are placed, and only that of the signer has to sign.
Laid(ix, c) ==
    /\ ix.program = c.program
    /\ DOMAIN ix.keys = DOMAIN OnChainOrder[ix.op]
    /\ \A j \in DOMAIN ix.keys :
          /\ Names(ix.keys[j].pubkey, OnChainOrder[ix.op][j], c)
          /\ ix.keys[j].isSigner => OnChainOrder[ix.op][j] = "signer"

\* What a client method asks for: the records of its accounts are those that
\* AddressesAssumption is about.
Known(c) ==
    /\ c.by = "client" /\ c.program = ClientProgram
    /\ c.signer \in {Borrower, Lender, FeeAuthority, Admin, Manager}
    /\ c.payer \in {c.signer, Sponsor}
    /\ c.token \in {Ata(c.signer), OtherAccount}
    /\ \E nonce \in {n \in Numbers \cup {0} : IsU64(n)} :
          c.market = FindMarketPda(Borrower, nonce, ClientProgram)

\* No account expected of a client method is None, but for a target it lacks.
LEMMA RolesAreFilled ==
    ASSUME NEW c, Known(c)
    PROVE  /\ \A role \in DOMAIN Role(c) \ {"target"} : Role(c)[role] # None
           /\ FeeAuthority # None
<1>1. PICK nonce \in {n \in Numbers \cup {0} : IsU64(n)} :
          c.market = FindMarketPda(Borrower, nonce, ClientProgram)
    BY DEF Known
<1>2. PICK overridden \in BOOLEAN :
          c.token = Naming(Call("client", "any", ClientProgram, c.signer), overridden).token
    BY DEF Known, Naming, Call
<1>. DEFINE d == [Naming(Call("client", "any", ClientProgram, c.signer), overridden) EXCEPT
                     !.market = FindMarketPda(Borrower, nonce, ClientProgram),
                     !.target = FeeAuthority]
<1>3. \A role \in DOMAIN Role(d) : Role(d)[role] # None
  <2>1. c.signer \in {Borrower, Lender, FeeAuthority, Admin, Manager, Sponsor}
      BY DEF Known
  <2>. QED
      BY <2>1, AddressesAssumption, Zenon
<1>4. /\ d.market = c.market /\ d.signer = c.signer /\ d.token = c.token
      /\ d.program = c.program /\ d.target = FeeAuthority
    BY <1>1, <1>2 DEF Known, Naming, Call
<1>. HIDE DEF d
<1>5. DOMAIN Role(c) = DOMAIN Role(d)
    BY DEF Role
<1>6. \A role \in DOMAIN Role(c) \ {"target"} : Role(c)[role] = Role(d)[role]
    BY <1>4 DEF Role
<1>7. Role(d)["target"] = FeeAuthority /\ "target" \in DOMAIN Role(d)
    BY <1>4 DEF Role
<1>. QED
    BY <1>3, <1>5, <1>6, <1>7

LEMMA KnownNames ==
    ASSUME NEW c, Known(c), NEW role \in DOMAIN Role(c) \ {"target"}, NEW x, x = Role(c)[role]
    PROVE  Names(x, role, c)
    BY RolesAreFilled DEF Names, Known

LEMMA TargetNamed ==
    ASSUME NEW c, Known(c), c.target = FeeAuthority
    PROVE  Names(c.target, "target", c)
    BY RolesAreFilled DEF Names, Known, Role

\* The roles of the accounts.
LEMMA RolesOf ==
    \A c : DOMAIN Role(c) = {"market", "signer", "token", "mint", "config", "vault", "authority",
                             "haircut", "position", "whitelist", "blacklist", "programData",
                             "target", "manager", "borrower", "blacklistProgram", "tokens",
                             "system"}
    BY DEF Role

\* The programs that every call names.
LEMMA ProgramsNamed ==
    \A c : Names(TokenProgram, "tokens", c) /\ Names(SystemProgram, "system", c)
<1>. DEFINE d == Call("client", "any", ClientProgram, Borrower)
<1>1. 0 \in {n \in Numbers \cup {0} : IsU64(n)}
    BY WidthsAssumption DEF IsU64
<1>2. Known(d)
    BY <1>1 DEF Known, Call, MarketOf
<1>3. \A role \in DOMAIN Role(d) \ {"target"} : Role(d)[role] # None
    BY <1>2, RolesAreFilled
<1>4. TokenProgram # None /\ SystemProgram # None
    BY <1>3 DEF Role
<1>. QED
    BY <1>4 DEF Names, Role

LEMMA WalletsAreNamed ==
    \A who \in {Borrower, Lender, FeeAuthority, Admin, Manager, Sponsor} :
        who # None /\ Ata(who) # None /\ Mint # None
<1>. SUFFICES ASSUME NEW who \in {Borrower, Lender, FeeAuthority, Admin, Manager, Sponsor}
              PROVE  who # None /\ Ata(who) # None /\ Mint # None
    OBVIOUS
<1>. DEFINE d == [Naming(Call("client", "any", ClientProgram, who), FALSE) EXCEPT
                     !.market = FindMarketPda(Borrower, 0, ClientProgram),
                     !.target = FeeAuthority]
<1>1. 0 \in {n \in Numbers \cup {0} : IsU64(n)}
    BY WidthsAssumption DEF IsU64
<1>2. \A role \in DOMAIN Role(d) : Role(d)[role] # None
    BY <1>1, AddressesAssumption, Zenon
<1>3. d.signer = who /\ d.token = Ata(who)
    BY DEF Naming, Call
<1>. HIDE DEF d
<1>4. Role(d)["signer"] # None /\ Role(d)["token"] # None /\ Role(d)["mint"] # None
    BY <1>2 DEF Role
<1>. QED
    BY <1>3, <1>4 DEF Role

\* The accounts of an instruction are laid out when each of its keys is.
LEMMA MetasLaid ==
    ASSUME NEW p, NEW s, NEW w, NEW op, NEW program, NEW data, NEW c,
           program = c.program,
           DOMAIN p = DOMAIN OnChainOrder[op],
           \A j \in DOMAIN p : Names(p[j], OnChainOrder[op][j], c),
           \A j \in s : OnChainOrder[op][j] = "signer"
    PROVE  Laid([op |-> op, program |-> program, keys |-> Metas(p, s, w), data |-> data], c)
<1>. DEFINE ix == [op |-> op, program |-> program, keys |-> Metas(p, s, w), data |-> data]
<1>1. ix.program = program /\ ix.op = op /\ ix.keys = Metas(p, s, w)
    OBVIOUS
<1>2. DOMAIN Metas(p, s, w) = DOMAIN p
    BY DEF Metas
<1>3. ASSUME NEW j \in DOMAIN p
      PROVE  Metas(p, s, w)[j].pubkey = p[j] /\ (Metas(p, s, w)[j].isSigner => j \in s)
    BY <1>3, Zenon DEF Metas
<1>. HIDE DEF ix
<1>. QED
    BY <1>1, <1>2, <1>3 DEF Laid, ix

\* One lemma per builder: what it encodes and where it puts its accounts.
LEMMA InitializeProtocolBuilds ==
    ASSUME NEW a, NEW feeRateBps, NEW program, NEW ix,
           ix = InitializeProtocolInstruction(a, feeRateBps, program), ix # Rejected
    PROVE  /\ ix.op = "InitializeProtocol"
           /\ ix.data = [feeRateBps |-> feeRateBps]
           /\ \A c : program = c.program /\ Names(a.protocolConfig, "config", c) /\
                      Names(a.admin, "signer", c) /\ Names(a.feeAuthority, "target", c) /\
                      Names(a.whitelistManager, "manager", c) /\
                      Names(a.blacklistProgram, "blacklistProgram", c) /\
                      Names(a.programData, "programData", c)
              => Laid(ix, c)
<1>. DEFINE order == OnChainOrder["InitializeProtocol"]
            p == <<a.protocolConfig, a.admin, a.feeAuthority, a.whitelistManager,
                   a.blacklistProgram, SystemProgram, a.programData>>
            data == [feeRateBps |-> feeRateBps]
<1>1. order = <<"config", "signer", "target", "manager", "blacklistProgram", "system",
               "programData">>
    BY DEF OnChainOrder
<1>2. DOMAIN p = 1..7 /\ DOMAIN order = 1..7
    BY <1>1
<1>3. ix = [op |-> "InitializeProtocol", program |-> program,
            keys |-> Metas(p, {2}, {1, 2}), data |-> data]
    BY DEF InitializeProtocolInstruction, Build
<1>4. ix.data = [feeRateBps |-> feeRateBps]
    BY <1>3, ValidatedNumbersKeepTheirValue DEF InitializeProtocolInstruction, Build
<1>5. ASSUME NEW c, program = c.program, Names(a.protocolConfig, "config", c),
              Names(a.admin, "signer", c), Names(a.feeAuthority, "target", c),
              Names(a.whitelistManager, "manager", c),
              Names(a.blacklistProgram, "blacklistProgram", c),
              Names(a.programData, "programData", c)
      PROVE  Laid(ix, c)
  <2>1. \A j \in 1..7 : Names(p[j], order[j], c)
      BY <1>1, <1>5, ProgramsNamed
  <2>2. \A j \in {2} : order[j] = "signer"
      BY <1>1
  <2>. HIDE DEF order, p, data
  <2>3. DOMAIN p = DOMAIN order /\ \A j \in DOMAIN p : Names(p[j], order[j], c)
      BY <1>2, <2>1
  <2>4. \A w : Laid([op |-> "InitializeProtocol", program |-> program,
                           keys |-> Metas(p, {2}, w), data |-> data], c)
      BY <1>5, <2>2, <2>3, MetasLaid DEF order
  <2>. QED
      BY <1>3, <2>4
<1>. HIDE DEF order, p, data
<1>. QED
    BY <1>3, <1>4, <1>5

LEMMA SetFeeConfigBuilds ==
    ASSUME NEW a, NEW feeRateBps, NEW program, NEW ix,
           ix = SetFeeConfigInstruction(a, feeRateBps, program), ix # Rejected
    PROVE  /\ ix.op = "SetFeeConfig"
           /\ ix.data = [feeRateBps |-> feeRateBps]
           /\ \A c : program = c.program /\ Names(a.protocolConfig, "config", c) /\
                      Names(a.admin, "signer", c) /\ Names(a.newFeeAuthority, "target", c)
              => Laid(ix, c)
<1>. DEFINE order == OnChainOrder["SetFeeConfig"]
            p == <<a.protocolConfig, a.admin, a.newFeeAuthority>>
            data == [feeRateBps |-> feeRateBps]
<1>1. order = <<"config", "signer", "target">>
    BY DEF OnChainOrder
<1>2. DOMAIN p = 1..3 /\ DOMAIN order = 1..3
    BY <1>1
<1>3. ix = [op |-> "SetFeeConfig", program |-> program,
            keys |-> Metas(p, {2}, {1}), data |-> data]
    BY DEF SetFeeConfigInstruction, Build
<1>4. ix.data = [feeRateBps |-> feeRateBps]
    BY <1>3, ValidatedNumbersKeepTheirValue DEF SetFeeConfigInstruction, Build
<1>5. ASSUME NEW c, program = c.program, Names(a.protocolConfig, "config", c),
              Names(a.admin, "signer", c), Names(a.newFeeAuthority, "target", c)
      PROVE  Laid(ix, c)
  <2>1. \A j \in 1..3 : Names(p[j], order[j], c)
      BY <1>1, <1>5, ProgramsNamed
  <2>2. \A j \in {2} : order[j] = "signer"
      BY <1>1
  <2>. HIDE DEF order, p, data
  <2>3. DOMAIN p = DOMAIN order /\ \A j \in DOMAIN p : Names(p[j], order[j], c)
      BY <1>2, <2>1
  <2>4. \A w : Laid([op |-> "SetFeeConfig", program |-> program,
                           keys |-> Metas(p, {2}, w), data |-> data], c)
      BY <1>5, <2>2, <2>3, MetasLaid DEF order
  <2>. QED
      BY <1>3, <2>4
<1>. HIDE DEF order, p, data
<1>. QED
    BY <1>3, <1>4, <1>5

LEMMA SetBorrowerWhitelistBuilds ==
    ASSUME NEW a, NEW isWhitelisted, NEW maxBorrowCapacity, NEW program, NEW ix,
           ix = SetBorrowerWhitelistInstruction(a, isWhitelisted, maxBorrowCapacity, program),
           ix # Rejected
    PROVE  /\ ix.op = "SetBorrowerWhitelist"
           /\ ix.data = [isWhitelisted |-> isWhitelisted,
                         maxBorrowCapacity |-> maxBorrowCapacity]
           /\ \A c : program = c.program /\ Names(a.borrowerWhitelist, "whitelist", c) /\
                      Names(a.protocolConfig, "config", c) /\
                      Names(a.whitelistManager, "signer", c) /\
                      Names(a.borrower, "borrower", c)
              => Laid(ix, c)
<1>. DEFINE order == OnChainOrder["SetBorrowerWhitelist"]
            p == <<a.borrowerWhitelist, a.protocolConfig, a.whitelistManager, a.borrower,
                   SystemProgram>>
            data == [isWhitelisted |-> isWhitelisted,
                     maxBorrowCapacity |-> U64(maxBorrowCapacity)]
<1>1. order = <<"whitelist", "config", "signer", "borrower", "system">>
    BY DEF OnChainOrder
<1>2. DOMAIN p = 1..5 /\ DOMAIN order = 1..5
    BY <1>1
<1>3. ix = [op |-> "SetBorrowerWhitelist", program |-> program,
            keys |-> Metas(p, {3}, {1, 3}), data |-> data]
    BY DEF SetBorrowerWhitelistInstruction, Build
<1>4. ix.data = [isWhitelisted |-> isWhitelisted, maxBorrowCapacity |-> maxBorrowCapacity]
    BY <1>3, ValidatedNumbersKeepTheirValue DEF SetBorrowerWhitelistInstruction, Build
<1>5. ASSUME NEW c, program = c.program, Names(a.borrowerWhitelist, "whitelist", c),
              Names(a.protocolConfig, "config", c), Names(a.whitelistManager, "signer", c),
              Names(a.borrower, "borrower", c)
      PROVE  Laid(ix, c)
  <2>1. \A j \in 1..5 : Names(p[j], order[j], c)
      BY <1>1, <1>5, ProgramsNamed
  <2>2. \A j \in {3} : order[j] = "signer"
      BY <1>1
  <2>. HIDE DEF order, p, data
  <2>3. DOMAIN p = DOMAIN order /\ \A j \in DOMAIN p : Names(p[j], order[j], c)
      BY <1>2, <2>1
  <2>4. \A w : Laid([op |-> "SetBorrowerWhitelist", program |-> program,
                           keys |-> Metas(p, {3}, w), data |-> data], c)
      BY <1>5, <2>2, <2>3, MetasLaid DEF order
  <2>. QED
      BY <1>3, <2>4
<1>. HIDE DEF order, p, data
<1>. QED
    BY <1>3, <1>4, <1>5

LEMMA SetPauseBuilds ==
    ASSUME NEW a, NEW paused, NEW program, NEW ix,
           ix = SetPauseInstruction(a, paused, program), ix # Rejected
    PROVE  /\ ix.op = "SetPause"
           /\ ix.data = [paused |-> paused]
           /\ \A c : program = c.program /\ Names(a.protocolConfig, "config", c) /\
                      Names(a.admin, "signer", c)
              => Laid(ix, c)
<1>. DEFINE order == OnChainOrder["SetPause"]
            p == <<a.protocolConfig, a.admin>>
            data == [paused |-> paused]
<1>1. order = <<"config", "signer">>
    BY DEF OnChainOrder
<1>2. DOMAIN p = 1..2 /\ DOMAIN order = 1..2
    BY <1>1
<1>3. ix = [op |-> "SetPause", program |-> program,
            keys |-> Metas(p, {2}, {1}), data |-> data]
    BY DEF SetPauseInstruction, Build
<1>4. ix.data = [paused |-> paused]
    BY <1>3
<1>5. ASSUME NEW c, program = c.program, Names(a.protocolConfig, "config", c),
              Names(a.admin, "signer", c)
      PROVE  Laid(ix, c)
  <2>1. \A j \in 1..2 : Names(p[j], order[j], c)
      BY <1>1, <1>5, ProgramsNamed
  <2>2. \A j \in {2} : order[j] = "signer"
      BY <1>1
  <2>. HIDE DEF order, p, data
  <2>3. DOMAIN p = DOMAIN order /\ \A j \in DOMAIN p : Names(p[j], order[j], c)
      BY <1>2, <2>1
  <2>4. \A w : Laid([op |-> "SetPause", program |-> program,
                           keys |-> Metas(p, {2}, w), data |-> data], c)
      BY <1>5, <2>2, <2>3, MetasLaid DEF order
  <2>. QED
      BY <1>3, <2>4
<1>. HIDE DEF order, p, data
<1>. QED
    BY <1>3, <1>4, <1>5

LEMMA SetBlacklistModeBuilds ==
    ASSUME NEW a, NEW failClosed, NEW program, NEW ix,
           ix = SetBlacklistModeInstruction(a, failClosed, program), ix # Rejected
    PROVE  /\ ix.op = "SetBlacklistMode"
           /\ ix.data = [failClosed |-> failClosed]
           /\ \A c : program = c.program /\ Names(a.protocolConfig, "config", c) /\
                      Names(a.admin, "signer", c)
              => Laid(ix, c)
<1>. DEFINE order == OnChainOrder["SetBlacklistMode"]
            p == <<a.protocolConfig, a.admin>>
            data == [failClosed |-> failClosed]
<1>1. order = <<"config", "signer">>
    BY DEF OnChainOrder
<1>2. DOMAIN p = 1..2 /\ DOMAIN order = 1..2
    BY <1>1
<1>3. ix = [op |-> "SetBlacklistMode", program |-> program,
            keys |-> Metas(p, {2}, {1}), data |-> data]
    BY DEF SetBlacklistModeInstruction, Build
<1>4. ix.data = [failClosed |-> failClosed]
    BY <1>3
<1>5. ASSUME NEW c, program = c.program, Names(a.protocolConfig, "config", c),
              Names(a.admin, "signer", c)
      PROVE  Laid(ix, c)
  <2>1. \A j \in 1..2 : Names(p[j], order[j], c)
      BY <1>1, <1>5, ProgramsNamed
  <2>2. \A j \in {2} : order[j] = "signer"
      BY <1>1
  <2>. HIDE DEF order, p, data
  <2>3. DOMAIN p = DOMAIN order /\ \A j \in DOMAIN p : Names(p[j], order[j], c)
      BY <1>2, <2>1
  <2>4. \A w : Laid([op |-> "SetBlacklistMode", program |-> program,
                           keys |-> Metas(p, {2}, w), data |-> data], c)
      BY <1>5, <2>2, <2>3, MetasLaid DEF order
  <2>. QED
      BY <1>3, <2>4
<1>. HIDE DEF order, p, data
<1>. QED
    BY <1>3, <1>4, <1>5

LEMMA SetAdminBuilds ==
    ASSUME NEW a, NEW program, NEW ix,
           ix = SetAdminInstruction(a, program), ix # Rejected
    PROVE  /\ ix.op = "SetAdmin"
           /\ ix.data = <<>>
           /\ \A c : program = c.program /\ Names(a.protocolConfig, "config", c) /\
                      Names(a.currentAdmin, "signer", c) /\ Names(a.newAdmin, "target", c)
              => Laid(ix, c)
<1>. DEFINE order == OnChainOrder["SetAdmin"]
            p == <<a.protocolConfig, a.currentAdmin, a.newAdmin>>
            data == <<>>
<1>1. order = <<"config", "signer", "target">>
    BY DEF OnChainOrder
<1>2. DOMAIN p = 1..3 /\ DOMAIN order = 1..3
    BY <1>1
<1>3. ix = [op |-> "SetAdmin", program |-> program,
            keys |-> Metas(p, {2}, {1}), data |-> data]
    BY DEF SetAdminInstruction, Build
<1>4. ix.data = <<>>
    BY <1>3
<1>5. ASSUME NEW c, program = c.program, Names(a.protocolConfig, "config", c),
              Names(a.currentAdmin, "signer", c), Names(a.newAdmin, "target", c)
      PROVE  Laid(ix, c)
  <2>1. \A j \in 1..3 : Names(p[j], order[j], c)
      BY <1>1, <1>5, ProgramsNamed
  <2>2. \A j \in {2} : order[j] = "signer"
      BY <1>1
  <2>. HIDE DEF order, p, data
  <2>3. DOMAIN p = DOMAIN order /\ \A j \in DOMAIN p : Names(p[j], order[j], c)
      BY <1>2, <2>1
  <2>4. \A w : Laid([op |-> "SetAdmin", program |-> program,
                           keys |-> Metas(p, {2}, w), data |-> data], c)
      BY <1>5, <2>2, <2>3, MetasLaid DEF order
  <2>. QED
      BY <1>3, <2>4
<1>. HIDE DEF order, p, data
<1>. QED
    BY <1>3, <1>4, <1>5

LEMMA SetWhitelistManagerBuilds ==
    ASSUME NEW a, NEW program, NEW ix,
           ix = SetWhitelistManagerInstruction(a, program), ix # Rejected
    PROVE  /\ ix.op = "SetWhitelistManager"
           /\ ix.data = <<>>
           /\ \A c : program = c.program /\ Names(a.protocolConfig, "config", c) /\
                      Names(a.admin, "signer", c) /\
                      Names(a.newWhitelistManager, "target", c)
              => Laid(ix, c)
<1>. DEFINE order == OnChainOrder["SetWhitelistManager"]
            p == <<a.protocolConfig, a.admin, a.newWhitelistManager>>
            data == <<>>
<1>1. order = <<"config", "signer", "target">>
    BY DEF OnChainOrder
<1>2. DOMAIN p = 1..3 /\ DOMAIN order = 1..3
    BY <1>1
<1>3. ix = [op |-> "SetWhitelistManager", program |-> program,
            keys |-> Metas(p, {2}, {1}), data |-> data]
    BY DEF SetWhitelistManagerInstruction, Build
<1>4. ix.data = <<>>
    BY <1>3
<1>5. ASSUME NEW c, program = c.program, Names(a.protocolConfig, "config", c),
              Names(a.admin, "signer", c), Names(a.newWhitelistManager, "target", c)
      PROVE  Laid(ix, c)
  <2>1. \A j \in 1..3 : Names(p[j], order[j], c)
      BY <1>1, <1>5, ProgramsNamed
  <2>2. \A j \in {2} : order[j] = "signer"
      BY <1>1
  <2>. HIDE DEF order, p, data
  <2>3. DOMAIN p = DOMAIN order /\ \A j \in DOMAIN p : Names(p[j], order[j], c)
      BY <1>2, <2>1
  <2>4. \A w : Laid([op |-> "SetWhitelistManager", program |-> program,
                           keys |-> Metas(p, {2}, w), data |-> data], c)
      BY <1>5, <2>2, <2>3, MetasLaid DEF order
  <2>. QED
      BY <1>3, <2>4
<1>. HIDE DEF order, p, data
<1>. QED
    BY <1>3, <1>4, <1>5

LEMMA CreateMarketBuilds ==
    ASSUME NEW a, NEW args, NEW minimum, NEW program, NEW ix,
           ix = CreateMarketInstruction(a, args, minimum, program), ix # Rejected
    PROVE  /\ ix.op = "CreateMarket"
           /\ ix.data = [nonce |-> args.nonce, annualInterestBps |-> args.annualInterestBps,
                         maturityTimestamp |-> I64(args.maturityTimestamp),
                         maxTotalSupply |-> args.maxTotalSupply]
           /\ \A c : program = c.program /\ Names(a.market, "market", c) /\
                      Names(a.borrower, "signer", c) /\ Names(a.mint, "mint", c) /\
                      Names(a.vault, "vault", c) /\
                      Names(a.marketAuthority, "authority", c) /\
                      Names(a.protocolConfig, "config", c) /\
                      Names(a.borrowerWhitelist, "whitelist", c) /\
                      Names(a.blacklistCheck, "blacklist", c) /\
                      Names(a.haircutState, "haircut", c)
              => Laid(ix, c)
<1>. DEFINE order == OnChainOrder["CreateMarket"]
            p == <<a.market, a.borrower, a.mint, a.vault, a.marketAuthority,
                   a.protocolConfig, a.borrowerWhitelist, a.blacklistCheck, SystemProgram,
                   TokenProgram, a.haircutState>>
            data == [nonce |-> U64(args.nonce),
                     annualInterestBps |-> args.annualInterestBps,
                     maturityTimestamp |-> I64(args.maturityTimestamp),
                     maxTotalSupply |-> U64(args.maxTotalSupply)]
<1>1. order = <<"market", "signer", "mint", "vault", "authority", "config", "whitelist",
               "blacklist", "system", "tokens", "haircut">>
    BY DEF OnChainOrder
<1>2. DOMAIN p = 1..11 /\ DOMAIN order = 1..11
    BY <1>1
<1>3. ix = [op |-> "CreateMarket", program |-> program,
            keys |-> Metas(p, {2}, {1, 2, 4, 11}), data |-> data]
    BY DEF CreateMarketInstruction, Build
<1>4. ix.data = [nonce |-> args.nonce, annualInterestBps |-> args.annualInterestBps,
                maturityTimestamp |-> I64(args.maturityTimestamp),
                maxTotalSupply |-> args.maxTotalSupply]
    BY <1>3, ValidatedNumbersKeepTheirValue DEF CreateMarketInstruction, Build
<1>5. ASSUME NEW c, program = c.program, Names(a.market, "market", c),
              Names(a.borrower, "signer", c), Names(a.mint, "mint", c),
              Names(a.vault, "vault", c), Names(a.marketAuthority, "authority", c),
              Names(a.protocolConfig, "config", c),
              Names(a.borrowerWhitelist, "whitelist", c),
              Names(a.blacklistCheck, "blacklist", c), Names(a.haircutState, "haircut", c)
      PROVE  Laid(ix, c)
  <2>1. \A j \in 1..11 : Names(p[j], order[j], c)
      BY <1>1, <1>5, ProgramsNamed
  <2>2. \A j \in {2} : order[j] = "signer"
      BY <1>1
  <2>. HIDE DEF order, p, data
  <2>3. DOMAIN p = DOMAIN order /\ \A j \in DOMAIN p : Names(p[j], order[j], c)
      BY <1>2, <2>1
  <2>4. \A w : Laid([op |-> "CreateMarket", program |-> program,
                           keys |-> Metas(p, {2}, w), data |-> data], c)
      BY <1>5, <2>2, <2>3, MetasLaid DEF order
  <2>. QED
      BY <1>3, <2>4
<1>. HIDE DEF order, p, data
<1>. QED
    BY <1>3, <1>4, <1>5

LEMMA DepositBuilds ==
    ASSUME NEW a, NEW amount, NEW program, NEW ix,
           ix = DepositInstruction(a, amount, program), ix # Rejected
    PROVE  /\ ix.op = "Deposit"
           /\ ix.data = [amount |-> amount]
           /\ \A c : program = c.program /\ Names(a.market, "market", c) /\
                      Names(a.lender, "signer", c) /\
                      Names(a.lenderTokenAccount, "token", c) /\
                      Names(a.vault, "vault", c) /\
                      Names(a.lenderPosition, "position", c) /\
                      Names(a.blacklistCheck, "blacklist", c) /\
                      Names(a.protocolConfig, "config", c) /\ Names(a.mint, "mint", c)
              => Laid(ix, c)
<1>. DEFINE order == OnChainOrder["Deposit"]
            p == <<a.market, a.lender, a.lenderTokenAccount, a.vault, a.lenderPosition,
                   a.blacklistCheck, a.protocolConfig, a.mint, TokenProgram, SystemProgram>>
            data == [amount |-> U64(amount)]
<1>1. order = <<"market", "signer", "token", "vault", "position", "blacklist", "config",
               "mint", "tokens", "system">>
    BY DEF OnChainOrder
<1>2. DOMAIN p = 1..10 /\ DOMAIN order = 1..10
    BY <1>1
<1>3. ix = [op |-> "Deposit", program |-> program,
            keys |-> Metas(p, {2}, 1..5), data |-> data]
    BY DEF DepositInstruction, Build
<1>4. ix.data = [amount |-> amount]
    BY <1>3, ValidatedNumbersKeepTheirValue DEF DepositInstruction, Build
<1>5. ASSUME NEW c, program = c.program, Names(a.market, "market", c),
              Names(a.lender, "signer", c), Names(a.lenderTokenAccount, "token", c),
              Names(a.vault, "vault", c), Names(a.lenderPosition, "position", c),
              Names(a.blacklistCheck, "blacklist", c), Names(a.protocolConfig, "config", c),
              Names(a.mint, "mint", c)
      PROVE  Laid(ix, c)
  <2>1. \A j \in 1..10 : Names(p[j], order[j], c)
      BY <1>1, <1>5, ProgramsNamed
  <2>2. \A j \in {2} : order[j] = "signer"
      BY <1>1
  <2>. HIDE DEF order, p, data
  <2>3. DOMAIN p = DOMAIN order /\ \A j \in DOMAIN p : Names(p[j], order[j], c)
      BY <1>2, <2>1
  <2>4. \A w : Laid([op |-> "Deposit", program |-> program,
                           keys |-> Metas(p, {2}, w), data |-> data], c)
      BY <1>5, <2>2, <2>3, MetasLaid DEF order
  <2>. QED
      BY <1>3, <2>4
<1>. HIDE DEF order, p, data
<1>. QED
    BY <1>3, <1>4, <1>5

LEMMA BorrowBuilds ==
    ASSUME NEW a, NEW amount, NEW program, NEW ix,
           ix = BorrowInstruction(a, amount, program), ix # Rejected
    PROVE  /\ ix.op = "Borrow"
           /\ ix.data = [amount |-> amount]
           /\ \A c : program = c.program /\ Names(a.market, "market", c) /\
                      Names(a.borrower, "signer", c) /\
                      Names(a.borrowerTokenAccount, "token", c) /\
                      Names(a.vault, "vault", c) /\
                      Names(a.marketAuthority, "authority", c) /\
                      Names(a.borrowerWhitelist, "whitelist", c) /\
                      Names(a.blacklistCheck, "blacklist", c) /\
                      Names(a.protocolConfig, "config", c)
              => Laid(ix, c)
<1>. DEFINE order == OnChainOrder["Borrow"]
            p == <<a.market, a.borrower, a.borrowerTokenAccount, a.vault, a.marketAuthority,
                   a.borrowerWhitelist, a.blacklistCheck, a.protocolConfig, TokenProgram>>
            data == [amount |-> U64(amount)]
<1>1. order = <<"market", "signer", "token", "vault", "authority", "whitelist", "blacklist",
               "config", "tokens">>
    BY DEF OnChainOrder
<1>2. DOMAIN p = 1..9 /\ DOMAIN order = 1..9
    BY <1>1
<1>3. ix = [op |-> "Borrow", program |-> program,
            keys |-> Metas(p, {2}, {1, 3, 4, 6}), data |-> data]
    BY DEF BorrowInstruction, Build
<1>4. ix.data = [amount |-> amount]
    BY <1>3, ValidatedNumbersKeepTheirValue DEF BorrowInstruction, Build
<1>5. ASSUME NEW c, program = c.program, Names(a.market, "market", c),
              Names(a.borrower, "signer", c), Names(a.borrowerTokenAccount, "token", c),
              Names(a.vault, "vault", c), Names(a.marketAuthority, "authority", c),
              Names(a.borrowerWhitelist, "whitelist", c),
              Names(a.blacklistCheck, "blacklist", c), Names(a.protocolConfig, "config", c)
      PROVE  Laid(ix, c)
  <2>1. \A j \in 1..9 : Names(p[j], order[j], c)
      BY <1>1, <1>5, ProgramsNamed
  <2>2. \A j \in {2} : order[j] = "signer"
      BY <1>1
  <2>. HIDE DEF order, p, data
  <2>3. DOMAIN p = DOMAIN order /\ \A j \in DOMAIN p : Names(p[j], order[j], c)
      BY <1>2, <2>1
  <2>4. \A w : Laid([op |-> "Borrow", program |-> program,
                           keys |-> Metas(p, {2}, w), data |-> data], c)
      BY <1>5, <2>2, <2>3, MetasLaid DEF order
  <2>. QED
      BY <1>3, <2>4
<1>. HIDE DEF order, p, data
<1>. QED
    BY <1>3, <1>4, <1>5

LEMMA RepayBuilds ==
    ASSUME NEW a, NEW amount, NEW program, NEW ix,
           ix = RepayInstruction(a, amount, program), ix # Rejected
    PROVE  /\ ix.op = "Repay"
           /\ ix.data = [amount |-> amount]
           /\ \A c : program = c.program /\ Names(a.market, "market", c) /\
                      Names(a.payer, "signer", c) /\
                      Names(a.payerTokenAccount, "token", c) /\
                      Names(a.vault, "vault", c) /\ Names(a.protocolConfig, "config", c) /\
                      Names(a.mint, "mint", c) /\ Names(a.borrowerWhitelist, "whitelist", c)
              => Laid(ix, c)
<1>. DEFINE order == OnChainOrder["Repay"]
            p == <<a.market, a.payer, a.payerTokenAccount, a.vault, a.protocolConfig,
                   a.mint, a.borrowerWhitelist, TokenProgram>>
            data == [amount |-> U64(amount)]
<1>1. order = <<"market", "signer", "token", "vault", "config", "mint", "whitelist", "tokens">>
    BY DEF OnChainOrder
<1>2. DOMAIN p = 1..8 /\ DOMAIN order = 1..8
    BY <1>1
<1>3. ix = [op |-> "Repay", program |-> program,
            keys |-> Metas(p, {2}, {1, 3, 4, 7}), data |-> data]
    BY DEF RepayInstruction, Build
<1>4. ix.data = [amount |-> amount]
    BY <1>3, ValidatedNumbersKeepTheirValue DEF RepayInstruction, Build
<1>5. ASSUME NEW c, program = c.program, Names(a.market, "market", c),
              Names(a.payer, "signer", c), Names(a.payerTokenAccount, "token", c),
              Names(a.vault, "vault", c), Names(a.protocolConfig, "config", c),
              Names(a.mint, "mint", c), Names(a.borrowerWhitelist, "whitelist", c)
      PROVE  Laid(ix, c)
  <2>1. \A j \in 1..8 : Names(p[j], order[j], c)
      BY <1>1, <1>5, ProgramsNamed
  <2>2. \A j \in {2} : order[j] = "signer"
      BY <1>1
  <2>. HIDE DEF order, p, data
  <2>3. DOMAIN p = DOMAIN order /\ \A j \in DOMAIN p : Names(p[j], order[j], c)
      BY <1>2, <2>1
  <2>4. \A w : Laid([op |-> "Repay", program |-> program,
                           keys |-> Metas(p, {2}, w), data |-> data], c)
      BY <1>5, <2>2, <2>3, MetasLaid DEF order
  <2>. QED
      BY <1>3, <2>4
<1>. HIDE DEF order, p, data
<1>. QED
    BY <1>3, <1>4, <1>5

LEMMA RepayInterestBuilds ==
    ASSUME NEW a, NEW amount, NEW program, NEW ix,
           ix = RepayInterestInstruction(a, amount, program), ix # Rejected
    PROVE  /\ ix.op = "RepayInterest"
           /\ ix.data = [amount |-> amount]
           /\ \A c : program = c.program /\ Names(a.market, "market", c) /\
                      Names(a.payer, "signer", c) /\
                      Names(a.payerTokenAccount, "token", c) /\
                      Names(a.vault, "vault", c) /\ Names(a.protocolConfig, "config", c)
              => Laid(ix, c)
<1>. DEFINE order == OnChainOrder["RepayInterest"]
            p == <<a.market, a.payer, a.payerTokenAccount, a.vault, a.protocolConfig,
                   TokenProgram>>
            data == [amount |-> U64(amount)]
<1>1. order = <<"market", "signer", "token", "vault", "config", "tokens">>
    BY DEF OnChainOrder
<1>2. DOMAIN p = 1..6 /\ DOMAIN order = 1..6
    BY <1>1
<1>3. ix = [op |-> "RepayInterest", program |-> program,
            keys |-> Metas(p, {2}, {1, 3, 4}), data |-> data]
    BY DEF RepayInterestInstruction, Build
<1>4. ix.data = [amount |-> amount]
    BY <1>3, ValidatedNumbersKeepTheirValue DEF RepayInterestInstruction, Build
<1>5. ASSUME NEW c, program = c.program, Names(a.market, "market", c),
              Names(a.payer, "signer", c), Names(a.payerTokenAccount, "token", c),
              Names(a.vault, "vault", c), Names(a.protocolConfig, "config", c)
      PROVE  Laid(ix, c)
  <2>1. \A j \in 1..6 : Names(p[j], order[j], c)
      BY <1>1, <1>5, ProgramsNamed
  <2>2. \A j \in {2} : order[j] = "signer"
      BY <1>1
  <2>. HIDE DEF order, p, data
  <2>3. DOMAIN p = DOMAIN order /\ \A j \in DOMAIN p : Names(p[j], order[j], c)
      BY <1>2, <2>1
  <2>4. \A w : Laid([op |-> "RepayInterest", program |-> program,
                           keys |-> Metas(p, {2}, w), data |-> data], c)
      BY <1>5, <2>2, <2>3, MetasLaid DEF order
  <2>. QED
      BY <1>3, <2>4
<1>. HIDE DEF order, p, data
<1>. QED
    BY <1>3, <1>4, <1>5

LEMMA WithdrawBuilds ==
    ASSUME NEW a, NEW scaledAmount, NEW minPayout, NEW program, NEW ix,
           ix = WithdrawInstruction(a, scaledAmount, minPayout, program), ix # Rejected
    PROVE  /\ ix.op = "Withdraw"
           /\ ix.data = [scaledAmount |-> scaledAmount, minPayout |-> minPayout]
           /\ \A c : program = c.program /\ Names(a.market, "market", c) /\
                      Names(a.lender, "signer", c) /\
                      Names(a.lenderTokenAccount, "token", c) /\
                      Names(a.vault, "vault", c) /\
                      Names(a.lenderPosition, "position", c) /\
                      Names(a.marketAuthority, "authority", c) /\
                      Names(a.blacklistCheck, "blacklist", c) /\
                      Names(a.protocolConfig, "config", c) /\
                      Names(a.haircutState, "haircut", c)
              => Laid(ix, c)
<1>. DEFINE order == OnChainOrder["Withdraw"]
            p == <<a.market, a.lender, a.lenderTokenAccount, a.vault, a.lenderPosition,
                   a.marketAuthority, a.blacklistCheck, a.protocolConfig, TokenProgram,
                   a.haircutState>>
            data == [scaledAmount |-> U128(scaledAmount), minPayout |-> U64(minPayout)]
<1>1. order = <<"market", "signer", "token", "vault", "position", "authority", "blacklist",
               "config", "tokens", "haircut">>
    BY DEF OnChainOrder
<1>2. DOMAIN p = 1..10 /\ DOMAIN order = 1..10
    BY <1>1
<1>3. ix = [op |-> "Withdraw", program |-> program,
            keys |-> Metas(p, {2}, {1, 3, 4, 5, 10}), data |-> data]
    BY DEF WithdrawInstruction, Build
<1>4. ix.data = [scaledAmount |-> scaledAmount, minPayout |-> minPayout]
    BY <1>3, ValidatedNumbersKeepTheirValue DEF WithdrawInstruction, Build
<1>5. ASSUME NEW c, program = c.program, Names(a.market, "market", c),
              Names(a.lender, "signer", c), Names(a.lenderTokenAccount, "token", c),
              Names(a.vault, "vault", c), Names(a.lenderPosition, "position", c),
              Names(a.marketAuthority, "authority", c),
              Names(a.blacklistCheck, "blacklist", c), Names(a.protocolConfig, "config", c),
              Names(a.haircutState, "haircut", c)
      PROVE  Laid(ix, c)
  <2>1. \A j \in 1..10 : Names(p[j], order[j], c)
      BY <1>1, <1>5, ProgramsNamed
  <2>2. \A j \in {2} : order[j] = "signer"
      BY <1>1
  <2>. HIDE DEF order, p, data
  <2>3. DOMAIN p = DOMAIN order /\ \A j \in DOMAIN p : Names(p[j], order[j], c)
      BY <1>2, <2>1
  <2>4. \A w : Laid([op |-> "Withdraw", program |-> program,
                           keys |-> Metas(p, {2}, w), data |-> data], c)
      BY <1>5, <2>2, <2>3, MetasLaid DEF order
  <2>. QED
      BY <1>3, <2>4
<1>. HIDE DEF order, p, data
<1>. QED
    BY <1>3, <1>4, <1>5

LEMMA WithdrawExcessBuilds ==
    ASSUME NEW a, NEW program, NEW ix,
           ix = WithdrawExcessInstruction(a, program), ix # Rejected
    PROVE  /\ ix.op = "WithdrawExcess"
           /\ ix.data = <<>>
           /\ \A c : program = c.program /\ Names(a.market, "market", c) /\
                      Names(a.borrower, "signer", c) /\
                      Names(a.borrowerTokenAccount, "token", c) /\
                      Names(a.vault, "vault", c) /\
                      Names(a.marketAuthority, "authority", c) /\
                      Names(a.protocolConfig, "config", c) /\
                      Names(a.blacklistCheck, "blacklist", c) /\
                      Names(a.borrowerWhitelist, "whitelist", c)
              => Laid(ix, c)
<1>. DEFINE order == OnChainOrder["WithdrawExcess"]
            p == <<a.market, a.borrower, a.borrowerTokenAccount, a.vault, a.marketAuthority,
                   TokenProgram, a.protocolConfig, a.blacklistCheck, a.borrowerWhitelist>>
            data == <<>>
<1>1. order = <<"market", "signer", "token", "vault", "authority", "tokens", "config",
               "blacklist", "whitelist">>
    BY DEF OnChainOrder
<1>2. DOMAIN p = 1..9 /\ DOMAIN order = 1..9
    BY <1>1
<1>3. ix = [op |-> "WithdrawExcess", program |-> program,
            keys |-> Metas(p, {2}, {3, 4}), data |-> data]
    BY DEF WithdrawExcessInstruction, Build
<1>4. ix.data = <<>>
    BY <1>3
<1>5. ASSUME NEW c, program = c.program, Names(a.market, "market", c),
              Names(a.borrower, "signer", c), Names(a.borrowerTokenAccount, "token", c),
              Names(a.vault, "vault", c), Names(a.marketAuthority, "authority", c),
              Names(a.protocolConfig, "config", c), Names(a.blacklistCheck, "blacklist", c),
              Names(a.borrowerWhitelist, "whitelist", c)
      PROVE  Laid(ix, c)
  <2>1. \A j \in 1..9 : Names(p[j], order[j], c)
      BY <1>1, <1>5, ProgramsNamed
  <2>2. \A j \in {2} : order[j] = "signer"
      BY <1>1
  <2>. HIDE DEF order, p, data
  <2>3. DOMAIN p = DOMAIN order /\ \A j \in DOMAIN p : Names(p[j], order[j], c)
      BY <1>2, <2>1
  <2>4. \A w : Laid([op |-> "WithdrawExcess", program |-> program,
                           keys |-> Metas(p, {2}, w), data |-> data], c)
      BY <1>5, <2>2, <2>3, MetasLaid DEF order
  <2>. QED
      BY <1>3, <2>4
<1>. HIDE DEF order, p, data
<1>. QED
    BY <1>3, <1>4, <1>5

LEMMA CollectFeesBuilds ==
    ASSUME NEW a, NEW program, NEW ix,
           ix = CollectFeesInstruction(a, program), ix # Rejected
    PROVE  /\ ix.op = "CollectFees"
           /\ ix.data = <<>>
           /\ \A c : program = c.program /\ Names(a.market, "market", c) /\
                      Names(a.protocolConfig, "config", c) /\
                      Names(a.feeAuthority, "signer", c) /\
                      Names(a.feeTokenAccount, "token", c) /\ Names(a.vault, "vault", c) /\
                      Names(a.marketAuthority, "authority", c)
              => Laid(ix, c)
<1>. DEFINE order == OnChainOrder["CollectFees"]
            p == <<a.market, a.protocolConfig, a.feeAuthority, a.feeTokenAccount, a.vault,
                   a.marketAuthority, TokenProgram>>
            data == <<>>
<1>1. order = <<"market", "config", "signer", "token", "vault", "authority", "tokens">>
    BY DEF OnChainOrder
<1>2. DOMAIN p = 1..7 /\ DOMAIN order = 1..7
    BY <1>1
<1>3. ix = [op |-> "CollectFees", program |-> program,
            keys |-> Metas(p, {3}, {1, 4, 5}), data |-> data]
    BY DEF CollectFeesInstruction, Build
<1>4. ix.data = <<>>
    BY <1>3
<1>5. ASSUME NEW c, program = c.program, Names(a.market, "market", c),
              Names(a.protocolConfig, "config", c), Names(a.feeAuthority, "signer", c),
              Names(a.feeTokenAccount, "token", c), Names(a.vault, "vault", c),
              Names(a.marketAuthority, "authority", c)
      PROVE  Laid(ix, c)
  <2>1. \A j \in 1..7 : Names(p[j], order[j], c)
      BY <1>1, <1>5, ProgramsNamed
  <2>2. \A j \in {3} : order[j] = "signer"
      BY <1>1
  <2>. HIDE DEF order, p, data
  <2>3. DOMAIN p = DOMAIN order /\ \A j \in DOMAIN p : Names(p[j], order[j], c)
      BY <1>2, <2>1
  <2>4. \A w : Laid([op |-> "CollectFees", program |-> program,
                           keys |-> Metas(p, {3}, w), data |-> data], c)
      BY <1>5, <2>2, <2>3, MetasLaid DEF order
  <2>. QED
      BY <1>3, <2>4
<1>. HIDE DEF order, p, data
<1>. QED
    BY <1>3, <1>4, <1>5

LEMMA CloseLenderPositionBuilds ==
    ASSUME NEW a, NEW program, NEW ix,
           ix = CloseLenderPositionInstruction(a, program), ix # Rejected
    PROVE  /\ ix.op = "CloseLenderPosition"
           /\ ix.data = <<>>
           /\ \A c : program = c.program /\ Names(a.market, "market", c) /\
                      Names(a.lender, "signer", c) /\
                      Names(a.lenderPosition, "position", c) /\
                      Names(a.protocolConfig, "config", c)
              => Laid(ix, c)
<1>. DEFINE order == OnChainOrder["CloseLenderPosition"]
            p == <<a.market, a.lender, a.lenderPosition, SystemProgram, a.protocolConfig>>
            data == <<>>
<1>1. order = <<"market", "signer", "position", "system", "config">>
    BY DEF OnChainOrder
<1>2. DOMAIN p = 1..5 /\ DOMAIN order = 1..5
    BY <1>1
<1>3. ix = [op |-> "CloseLenderPosition", program |-> program,
            keys |-> Metas(p, {2}, {2, 3}), data |-> data]
    BY DEF CloseLenderPositionInstruction, Build
<1>4. ix.data = <<>>
    BY <1>3
<1>5. ASSUME NEW c, program = c.program, Names(a.market, "market", c),
              Names(a.lender, "signer", c), Names(a.lenderPosition, "position", c),
              Names(a.protocolConfig, "config", c)
      PROVE  Laid(ix, c)
  <2>1. \A j \in 1..5 : Names(p[j], order[j], c)
      BY <1>1, <1>5, ProgramsNamed
  <2>2. \A j \in {2} : order[j] = "signer"
      BY <1>1
  <2>. HIDE DEF order, p, data
  <2>3. DOMAIN p = DOMAIN order /\ \A j \in DOMAIN p : Names(p[j], order[j], c)
      BY <1>2, <2>1
  <2>4. \A w : Laid([op |-> "CloseLenderPosition", program |-> program,
                           keys |-> Metas(p, {2}, w), data |-> data], c)
      BY <1>5, <2>2, <2>3, MetasLaid DEF order
  <2>. QED
      BY <1>3, <2>4
<1>. HIDE DEF order, p, data
<1>. QED
    BY <1>3, <1>4, <1>5

LEMMA ReSettleBuilds ==
    ASSUME NEW a, NEW program, NEW ix,
           ix = ReSettleInstruction(a, program), ix # Rejected
    PROVE  /\ ix.op = "ReSettle"
           /\ ix.data = <<>>
           /\ \A c : program = c.program /\ Names(a.market, "market", c) /\
                      Names(a.vault, "vault", c) /\ Names(a.protocolConfig, "config", c) /\
                      Names(a.haircutState, "haircut", c)
              => Laid(ix, c)
<1>. DEFINE order == OnChainOrder["ReSettle"]
            p == <<a.market, a.vault, a.protocolConfig, a.haircutState>>
            data == <<>>
<1>1. order = <<"market", "vault", "config", "haircut">>
    BY DEF OnChainOrder
<1>2. DOMAIN p = 1..4 /\ DOMAIN order = 1..4
    BY <1>1
<1>3. ix = [op |-> "ReSettle", program |-> program,
            keys |-> Metas(p, {}, {1}), data |-> data]
    BY DEF ReSettleInstruction, Build
<1>4. ix.data = <<>>
    BY <1>3
<1>5. ASSUME NEW c, program = c.program, Names(a.market, "market", c), Names(a.vault, "vault", c),
              Names(a.protocolConfig, "config", c), Names(a.haircutState, "haircut", c)
      PROVE  Laid(ix, c)
  <2>1. \A j \in 1..4 : Names(p[j], order[j], c)
      BY <1>1, <1>5, ProgramsNamed
  <2>2. \A j \in {} : order[j] = "signer"
      BY <1>1
  <2>. HIDE DEF order, p, data
  <2>3. DOMAIN p = DOMAIN order /\ \A j \in DOMAIN p : Names(p[j], order[j], c)
      BY <1>2, <2>1
  <2>4. \A w : Laid([op |-> "ReSettle", program |-> program,
                           keys |-> Metas(p, {}, w), data |-> data], c)
      BY <1>5, <2>2, <2>3, MetasLaid DEF order
  <2>. QED
      BY <1>3, <2>4
<1>. HIDE DEF order, p, data
<1>. QED
    BY <1>3, <1>4, <1>5

LEMMA ForceClosePositionBuilds ==
    ASSUME NEW a, NEW program, NEW ix,
           ix = ForceClosePositionInstruction(a, program), ix # Rejected
    PROVE  /\ ix.op = "ForceClosePosition"
           /\ ix.data = <<>>
           /\ \A c : program = c.program /\ Names(a.market, "market", c) /\
                      Names(a.borrower, "signer", c) /\
                      Names(a.lenderPosition, "position", c) /\
                      Names(a.vault, "vault", c) /\
                      Names(a.escrowTokenAccount, "token", c) /\
                      Names(a.marketAuthority, "authority", c) /\
                      Names(a.protocolConfig, "config", c) /\
                      Names(a.haircutState, "haircut", c)
              => Laid(ix, c)
<1>. DEFINE order == OnChainOrder["ForceClosePosition"]
            p == <<a.market, a.borrower, a.lenderPosition, a.vault, a.escrowTokenAccount,
                   a.marketAuthority, a.protocolConfig, TokenProgram, a.haircutState>>
            data == <<>>
<1>1. order = <<"market", "signer", "position", "vault", "token", "authority", "config",
               "tokens", "haircut">>
    BY DEF OnChainOrder
<1>2. DOMAIN p = 1..9 /\ DOMAIN order = 1..9
    BY <1>1
<1>3. ix = [op |-> "ForceClosePosition", program |-> program,
            keys |-> Metas(p, {2}, {1, 3, 4, 5, 9}), data |-> data]
    BY DEF ForceClosePositionInstruction, Build
<1>4. ix.data = <<>>
    BY <1>3
<1>5. ASSUME NEW c, program = c.program, Names(a.market, "market", c),
              Names(a.borrower, "signer", c), Names(a.lenderPosition, "position", c),
              Names(a.vault, "vault", c), Names(a.escrowTokenAccount, "token", c),
              Names(a.marketAuthority, "authority", c),
              Names(a.protocolConfig, "config", c), Names(a.haircutState, "haircut", c)
      PROVE  Laid(ix, c)
  <2>1. \A j \in 1..9 : Names(p[j], order[j], c)
      BY <1>1, <1>5, ProgramsNamed
  <2>2. \A j \in {2} : order[j] = "signer"
      BY <1>1
  <2>. HIDE DEF order, p, data
  <2>3. DOMAIN p = DOMAIN order /\ \A j \in DOMAIN p : Names(p[j], order[j], c)
      BY <1>2, <2>1
  <2>4. \A w : Laid([op |-> "ForceClosePosition", program |-> program,
                           keys |-> Metas(p, {2}, w), data |-> data], c)
      BY <1>5, <2>2, <2>3, MetasLaid DEF order
  <2>. QED
      BY <1>3, <2>4
<1>. HIDE DEF order, p, data
<1>. QED
    BY <1>3, <1>4, <1>5

LEMMA ClaimHaircutBuilds ==
    ASSUME NEW a, NEW program, NEW ix,
           ix = ClaimHaircutInstruction(a, program), ix # Rejected
    PROVE  /\ ix.op = "ClaimHaircut"
           /\ ix.data = <<>>
           /\ \A c : program = c.program /\ Names(a.market, "market", c) /\
                      Names(a.lender, "signer", c) /\
                      Names(a.lenderPosition, "position", c) /\
                      Names(a.lenderTokenAccount, "token", c) /\
                      Names(a.vault, "vault", c) /\
                      Names(a.marketAuthority, "authority", c) /\
                      Names(a.haircutState, "haircut", c) /\
                      Names(a.protocolConfig, "config", c)
              => Laid(ix, c)
<1>. DEFINE order == OnChainOrder["ClaimHaircut"]
            p == <<a.market, a.lender, a.lenderPosition, a.lenderTokenAccount, a.vault,
                   a.marketAuthority, a.haircutState, a.protocolConfig, TokenProgram>>
            data == <<>>
<1>1. order = <<"market", "signer", "position", "token", "vault", "authority", "haircut",
               "config", "tokens">>
    BY DEF OnChainOrder
<1>2. DOMAIN p = 1..9 /\ DOMAIN order = 1..9
    BY <1>1
<1>3. ix = [op |-> "ClaimHaircut", program |-> program,
            keys |-> Metas(p, {2}, {1, 3, 4, 5, 7}), data |-> data]
    BY DEF ClaimHaircutInstruction, Build
<1>4. ix.data = <<>>
    BY <1>3
<1>5. ASSUME NEW c, program = c.program, Names(a.market, "market", c),
              Names(a.lender, "signer", c), Names(a.lenderPosition, "position", c),
              Names(a.lenderTokenAccount, "token", c), Names(a.vault, "vault", c),
              Names(a.marketAuthority, "authority", c), Names(a.haircutState, "haircut", c),
              Names(a.protocolConfig, "config", c)
      PROVE  Laid(ix, c)
  <2>1. \A j \in 1..9 : Names(p[j], order[j], c)
      BY <1>1, <1>5, ProgramsNamed
  <2>2. \A j \in {2} : order[j] = "signer"
      BY <1>1
  <2>. HIDE DEF order, p, data
  <2>3. DOMAIN p = DOMAIN order /\ \A j \in DOMAIN p : Names(p[j], order[j], c)
      BY <1>2, <2>1
  <2>4. \A w : Laid([op |-> "ClaimHaircut", program |-> program,
                           keys |-> Metas(p, {2}, w), data |-> data], c)
      BY <1>5, <2>2, <2>3, MetasLaid DEF order
  <2>. QED
      BY <1>3, <2>4
<1>. HIDE DEF order, p, data
<1>. QED
    BY <1>3, <1>4, <1>5

LEMMA ForceClaimHaircutBuilds ==
    ASSUME NEW a, NEW program, NEW ix,
           ix = ForceClaimHaircutInstruction(a, program), ix # Rejected
    PROVE  /\ ix.op = "ForceClaimHaircut"
           /\ ix.data = <<>>
           /\ \A c : program = c.program /\ Names(a.market, "market", c) /\
                      Names(a.borrower, "signer", c) /\
                      Names(a.lenderPosition, "position", c) /\
                      Names(a.escrowTokenAccount, "token", c) /\
                      Names(a.vault, "vault", c) /\
                      Names(a.marketAuthority, "authority", c) /\
                      Names(a.haircutState, "haircut", c) /\
                      Names(a.protocolConfig, "config", c)
              => Laid(ix, c)
<1>. DEFINE order == OnChainOrder["ForceClaimHaircut"]
            p == <<a.market, a.borrower, a.lenderPosition, a.escrowTokenAccount, a.vault,
                   a.marketAuthority, a.haircutState, a.protocolConfig, TokenProgram>>
            data == <<>>
<1>1. order = <<"market", "signer", "position", "token", "vault", "authority", "haircut",
               "config", "tokens">>
    BY DEF OnChainOrder
<1>2. DOMAIN p = 1..9 /\ DOMAIN order = 1..9
    BY <1>1
<1>3. ix = [op |-> "ForceClaimHaircut", program |-> program,
            keys |-> Metas(p, {2}, {1, 3, 4, 5, 7}), data |-> data]
    BY DEF ForceClaimHaircutInstruction, Build
<1>4. ix.data = <<>>
    BY <1>3
<1>5. ASSUME NEW c, program = c.program, Names(a.market, "market", c),
              Names(a.borrower, "signer", c), Names(a.lenderPosition, "position", c),
              Names(a.escrowTokenAccount, "token", c), Names(a.vault, "vault", c),
              Names(a.marketAuthority, "authority", c), Names(a.haircutState, "haircut", c),
              Names(a.protocolConfig, "config", c)
      PROVE  Laid(ix, c)
  <2>1. \A j \in 1..9 : Names(p[j], order[j], c)
      BY <1>1, <1>5, ProgramsNamed
  <2>2. \A j \in {2} : order[j] = "signer"
      BY <1>1
  <2>. HIDE DEF order, p, data
  <2>3. DOMAIN p = DOMAIN order /\ \A j \in DOMAIN p : Names(p[j], order[j], c)
      BY <1>2, <2>1
  <2>4. \A w : Laid([op |-> "ForceClaimHaircut", program |-> program,
                           keys |-> Metas(p, {2}, w), data |-> data], c)
      BY <1>5, <2>2, <2>3, MetasLaid DEF order
  <2>. QED
      BY <1>3, <2>4
<1>. HIDE DEF order, p, data
<1>. QED
    BY <1>3, <1>4, <1>5

-----------------------------------------------------------------------------
(* Sound transactions and the methods of the client                        *)

Instrs(tx) == {tx[i] : i \in DOMAIN tx}

LEMMA InstrsOf ==
    /\ Instrs(<<>>) = {}
    /\ \A x : Instrs(<<x>>) = {x}
<1>1. Instrs(<<>>) = {}
    BY DEF Instrs
<1>2. ASSUME NEW x PROVE Instrs(<<x>>) = {x}
    BY DEF Instrs
<1>. QED
    BY <1>1, <1>2

LEMMA InstrsConcat ==
    ASSUME NEW S, NEW s \in Seq(S), NEW t \in Seq(S)
    PROVE  Instrs(s \o t) = Instrs(s) \cup Instrs(t)
<1>1. Len(s) \in Nat /\ Len(t) \in Nat /\ DOMAIN s = 1..Len(s) /\ DOMAIN t = 1..Len(t)
    BY LenProperties
<1>2. s \o t \in Seq(S) /\ Len(s \o t) = Len(s) + Len(t)
    BY ConcatProperties
<1>3. DOMAIN (s \o t) = 1..(Len(s) + Len(t))
    BY <1>2, LenProperties
<1>4. \A i \in 1..(Len(s) + Len(t)) :
          (s \o t)[i] = IF i <= Len(s) THEN s[i] ELSE t[i - Len(s)]
    BY ConcatProperties
<1>5. \A i \in DOMAIN s : i \in DOMAIN (s \o t) /\ (s \o t)[i] = s[i]
    BY <1>1, <1>3, <1>4
<1>6. ASSUME NEW i \in DOMAIN t
      PROVE  i + Len(s) \in DOMAIN (s \o t) /\ (s \o t)[i + Len(s)] = t[i]
    BY <1>1, <1>3, <1>4
<1>7. \A i \in DOMAIN (s \o t) : \/ i \in DOMAIN s /\ (s \o t)[i] = s[i]
                                 \/ i - Len(s) \in DOMAIN t /\ (s \o t)[i] = t[i - Len(s)]
    BY <1>1, <1>3, <1>4
<1>8. Instrs(s) \subseteq Instrs(s \o t)
    BY <1>5 DEF Instrs
<1>9. Instrs(t) \subseteq Instrs(s \o t)
    BY <1>6 DEF Instrs
<1>10. ASSUME NEW i \in DOMAIN (s \o t) PROVE (s \o t)[i] \in Instrs(s) \cup Instrs(t)
    BY <1>7 DEF Instrs
<1>. QED
    BY <1>8, <1>9, <1>10 DEF Instrs

\* The instructions of a transaction that may create the recipient's account first.
LEMMA WithAta ==
    ASSUME NEW recipient, NEW token, NEW payer, NEW x
    PROVE  LET tx == BuildRecipientAtaIxs(recipient, token, payer) \o <<x>>
           IN  /\ Instrs(tx) \subseteq {CreateAta(payer, recipient), x}
               /\ x \in Instrs(tx)
               /\ \A y : Instrs(tx \o <<y>>) = Instrs(tx) \cup {y}
<1>. DEFINE ata == CreateAta(payer, recipient)
            s == BuildRecipientAtaIxs(recipient, token, payer)
<1>1. s = <<>> \/ s = <<ata>>
    BY DEF BuildRecipientAtaIxs
<1>. HIDE DEF ata, s
<1>2. Instrs(s) \subseteq {ata}
    BY <1>1, InstrsOf
<1>3. ASSUME NEW y
      PROVE  /\ Instrs(s \o <<x>>) = Instrs(s) \cup {x}
             /\ Instrs((s \o <<x>>) \o <<y>>) = Instrs(s \o <<x>>) \cup {y}
  <2>. DEFINE S == {ata, x, y}
  <2>1. s \in Seq(S) /\ <<x>> \in Seq(S) /\ <<y>> \in Seq(S)
    <3>1. <<>> \in Seq(S) /\ <<ata>> \in Seq(S) /\ <<x>> \in Seq(S) /\ <<y>> \in Seq(S)
        OBVIOUS
    <3>. QED
        BY <1>1, <3>1
  <2>2. s \o <<x>> \in Seq(S)
      BY <2>1, ConcatProperties
  <2>. HIDE DEF S
  <2>3. Instrs(s \o <<x>>) = Instrs(s) \cup Instrs(<<x>>)
      BY <2>1, InstrsConcat
  <2>4. Instrs((s \o <<x>>) \o <<y>>) = Instrs(s \o <<x>>) \cup Instrs(<<y>>)
      BY <2>1, <2>2, InstrsConcat
  <2>5. Instrs(<<x>>) = {x} /\ Instrs(<<y>>) = {y}
      BY InstrsOf
  <2>. QED
      BY <2>3, <2>4, <2>5
<1>. QED
    BY <1>2, <1>3 DEF ata, s

\* The account is created for a recipient, by one who signs the transaction.
CreatesAta(ix, c) ==
    /\ ix.keys[2].pubkey \in {Ata(owner) : owner \in Recipients}
    /\ \A j \in DOMAIN ix.keys :
          /\ ix.keys[j].pubkey # None
          /\ ix.keys[j].isSigner => ix.keys[j].pubkey \in {c.signer, c.payer}

\* An instruction says what was asked, creates an account only for a recipient
\* and, when its caller kept to one program, names the right accounts.
Sound(ix, c, aimed) ==
    /\ Encodes(ix, c.args)
    /\ ix.op = "CreateAta" => CreatesAta(ix, c)
    /\ aimed => ix.op = "CreateAta" \/ Laid(ix, c)

\* Whatever becomes of the account that is paid, an earlier instruction creates
\* it or the caller named it.
Funded(tx, c) ==
    \A i \in DOMAIN tx : tx[i].op \in PaysOut =>
        c.token \in {OtherAccount} \cup Created(SubSeq(tx, 1, i - 1))

SoundTx(tx, c, aimed) ==
    /\ \A ix \in Instrs(tx) : Sound(ix, c, aimed)
    /\ c.by = "client" => Funded(tx, c)
    /\ c.method = "repay" => PaidInOrder(tx, c.args)

BuiltInv ==
    call.stage = "built" =>
        SoundTx(call.tx, call.ask, call.ask.by = "client" \/ ~call.moved)

LEMMA PaysNobody ==
    ASSUME NEW tx, NEW c, \A ix \in Instrs(tx) : ix.op \notin PaysOut
    PROVE  Funded(tx, c)
    BY DEF Funded, Instrs

LEMMA CreateAtaSound ==
    ASSUME NEW c, Known(c), NEW payer \in {c.signer, c.payer}, NEW owner \in Recipients,
           owner = c.signer, NEW aimed
    PROVE  Sound(CreateAta(payer, owner), c, aimed)
<1>. DEFINE ix == CreateAta(payer, owner)
            p == <<payer, Ata(owner), owner, Mint>>
<1>1. ix.op = "CreateAta" /\ ix.keys = Metas(p, {1}, {1, 2})
    BY DEF CreateAta
<1>2. \A who \in {Borrower, Lender, FeeAuthority, Admin, Manager, Sponsor} :
          who # None /\ Ata(who) # None /\ Mint # None
    BY WalletsAreNamed
<1>3. c.signer \in {Borrower, Lender, FeeAuthority, Admin, Manager}
      /\ payer \in {c.signer, Sponsor}
    BY DEF Known
<1>4. payer # None /\ Ata(owner) # None /\ owner # None /\ Mint # None
    BY <1>2, <1>3
<1>5. DOMAIN ix.keys = 1..4 /\ \A j \in 1..4 : ix.keys[j].pubkey = p[j]
    BY <1>1 DEF Metas
<1>6. \A j \in 1..4 : ix.keys[j].isSigner => j = 1
  <2>1. \A j \in DOMAIN p : Metas(p, {1}, {1, 2})[j].isSigner => j \in {1}
      BY Zenon DEF Metas
  <2>2. DOMAIN p = 1..4
      OBVIOUS
  <2>. HIDE DEF ix, p
  <2>. QED
      BY <1>1, <2>1, <2>2
<1>. HIDE DEF ix
<1>7. \A j \in 1..4 : p[j] # None
    BY <1>4
<1>8. p[1] = payer /\ p[2] = Ata(owner)
    OBVIOUS
<1>. HIDE DEF p
<1>9. CreatesAta(ix, c)
    BY <1>5, <1>6, <1>7, <1>8 DEF CreatesAta
<1>10. Sound(ix, c, aimed)
    BY <1>1, <1>9 DEF Sound, Encodes
<1>. QED
    BY <1>10 DEF ix

LEMMA ReturnedTx ==
    ASSUME NEW c, NEW tx, Returned(c, tx).stage = "built"
    PROVE  /\ Returned(c, tx) = [stage |-> "built", ask |-> c, tx |-> tx, moved |-> FALSE]
           /\ tx # Rejected /\ Rejected \notin Instrs(tx)
    BY DEF Returned, Done, Instrs

\* What a method of the client has to establish.
LEMMA ClientReturns ==
    ASSUME NEW c, NEW tx, call' = Returned(c, tx),
           tx # Rejected /\ Rejected \notin Instrs(tx) => SoundTx(tx, c, TRUE),
           c.by = "client"
    PROVE  BuiltInv'
<1>1. SUFFICES ASSUME call'.stage = "built" PROVE SoundTx(call'.tx, call'.ask, TRUE)
    BY DEF BuiltInv, SoundTx, Sound
<1>2. call' = [stage |-> "built", ask |-> c, tx |-> tx, moved |-> FALSE]
      /\ tx # Rejected /\ Rejected \notin Instrs(tx)
    BY <1>1, ReturnedTx
<1>3. call'.tx = tx /\ call'.ask = c
    BY <1>2
<1>. QED
    BY <1>2, <1>3

\* The record of a call to the client.
LEMMA ClientAsks ==
    ASSUME NEW method, NEW signer, NEW overridden, NEW args, NEW c, NEW ask,
           c = Naming(Client(method, signer), overridden), ask = With(c, args)
    PROVE  /\ c.by = "client" /\ ask.by = "client"
           /\ c.method = method /\ ask.method = method
           /\ c.program = ClientProgram /\ ask.program = ClientProgram
           /\ c.signer = signer /\ ask.signer = signer
           /\ c.market = MarketOf(ClientProgram) /\ ask.market = c.market
           /\ ask.token = c.token /\ c.target = None /\ ask.target = None
           /\ c.args = <<>> /\ ask.args = args
           /\ signer \in {Borrower, Lender, FeeAuthority, Admin, Manager} =>
                  Known(c) /\ Known(ask)
<1>1. /\ c.by = "client" /\ ask.by = "client"
      /\ c.method = method /\ ask.method = method
      /\ c.program = ClientProgram /\ ask.program = ClientProgram
      /\ c.signer = signer /\ ask.signer = signer
      /\ c.market = MarketOf(ClientProgram) /\ ask.market = c.market
      /\ ask.token = c.token /\ c.target = None /\ ask.target = None
      /\ c.args = <<>> /\ ask.args = args
    BY DEF Naming, Client, With, Call
<1>2. c.payer = signer /\ ask.payer = signer /\ c.token \in {Ata(signer), OtherAccount}
    BY DEF Naming, Client, With, Call
<1>3. 0 \in {n \in Numbers \cup {0} : IsU64(n)}
    BY WidthsAssumption DEF IsU64
<1>. QED
    BY <1>1, <1>2, <1>3 DEF Known, MarketOf

LEMMA LenderNames ==
    ASSUME NEW c, NEW ask, c.signer = Lender, ask.signer = Lender, ask.market = c.market,
           ask.token = c.token, Known(ask), NEW a, a = LenderAccounts(c)
    PROVE  /\ Names(a.market, "market", ask) /\ Names(a.lender, "signer", ask)
           /\ Names(a.mint, "mint", ask) /\ Names(a.protocolConfig, "config", ask)
           /\ Names(a.lenderPosition, "position", ask)
           /\ Names(a.marketAuthority, "authority", ask)
           /\ Names(a.haircutState, "haircut", ask) /\ Names(a.blacklistCheck, "blacklist", ask)
           /\ Names(a.lenderTokenAccount, "token", ask) /\ Names(a.vault, "vault", ask)
<1>1. /\ a.market = Role(ask)["market"] /\ a.lender = Role(ask)["signer"]
      /\ a.mint = Role(ask)["mint"] /\ a.protocolConfig = Role(ask)["config"]
      /\ a.lenderPosition = Role(ask)["position"] /\ a.marketAuthority = Role(ask)["authority"]
      /\ a.haircutState = Role(ask)["haircut"] /\ a.blacklistCheck = Role(ask)["blacklist"]
      /\ a.lenderTokenAccount = Role(ask)["token"] /\ a.vault = Role(ask)["vault"]
    BY DEF Known, Role, LenderAccounts
<1>. QED
    BY <1>1, KnownNames, RolesOf

LEMMA BorrowerNames ==
    ASSUME NEW c, NEW ask, c.signer = Borrower, ask.signer = Borrower, ask.market = c.market,
           ask.token = c.token, Known(ask), NEW a, a = BorrowerAccounts(c)
    PROVE  /\ Names(a.market, "market", ask) /\ Names(a.borrower, "signer", ask)
           /\ Names(a.protocolConfig, "config", ask)
           /\ Names(a.marketAuthority, "authority", ask)
           /\ Names(a.borrowerWhitelist, "whitelist", ask)
           /\ Names(a.blacklistCheck, "blacklist", ask)
           /\ Names(a.borrowerTokenAccount, "token", ask) /\ Names(a.vault, "vault", ask)
<1>1. /\ a.market = Role(ask)["market"] /\ a.borrower = Role(ask)["signer"]
      /\ a.protocolConfig = Role(ask)["config"] /\ a.vault = Role(ask)["vault"]
      /\ a.marketAuthority = Role(ask)["authority"]
      /\ a.borrowerWhitelist = Role(ask)["whitelist"]
      /\ a.blacklistCheck = Role(ask)["blacklist"]
      /\ a.borrowerTokenAccount = Role(ask)["token"]
    BY DEF Known, Role, BorrowerAccounts
<1>. QED
    BY <1>1, KnownNames, RolesOf

\* A transaction of one instruction.
LEMMA OneInstruction ==
    ASSUME NEW ix, NEW ask, NEW tx, NEW aimed, tx = <<ix>>, ask.method # "repay",
           ix # Rejected => /\ Sound(ix, ask, aimed)
                            /\ ask.by = "client" => ix.op \notin PaysOut
    PROVE  Rejected \notin Instrs(tx) => SoundTx(tx, ask, aimed)
<1>1. Instrs(tx) = {ix}
    BY InstrsOf
<1>. QED
    BY <1>1, PaysNobody DEF SoundTx

LEMMA StartsAlike ==
    ASSUME NEW S, NEW s \in Seq(S), NEW t \in Seq(S), Len(s) > 0
    PROVE  s \o t \in Seq(S) /\ Len(s \o t) > 0 /\ (s \o t)[1] = s[1]
<1>1. Len(s) \in Nat /\ Len(t) \in Nat
    BY LenProperties
<1>2. /\ s \o t \in Seq(S) /\ Len(s \o t) = Len(s) + Len(t)
      /\ \A i \in 1..(Len(s) + Len(t)) :
             (s \o t)[i] = IF i <= Len(s) THEN s[i] ELSE t[i - Len(s)]
    BY ConcatProperties
<1>. QED
    BY <1>1, <1>2

\* An account created by the first instruction can be paid by the next.
LEMMA CreatedFirst ==
    ASSUME NEW recipient, NEW payer, NEW c, c.token = Ata(recipient), NEW x,
           NEW tx, tx = BuildRecipientAtaIxs(recipient, Ata(recipient), payer) \o <<x>>
    PROVE  Funded(tx, c) /\ \A y : y.op \notin PaysOut => Funded(tx \o <<y>>, c)
<1>. DEFINE ata == CreateAta(payer, recipient)
<1>1. tx = <<ata>> \o <<x>>
    BY DEF BuildRecipientAtaIxs
<1>2. ata.op = "CreateAta" /\ ata.keys[2].pubkey = Ata(recipient)
    BY DEF CreateAta, Metas
<1>. HIDE DEF ata
<1>3. ASSUME NEW S, NEW s \in Seq(S), Len(s) > 0, s[1] = ata, NEW i \in DOMAIN s, i # 1
      PROVE  Ata(recipient) \in Created(SubSeq(s, 1, i - 1))
  <2>1. DOMAIN s = 1..Len(s) /\ Len(s) \in Nat
      BY <1>3, LenProperties
  <2>2. i - 1 \in 1..Len(s)
      BY <1>3, <2>1
  <2>3. SubSeq(s, 1, i - 1) \in Seq(S) /\ Len(SubSeq(s, 1, i - 1)) = i - 1
        /\ SubSeq(s, 1, i - 1)[1] = s[1]
      BY <1>3, <2>1, <2>2, SubSeqProperties
  <2>4. 1 \in DOMAIN SubSeq(s, 1, i - 1)
      BY <2>2, <2>3, LenProperties
  <2>. QED
      BY <1>2, <1>3, <2>3, <2>4 DEF Created
<1>4. ASSUME NEW S, NEW s \in Seq(S), Len(s) > 0, s[1] = ata PROVE Funded(s, c)
  <2>1. ata.op \notin PaysOut
      BY <1>2 DEF PaysOut
  <2>. QED
      BY <1>3, <1>4, <2>1 DEF Funded
<1>5. ASSUME NEW y
      PROVE  Funded(tx, c) /\ Funded(tx \o <<y>>, c)
  <2>. DEFINE S == {ata, x, y}
  <2>1. <<ata>> \in Seq(S) /\ <<x>> \in Seq(S) /\ <<y>> \in Seq(S) /\ Len(<<ata>>) = 1
        /\ Len(<<x>>) = 1 /\ Len(<<y>>) = 1 /\ <<ata>>[1] = ata
      OBVIOUS
  <2>. HIDE DEF S
  <2>2. tx \in Seq(S) /\ Len(tx) > 0 /\ tx[1] = ata
    <3>. DEFINE s == <<ata>>
                t == <<x>>
    <3>1. s \in Seq(S) /\ t \in Seq(S) /\ Len(s) > 0 /\ s[1] = ata
        BY <2>1
    <3>2. tx = s \o t
        BY <1>1
    <3>. HIDE DEF s, t
    <3>3. s \o t \in Seq(S) /\ Len(s \o t) > 0 /\ (s \o t)[1] = s[1]
        BY <3>1, StartsAlike
    <3>. QED
        BY <3>1, <3>2, <3>3
  <2>3. tx \o <<y>> \in Seq(S) /\ Len(tx \o <<y>>) > 0 /\ (tx \o <<y>>)[1] = ata
      BY <2>1, <2>2, StartsAlike
  <2>. QED
      BY <1>4, <2>2, <2>3
<1>. QED
    BY <1>5

\* A payment to a recipient, whose account may have to be created first.
LEMMA PaidOut ==
    ASSUME NEW recipient \in Recipients, NEW token, NEW ask, Known(ask),
           NEW payer \in {ask.signer, ask.payer}, recipient = ask.signer, token = ask.token,
           NEW ix, NEW tx, tx = BuildRecipientAtaIxs(recipient, token, payer) \o <<ix>>,
           ask.method # "repay", ix # Rejected => Sound(ix, ask, TRUE)
    PROVE  /\ Rejected \notin Instrs(tx) => SoundTx(tx, ask, TRUE)
           /\ \A y : /\ Rejected \notin Instrs(tx \o <<y>>)
                     /\ y # Rejected => Sound(y, ask, TRUE) /\ y.op \notin PaysOut
                     => SoundTx(tx \o <<y>>, ask, TRUE)
<1>1. /\ Instrs(tx) \subseteq {CreateAta(payer, recipient), ix}
      /\ ix \in Instrs(tx)
      /\ \A y : Instrs(tx \o <<y>>) = Instrs(tx) \cup {y}
    BY WithAta
<1>2. Sound(CreateAta(payer, recipient), ask, TRUE)
    BY CreateAtaSound
<1>3. Funded(tx, ask) /\ \A y : y.op \notin PaysOut => Funded(tx \o <<y>>, ask)
  <2>1. CASE token = Ata(recipient)
      BY <2>1, CreatedFirst
  <2>2. CASE token # Ata(recipient)
    <3>1. token = OtherAccount
        BY <2>2 DEF Known
    <3>. QED
        BY <3>1 DEF Funded
  <2>. QED
      BY <2>1, <2>2
<1>4. ASSUME Rejected \notin Instrs(tx) PROVE SoundTx(tx, ask, TRUE)
    BY <1>1, <1>2, <1>3, <1>4 DEF SoundTx
<1>5. ASSUME NEW y, Rejected \notin Instrs(tx \o <<y>>),
             y # Rejected => Sound(y, ask, TRUE) /\ y.op \notin PaysOut
      PROVE  SoundTx(tx \o <<y>>, ask, TRUE)
  <2>. DEFINE longer == tx \o <<y>>
  <2>1. Instrs(longer) = Instrs(tx) \cup {y} /\ Rejected \notin Instrs(longer)
      BY <1>1, <1>5
  <2>2. Funded(longer, ask)
      BY <1>3, <1>5, <2>1
  <2>. HIDE DEF longer
  <2>3. \A x \in Instrs(longer) : Sound(x, ask, TRUE)
      BY <1>1, <1>2, <1>5, <2>1
  <2>4. SoundTx(longer, ask, TRUE)
      BY <2>2, <2>3 DEF SoundTx
  <2>. QED
      BY <2>4 DEF longer
<1>. QED
    BY <1>4, <1>5

LEMMA ClosesPosition ==
    ASSUME NEW c, NEW ask, c.signer = Lender, ask.signer = Lender, ask.market = c.market,
           Known(ask), ClosePosition(c) # Rejected
    PROVE  Sound(ClosePosition(c), ask, TRUE) /\ ClosePosition(c).op \notin PaysOut
<1>. DEFINE a == [market |-> c.market, lender |-> c.signer,
                  lenderPosition |-> FindLenderPositionPda(c.market, c.signer, ClientProgram),
                  protocolConfig |-> FindProtocolConfigPda(ClientProgram)]
<1>1. ClosePosition(c) = CloseLenderPositionInstruction(a, ClientProgram)
    BY DEF ClosePosition
<1>2. /\ Names(a.market, "market", ask) /\ Names(a.lender, "signer", ask)
      /\ Names(a.lenderPosition, "position", ask) /\ Names(a.protocolConfig, "config", ask)
  <2>1. /\ a.market = Role(ask)["market"] /\ a.lender = Role(ask)["signer"]
        /\ a.lenderPosition = Role(ask)["position"] /\ a.protocolConfig = Role(ask)["config"]
      BY DEF Known, Role
  <2>. HIDE DEF a
  <2>. QED
      BY <2>1, KnownNames, RolesOf
<1>. HIDE DEF a
<1>3. ClosePosition(c).op = "CloseLenderPosition" /\ Laid(ClosePosition(c), ask)
    BY <1>1, <1>2, CloseLenderPositionBuilds DEF Known
<1>. QED
    BY <1>3 DEF Sound, Encodes, PaysOut

\* The market of most calls.
LEMMA OwnMarket ==
    \E nonce \in {n \in Numbers \cup {0} : IsU64(n)} :
        MarketOf(ClientProgram) = FindMarketPda(Borrower, nonce, ClientProgram)
<1>1. 0 \in {n \in Numbers \cup {0} : IsU64(n)}
    BY WidthsAssumption DEF IsU64
<1>. QED
    BY <1>1 DEF MarketOf

\* One lemma per method: what it builds is sound whatever was configured.
LEMMA DepositSound == Deposit => BuiltInv'
<1>. SUFFICES ASSUME Deposit PROVE BuiltInv'
    OBVIOUS
<1>1. PICK amount \in Numbers, overridden \in BOOLEAN :
        LET c == Naming(Client("deposit", Lender), overridden)
            ix == DepositInstruction(LenderAccounts(c), amount, ClientProgram)
        IN  call' = Returned(With(c, [amount |-> amount]), <<ix>>)
    BY DEF Deposit
<1>. DEFINE c == Naming(Client("deposit", Lender), overridden)
            ask == With(c, [amount |-> amount])
            ix == DepositInstruction(LenderAccounts(c), amount, ClientProgram)
            tx == <<ix>>
<1>2. /\ c.signer = Lender /\ ask.signer = Lender /\ ask.market = c.market
      /\ ask.token = c.token /\ ask.program = ClientProgram /\ Known(ask)
      /\ ask.by = "client" /\ ask.method = "deposit" /\ ask.args = [amount |-> amount]
    BY ClientAsks
<1>. HIDE DEF c, ask
<1>3. ASSUME ix # Rejected PROVE Sound(ix, ask, TRUE) /\ ix.op \notin PaysOut
    BY <1>2, <1>3, DepositBuilds, LenderNames DEF Sound, Encodes, PaysOut
<1>. HIDE DEF ix
<1>4. Rejected \notin Instrs(tx) => SoundTx(tx, ask, TRUE)
    BY <1>2, <1>3, OneInstruction
<1>5. call' = Returned(ask, tx)
    BY <1>1 DEF c, ask, ix
<1>. HIDE DEF tx
<1>. QED
    BY <1>2, <1>4, <1>5, ClientReturns

LEMMA WithdrawSound == Withdraw => BuiltInv'
<1>. SUFFICES ASSUME Withdraw PROVE BuiltInv'
    OBVIOUS
<1>1. PICK scaledAmount \in Numbers \cup {U128Range - 1, U128Range}, minPayout \in Numbers,
             overridden \in BOOLEAN :
        LET c == Naming(Client("withdraw", Lender), overridden)
            ix == WithdrawInstruction(LenderAccounts(c), scaledAmount, minPayout, ClientProgram)
        IN  call' = Returned(With(c, [scaledAmount |-> scaledAmount, minPayout |-> minPayout]),
                             BuildRecipientAtaIxs(c.signer, c.token, c.signer) \o <<ix>>)
    BY DEF Withdraw, WithdrawTx
<1>. DEFINE c == Naming(Client("withdraw", Lender), overridden)
            ask == With(c, [scaledAmount |-> scaledAmount, minPayout |-> minPayout])
            ix == WithdrawInstruction(LenderAccounts(c), scaledAmount, minPayout, ClientProgram)
            tx == BuildRecipientAtaIxs(c.signer, c.token, c.signer) \o <<ix>>
<1>2. /\ c.signer = Lender /\ ask.signer = Lender /\ ask.market = c.market
      /\ ask.token = c.token /\ ask.program = ClientProgram /\ Known(ask)
      /\ ask.by = "client" /\ ask.method = "withdraw"
      /\ ask.args = [scaledAmount |-> scaledAmount, minPayout |-> minPayout]
    BY ClientAsks
<1>. HIDE DEF c, ask
<1>3. ASSUME ix # Rejected PROVE Sound(ix, ask, TRUE)
    BY <1>2, <1>3, WithdrawBuilds, LenderNames DEF Sound, Encodes
<1>. HIDE DEF ix
<1>4. Lender \in Recipients /\ ask.method # "repay"
    BY <1>2 DEF Recipients
<1>5. Rejected \notin Instrs(tx) => SoundTx(tx, ask, TRUE)
    BY <1>2, <1>3, <1>4, PaidOut
<1>6. call' = Returned(ask, tx)
    BY <1>1 DEF c, ask, ix
<1>. HIDE DEF tx
<1>. QED
    BY <1>2, <1>5, <1>6, ClientReturns

LEMMA WithdrawAndCloseSound == WithdrawAndClose => BuiltInv'
<1>. SUFFICES ASSUME WithdrawAndClose PROVE BuiltInv'
    OBVIOUS
<1>1. PICK minPayout \in Numbers, overridden \in BOOLEAN :
        LET c == Naming(Client("withdrawAndClose", Lender), overridden)
            ix == WithdrawInstruction(LenderAccounts(c), 0, minPayout, ClientProgram)
        IN  call' = Returned(With(c, [scaledAmount |-> 0, minPayout |-> minPayout]),
                             (BuildRecipientAtaIxs(c.signer, c.token, c.signer) \o <<ix>>)
                             \o <<ClosePosition(c)>>)
    BY DEF WithdrawAndClose, WithdrawTx
<1>. DEFINE c == Naming(Client("withdrawAndClose", Lender), overridden)
            ask == With(c, [scaledAmount |-> 0, minPayout |-> minPayout])
            ix == WithdrawInstruction(LenderAccounts(c), 0, minPayout, ClientProgram)
            tx == BuildRecipientAtaIxs(c.signer, c.token, c.signer) \o <<ix>>
<1>2. /\ c.signer = Lender /\ ask.signer = Lender /\ ask.market = c.market
      /\ ask.token = c.token /\ ask.program = ClientProgram /\ Known(ask)
      /\ ask.by = "client" /\ ask.method = "withdrawAndClose"
      /\ ask.args = [scaledAmount |-> 0, minPayout |-> minPayout]
    BY ClientAsks
<1>. HIDE DEF c, ask
<1>3. ASSUME ix # Rejected PROVE Sound(ix, ask, TRUE)
    BY <1>2, <1>3, WithdrawBuilds, LenderNames DEF Sound, Encodes
<1>. HIDE DEF ix
<1>4. Lender \in Recipients /\ ask.method # "repay"
    BY <1>2 DEF Recipients
<1>5. ClosePosition(c) # Rejected
      => Sound(ClosePosition(c), ask, TRUE) /\ ClosePosition(c).op \notin PaysOut
    BY <1>2, ClosesPosition
<1>6. Rejected \notin Instrs(tx \o <<ClosePosition(c)>>)
      => SoundTx(tx \o <<ClosePosition(c)>>, ask, TRUE)
    BY <1>2, <1>3, <1>4, <1>5, PaidOut
<1>. HIDE DEF tx
<1>7. call' = Returned(ask, tx \o <<ClosePosition(c)>>)
    BY <1>1 DEF c, ask, ix, tx
<1>. QED
    BY <1>2, <1>6, <1>7, ClientReturns

LEMMA ClaimHaircutSound == ClaimHaircut => BuiltInv'
<1>. SUFFICES ASSUME ClaimHaircut PROVE BuiltInv'
    OBVIOUS
<1>1. PICK overridden \in BOOLEAN :
        LET c == Naming(Client("claimHaircut", Lender), overridden)
            ix == ClaimHaircutInstruction(LenderAccounts(c), ClientProgram)
        IN  call' = Returned(c, BuildRecipientAtaIxs(c.signer, c.token, c.signer) \o <<ix>>)
    BY DEF ClaimHaircut, ClaimTx
<1>. DEFINE c == Naming(Client("claimHaircut", Lender), overridden)
            ask == c
            ix == ClaimHaircutInstruction(LenderAccounts(c), ClientProgram)
            tx == BuildRecipientAtaIxs(c.signer, c.token, c.signer) \o <<ix>>
<1>2. /\ c.signer = Lender /\ ask.signer = Lender /\ ask.market = c.market
      /\ ask.token = c.token /\ ask.program = ClientProgram /\ Known(ask)
      /\ ask.by = "client" /\ ask.method = "claimHaircut" /\ ask.args = <<>>
    BY ClientAsks
<1>. HIDE DEF c, ask
<1>3. ASSUME ix # Rejected PROVE Sound(ix, ask, TRUE)
    BY <1>2, <1>3, ClaimHaircutBuilds, LenderNames DEF Sound, Encodes
<1>. HIDE DEF ix
<1>4. Lender \in Recipients /\ ask.method # "repay"
    BY <1>2 DEF Recipients
<1>5. Rejected \notin Instrs(tx) => SoundTx(tx, ask, TRUE)
    BY <1>2, <1>3, <1>4, PaidOut
<1>6. call' = Returned(ask, tx)
    BY <1>1 DEF c, ask, ix
<1>. HIDE DEF tx
<1>. QED
    BY <1>2, <1>5, <1>6, ClientReturns

LEMMA ClaimHaircutAndCloseSound == ClaimHaircutAndClose => BuiltInv'
<1>. SUFFICES ASSUME ClaimHaircutAndClose PROVE BuiltInv'
    OBVIOUS
<1>1. PICK overridden \in BOOLEAN :
        LET c == Naming(Client("claimHaircutAndClose", Lender), overridden)
            ix == ClaimHaircutInstruction(LenderAccounts(c), ClientProgram)
        IN  call' = Returned(c,
                             (BuildRecipientAtaIxs(c.signer, c.token, c.signer) \o <<ix>>)
                             \o <<ClosePosition(c)>>)
    BY DEF ClaimHaircutAndClose, ClaimTx
<1>. DEFINE c == Naming(Client("claimHaircutAndClose", Lender), overridden)
            ask == c
            ix == ClaimHaircutInstruction(LenderAccounts(c), ClientProgram)
            tx == BuildRecipientAtaIxs(c.signer, c.token, c.signer) \o <<ix>>
<1>2. /\ c.signer = Lender /\ ask.signer = Lender /\ ask.market = c.market
      /\ ask.token = c.token /\ ask.program = ClientProgram /\ Known(ask)
      /\ ask.by = "client" /\ ask.method = "claimHaircutAndClose" /\ ask.args = <<>>
    BY ClientAsks
<1>. HIDE DEF c, ask
<1>3. ASSUME ix # Rejected PROVE Sound(ix, ask, TRUE)
    BY <1>2, <1>3, ClaimHaircutBuilds, LenderNames DEF Sound, Encodes
<1>. HIDE DEF ix
<1>4. Lender \in Recipients /\ ask.method # "repay"
    BY <1>2 DEF Recipients
<1>5. ClosePosition(c) # Rejected
      => Sound(ClosePosition(c), ask, TRUE) /\ ClosePosition(c).op \notin PaysOut
    BY <1>2, ClosesPosition
<1>6. Rejected \notin Instrs(tx \o <<ClosePosition(c)>>)
      => SoundTx(tx \o <<ClosePosition(c)>>, ask, TRUE)
    BY <1>2, <1>3, <1>4, <1>5, PaidOut
<1>. HIDE DEF tx
<1>7. call' = Returned(ask, tx \o <<ClosePosition(c)>>)
    BY <1>1 DEF c, ask, ix, tx
<1>. QED
    BY <1>2, <1>6, <1>7, ClientReturns

LEMMA BorrowSound == Borrow => BuiltInv'
<1>. SUFFICES ASSUME Borrow PROVE BuiltInv'
    OBVIOUS
<1>1. PICK amount \in Numbers, overridden \in BOOLEAN :
        LET c == Naming(Client("borrow", Borrower), overridden)
            ix == BorrowInstruction(BorrowerAccounts(c), amount, ClientProgram)
        IN  call' = Returned(With(c, [amount |-> amount]),
                             BuildRecipientAtaIxs(c.signer, c.token, c.signer) \o <<ix>>)
    BY DEF Borrow
<1>. DEFINE c == Naming(Client("borrow", Borrower), overridden)
            ask == With(c, [amount |-> amount])
            ix == BorrowInstruction(BorrowerAccounts(c), amount, ClientProgram)
            tx == BuildRecipientAtaIxs(c.signer, c.token, c.signer) \o <<ix>>
<1>2. /\ c.signer = Borrower /\ ask.signer = Borrower /\ ask.market = c.market
      /\ ask.token = c.token /\ ask.program = ClientProgram /\ Known(ask)
      /\ ask.by = "client" /\ ask.method = "borrow" /\ ask.args = [amount |-> amount]
    BY ClientAsks
<1>. HIDE DEF c, ask
<1>3. ASSUME ix # Rejected PROVE Sound(ix, ask, TRUE)
    BY <1>2, <1>3, BorrowBuilds, BorrowerNames DEF Sound, Encodes
<1>. HIDE DEF ix
<1>4. Borrower \in Recipients /\ ask.method # "repay"
    BY <1>2 DEF Recipients
<1>5. Rejected \notin Instrs(tx) => SoundTx(tx, ask, TRUE)
    BY <1>2, <1>3, <1>4, PaidOut
<1>6. call' = Returned(ask, tx)
    BY <1>1 DEF c, ask, ix
<1>. HIDE DEF tx
<1>. QED
    BY <1>2, <1>5, <1>6, ClientReturns

LEMMA WithdrawExcessSound == WithdrawExcess => BuiltInv'
<1>. SUFFICES ASSUME WithdrawExcess PROVE BuiltInv'
    OBVIOUS
<1>1. PICK overridden \in BOOLEAN :
        LET c == Naming(Client("withdrawExcess", Borrower), overridden)
            ix == WithdrawExcessInstruction(BorrowerAccounts(c), ClientProgram)
        IN  call' = Returned(c, BuildRecipientAtaIxs(c.signer, c.token, c.signer) \o <<ix>>)
    BY DEF WithdrawExcess
<1>. DEFINE c == Naming(Client("withdrawExcess", Borrower), overridden)
            ask == c
            ix == WithdrawExcessInstruction(BorrowerAccounts(c), ClientProgram)
            tx == BuildRecipientAtaIxs(c.signer, c.token, c.signer) \o <<ix>>
<1>2. /\ c.signer = Borrower /\ ask.signer = Borrower /\ ask.market = c.market
      /\ ask.token = c.token /\ ask.program = ClientProgram /\ Known(ask)
      /\ ask.by = "client" /\ ask.method = "withdrawExcess" /\ ask.args = <<>>
    BY ClientAsks
<1>. HIDE DEF c, ask
<1>3. ASSUME ix # Rejected PROVE Sound(ix, ask, TRUE)
    BY <1>2, <1>3, WithdrawExcessBuilds, BorrowerNames DEF Sound, Encodes
<1>. HIDE DEF ix
<1>4. Borrower \in Recipients /\ ask.method # "repay"
    BY <1>2 DEF Recipients
<1>5. Rejected \notin Instrs(tx) => SoundTx(tx, ask, TRUE)
    BY <1>2, <1>3, <1>4, PaidOut
<1>6. call' = Returned(ask, tx)
    BY <1>1 DEF c, ask, ix
<1>. HIDE DEF tx
<1>. QED
    BY <1>2, <1>5, <1>6, ClientReturns

LEMMA CloseLenderPositionSound == CloseLenderPosition => BuiltInv'
<1>. SUFFICES ASSUME CloseLenderPosition PROVE BuiltInv'
    OBVIOUS
<1>. DEFINE c == Client("closeLenderPosition", Lender)
            ix == ClosePosition(c)
            tx == <<ix>>
<1>1. call' = Returned(c, tx)
    BY DEF CloseLenderPosition
<1>2. c.signer = Lender /\ c.program = ClientProgram /\ c.by = "client" /\ Known(c)
      /\ c.method = "closeLenderPosition"
    BY OwnMarket DEF Client, Call, Known
<1>. HIDE DEF c
<1>3. ix # Rejected => Sound(ix, c, TRUE) /\ ix.op \notin PaysOut
    BY <1>2, ClosesPosition
<1>4. Rejected \notin Instrs(tx) => SoundTx(tx, c, TRUE)
    BY <1>2, <1>3, OneInstruction
<1>. HIDE DEF tx
<1>. QED
    BY <1>1, <1>2, <1>4, ClientReturns

LEMMA SettlementNames ==
    ASSUME NEW c, NEW a, Known(c), a = SettlementAccounts(c)
    PROVE  /\ Names(a.market, "market", c) /\ Names(a.protocolConfig, "config", c)
           /\ Names(a.marketAuthority, "authority", c) /\ Names(a.haircutState, "haircut", c)
           /\ Names(a.vault, "vault", c)
<1>1. /\ a.market = Role(c)["market"] /\ a.protocolConfig = Role(c)["config"]
      /\ a.marketAuthority = Role(c)["authority"] /\ a.haircutState = Role(c)["haircut"]
      /\ a.vault = Role(c)["vault"]
    BY DEF Known, Role, SettlementAccounts
<1>. QED
    BY <1>1, KnownNames, RolesOf

LEMMA ReSettleSound == ReSettle => BuiltInv'
<1>. SUFFICES ASSUME ReSettle PROVE BuiltInv'
    OBVIOUS
<1>. DEFINE c == Client("reSettle", Lender)
            ix == ReSettleInstruction(SettlementAccounts(c), ClientProgram)
            tx == <<ix>>
<1>1. call' = Returned(c, tx)
    BY DEF ReSettle
<1>2. c.program = ClientProgram /\ c.by = "client" /\ Known(c)
      /\ c.method = "reSettle" /\ c.args = <<>>
    BY OwnMarket DEF Client, Call, Known
<1>. HIDE DEF c
<1>3. ASSUME ix # Rejected PROVE Sound(ix, c, TRUE) /\ ix.op \notin PaysOut
    BY <1>2, <1>3, ReSettleBuilds, SettlementNames DEF Sound, Encodes, PaysOut
<1>. HIDE DEF ix
<1>4. Rejected \notin Instrs(tx) => SoundTx(tx, c, TRUE)
    BY <1>2, <1>3, OneInstruction
<1>. HIDE DEF tx
<1>. QED
    BY <1>1, <1>2, <1>4, ClientReturns

LEMMA EscrowNames ==
    ASSUME NEW c, NEW a, Known(c), a = Escrowed(c)
    PROVE  /\ Names(a.market, "market", c) /\ Names(a.protocolConfig, "config", c)
           /\ Names(a.marketAuthority, "authority", c) /\ Names(a.haircutState, "haircut", c)
           /\ Names(a.vault, "vault", c) /\ Names(a.borrower, "signer", c)
           /\ Names(a.escrowTokenAccount, "token", c) /\ Names(a.lenderPosition, "position", c)
<1>1. /\ a.market = Role(c)["market"] /\ a.protocolConfig = Role(c)["config"]
      /\ a.marketAuthority = Role(c)["authority"] /\ a.haircutState = Role(c)["haircut"]
      /\ a.vault = Role(c)["vault"] /\ a.borrower = Role(c)["signer"]
      /\ a.escrowTokenAccount = Role(c)["token"] /\ a.lenderPosition = Role(c)["position"]
    BY DEF Known, Role, Escrowed, SettlementAccounts
<1>. QED
    BY <1>1, KnownNames, RolesOf

LEMMA ForceClosePositionSound == ForceClosePosition => BuiltInv'
<1>. SUFFICES ASSUME ForceClosePosition PROVE BuiltInv'
    OBVIOUS
<1>. DEFINE c == [Client("forceClosePosition", Borrower) EXCEPT !.token = OtherAccount]
            ix == ForceClosePositionInstruction(Escrowed(c), ClientProgram)
            tx == <<ix>>
<1>1. call' = Returned(c, tx)
    BY DEF ForceClosePosition
<1>2. c.program = ClientProgram /\ c.by = "client" /\ Known(c) /\ c.method = "forceClosePosition"
      /\ c.args = <<>>
    BY OwnMarket DEF Client, Call, Known
<1>. HIDE DEF c
<1>3. ASSUME ix # Rejected PROVE Sound(ix, c, TRUE) /\ ix.op \notin PaysOut
    BY <1>2, <1>3, ForceClosePositionBuilds, EscrowNames DEF Sound, Encodes, PaysOut
<1>. HIDE DEF ix
<1>4. Rejected \notin Instrs(tx) => SoundTx(tx, c, TRUE)
    BY <1>2, <1>3, OneInstruction
<1>. HIDE DEF tx
<1>. QED
    BY <1>1, <1>2, <1>4, ClientReturns

LEMMA ForceClaimHaircutSound == ForceClaimHaircut => BuiltInv'
<1>. SUFFICES ASSUME ForceClaimHaircut PROVE BuiltInv'
    OBVIOUS
<1>. DEFINE c == [Client("forceClaimHaircut", Borrower) EXCEPT !.token = OtherAccount]
            ix == ForceClaimHaircutInstruction(Escrowed(c), ClientProgram)
            tx == <<ix>>
<1>1. call' = Returned(c, tx)
    BY DEF ForceClaimHaircut
<1>2. c.program = ClientProgram /\ c.by = "client" /\ Known(c) /\ c.method = "forceClaimHaircut"
      /\ c.args = <<>>
    BY OwnMarket DEF Client, Call, Known
<1>. HIDE DEF c
<1>3. ASSUME ix # Rejected PROVE Sound(ix, c, TRUE) /\ ix.op \notin PaysOut
    BY <1>2, <1>3, ForceClaimHaircutBuilds, EscrowNames DEF Sound, Encodes, PaysOut
<1>. HIDE DEF ix
<1>4. Rejected \notin Instrs(tx) => SoundTx(tx, c, TRUE)
    BY <1>2, <1>3, OneInstruction
<1>. HIDE DEF tx
<1>. QED
    BY <1>1, <1>2, <1>4, ClientReturns

LEMMA CollectFeesSound == CollectFees => BuiltInv'
<1>. SUFFICES ASSUME CollectFees PROVE BuiltInv'
    OBVIOUS
<1>1. PICK overridden \in BOOLEAN, payer \in {FeeAuthority, Sponsor} :
        LET c == [Naming(Client("collectFees", FeeAuthority), overridden) EXCEPT !.payer = payer]
            s == SettlementAccounts(c)
            ix == CollectFeesInstruction(
                      [market |-> s.market, protocolConfig |-> s.protocolConfig,
                       marketAuthority |-> s.marketAuthority, vault |-> s.vault,
                       feeAuthority |-> c.signer, feeTokenAccount |-> c.token], ClientProgram)
        IN  call' = Returned(c, BuildRecipientAtaIxs(c.signer, c.token, c.payer) \o <<ix>>)
    BY DEF CollectFees
<1>. DEFINE c == [Naming(Client("collectFees", FeeAuthority), overridden) EXCEPT !.payer = payer]
            s == SettlementAccounts(c)
            a == [market |-> s.market, protocolConfig |-> s.protocolConfig,
                  marketAuthority |-> s.marketAuthority, vault |-> s.vault,
                  feeAuthority |-> c.signer, feeTokenAccount |-> c.token]
            ix == CollectFeesInstruction(a, ClientProgram)
            tx == BuildRecipientAtaIxs(c.signer, c.token, c.payer) \o <<ix>>
<1>2. /\ c.signer = FeeAuthority /\ c.program = ClientProgram
      /\ c.by = "client" /\ Known(c) /\ c.method = "collectFees" /\ c.args = <<>>
    BY OwnMarket DEF Naming, Client, Call, Known
<1>. HIDE DEF c
<1>3. /\ Names(a.market, "market", c) /\ Names(a.protocolConfig, "config", c)
      /\ Names(a.marketAuthority, "authority", c) /\ Names(a.vault, "vault", c)
      /\ Names(a.feeAuthority, "signer", c) /\ Names(a.feeTokenAccount, "token", c)
  <2>1. /\ a.market = Role(c)["market"] /\ a.protocolConfig = Role(c)["config"]
        /\ a.marketAuthority = Role(c)["authority"] /\ a.vault = Role(c)["vault"]
        /\ a.feeAuthority = Role(c)["signer"] /\ a.feeTokenAccount = Role(c)["token"]
      BY <1>2 DEF Role, SettlementAccounts
  <2>. HIDE DEF a
  <2>. QED
      BY <1>2, <2>1, KnownNames, RolesOf
<1>. HIDE DEF a
<1>4. ASSUME ix # Rejected PROVE Sound(ix, c, TRUE)
    BY <1>2, <1>3, <1>4, CollectFeesBuilds DEF Sound, Encodes
<1>. HIDE DEF ix
<1>5. c.signer \in Recipients /\ c.method # "repay"
    BY <1>2 DEF Recipients
<1>6. Rejected \notin Instrs(tx) => SoundTx(tx, c, TRUE)
    BY <1>2, <1>4, <1>5, PaidOut
<1>7. call' = Returned(c, tx)
    BY <1>1 DEF c, ix, a
<1>. HIDE DEF tx
<1>. QED
    BY <1>2, <1>6, <1>7, ClientReturns

\* A maturity that is accepted is written as it is, or is too late for an i64.
LEMMA AcceptedMaturity ==
    ASSUME NEW a, NEW args, NEW minimum, NEW program, args.maturityTimestamp \in Int,
           CreateMarketInstruction(a, args, minimum, program) # Rejected
    PROVE  \/ I64(args.maturityTimestamp) = args.maturityTimestamp
           \/ args.maturityTimestamp >= U64Range \div 2
<1>1. args.maturityTimestamp >= 0
    BY DEF CreateMarketInstruction, Build, IsTimestamp
<1>2. U64Range \in Nat /\ U64Range > 0 /\ U64Range \div 2 <= U64Range
    BY WidthsAssumption
<1>3. \A t \in Nat : t < U64Range => t % U64Range = t
    BY <1>2
<1>. QED
    BY <1>1, <1>2, <1>3 DEF I64

LEMMA CreateMarketSound == CreateMarket => BuiltInv'
<1>. SUFFICES ASSUME CreateMarket PROVE BuiltInv'
    OBVIOUS
<1>1. PICK nonce \in Numbers, rate \in Numbers, maturity \in Numbers, supply \in Numbers :
        LET args == [nonce |-> nonce, annualInterestBps |-> rate,
                     maturityTimestamp |-> maturity, maxTotalSupply |-> supply]
            pdas == DeriveMarketPdas(Borrower, nonce, ClientProgram)
            c == [With(Client("createMarket", Borrower), args) EXCEPT
                     !.market = FindMarketPda(Borrower, nonce, ClientProgram)]
            a == [market |-> pdas.market, borrower |-> c.signer, mint |-> Mint,
                  vault |-> pdas.vault, marketAuthority |-> pdas.marketAuthority,
                  protocolConfig |-> FindProtocolConfigPda(ClientProgram),
                  borrowerWhitelist |-> FindBorrowerWhitelistPda(c.signer, ClientProgram),
                  blacklistCheck |-> FindBlacklistCheckPda(c.signer, BlacklistProgram),
                  haircutState |-> FindHaircutStatePda(pdas.market, ClientProgram)]
        IN  call' = Returned(c, IF pdas = Rejected THEN Rejected
                                ELSE <<CreateMarketInstruction(a, args, minimumTimestamp,
                                                               ClientProgram)>>)
    BY ZenonT(60) DEF CreateMarket
<1>. DEFINE args == [nonce |-> nonce, annualInterestBps |-> rate,
                     maturityTimestamp |-> maturity, maxTotalSupply |-> supply]
            pdas == DeriveMarketPdas(Borrower, nonce, ClientProgram)
            c == [With(Client("createMarket", Borrower), args) EXCEPT
                     !.market = FindMarketPda(Borrower, nonce, ClientProgram)]
            a == [market |-> pdas.market, borrower |-> c.signer, mint |-> Mint,
                  vault |-> pdas.vault, marketAuthority |-> pdas.marketAuthority,
                  protocolConfig |-> FindProtocolConfigPda(ClientProgram),
                  borrowerWhitelist |-> FindBorrowerWhitelistPda(c.signer, ClientProgram),
                  blacklistCheck |-> FindBlacklistCheckPda(c.signer, BlacklistProgram),
                  haircutState |-> FindHaircutStatePda(pdas.market, ClientProgram)]
            ix == CreateMarketInstruction(a, args, minimumTimestamp, ClientProgram)
            tx == <<ix>>
<1>2. /\ c.program = ClientProgram /\ c.by = "client" /\ c.method = "createMarket"
      /\ c.signer = Borrower /\ c.market = FindMarketPda(Borrower, nonce, ClientProgram)
      /\ c.args = args /\ c.payer = Borrower /\ c.token = Ata(Borrower)
    BY DEF Client, Call, With
<1>. HIDE DEF c
<1>3. CASE pdas = Rejected
  <2>1. call' = Returned(c, Rejected)
      BY <1>1, <1>3 DEF c
  <2>. QED
      BY <1>2, <2>1, ClientReturns
<1>4. CASE pdas # Rejected
  <2>0. Known(c)
    <3>1. nonce \in {n \in Numbers \cup {0} : IsU64(n)}
        BY <1>4 DEF DeriveMarketPdas
    <3>. QED
        BY <1>2, <3>1 DEF Known
  <2>1. /\ pdas.market = c.market
        /\ pdas.marketAuthority = FindMarketAuthorityPda(c.market, ClientProgram)
        /\ pdas.vault = FindVaultPda(c.market, ClientProgram)
      BY <1>2, <1>4 DEF DeriveMarketPdas
  <2>2. call' = Returned(c, tx)
      BY <1>1, <1>4 DEF c
  <2>. HIDE DEF pdas
  <2>3. /\ Names(a.market, "market", c) /\ Names(a.borrower, "signer", c)
        /\ Names(a.mint, "mint", c) /\ Names(a.vault, "vault", c)
        /\ Names(a.marketAuthority, "authority", c) /\ Names(a.protocolConfig, "config", c)
        /\ Names(a.borrowerWhitelist, "whitelist", c)
        /\ Names(a.blacklistCheck, "blacklist", c) /\ Names(a.haircutState, "haircut", c)
    <3>1. /\ a.market = Role(c)["market"] /\ a.borrower = Role(c)["signer"]
          /\ a.mint = Role(c)["mint"] /\ a.vault = Role(c)["vault"]
          /\ a.marketAuthority = Role(c)["authority"] /\ a.protocolConfig = Role(c)["config"]
          /\ a.borrowerWhitelist = Role(c)["whitelist"] /\ a.blacklistCheck = Role(c)["blacklist"]
          /\ a.haircutState = Role(c)["haircut"]
        BY <1>2, <2>1 DEF Role
    <3>. HIDE DEF a
    <3>. QED
        BY <2>0, <3>1, KnownNames, RolesOf
  <2>. HIDE DEF a
  <2>4. ASSUME ix # Rejected PROVE Sound(ix, c, TRUE) /\ ix.op \notin PaysOut
    <3>1. ix.op = "CreateMarket" /\ Laid(ix, c)
          /\ ix.data = [args EXCEPT !.maturityTimestamp = I64(@)]
        BY <1>2, <2>3, <2>4, CreateMarketBuilds
    <3>2. I64(args.maturityTimestamp) = args.maturityTimestamp
          \/ args.maturityTimestamp >= U64Range \div 2
        BY <2>4, AcceptedMaturity, InputsAssumption DEF ix
    <3>3. ix.data = args \/ args.maturityTimestamp >= U64Range \div 2
        BY <3>1, <3>2
    <3>. QED
        BY <1>2, <3>1, <3>3 DEF Sound, Encodes, PaysOut
  <2>. HIDE DEF ix
  <2>5. Rejected \notin Instrs(tx) => SoundTx(tx, c, TRUE)
      BY <1>2, <2>4, OneInstruction
  <2>. HIDE DEF tx
  <2>. QED
      BY <1>2, <2>2, <2>5, ClientReturns
<1>. QED
    BY <1>3, <1>4

LEMMA InitializeProtocolSound == InitializeProtocol => BuiltInv'
<1>. SUFFICES ASSUME InitializeProtocol PROVE BuiltInv'
    OBVIOUS
<1>1. PICK rate \in Numbers :
        LET c == AsAdmin("initializeProtocol")
            a == [protocolConfig |-> ClientConfigPda, admin |-> c.signer,
                  feeAuthority |-> c.target, whitelistManager |-> Manager,
                  blacklistProgram |-> BlacklistProgram,
                  programData |-> FindProgramDataPda(ClientProgram)]
        IN  call' = Returned(With(c, [feeRateBps |-> rate]),
                             <<InitializeProtocolInstruction(a, rate, ClientProgram)>>)
    BY DEF InitializeProtocol
<1>. DEFINE c == AsAdmin("initializeProtocol")
            a == [protocolConfig |-> ClientConfigPda, admin |-> c.signer,
                  feeAuthority |-> c.target, whitelistManager |-> Manager,
                  blacklistProgram |-> BlacklistProgram,
                  programData |-> FindProgramDataPda(ClientProgram)]
            ask == With(c, [feeRateBps |-> rate])
            ix == InitializeProtocolInstruction(a, rate, ClientProgram)
            tx == <<ix>>
<1>2. /\ ask.program = ClientProgram /\ ask.by = "client"
      /\ Known(ask) /\ ask.target = FeeAuthority /\ ask.method = "initializeProtocol"
      /\ ask.args = [feeRateBps |-> rate] /\ ask.signer = c.signer /\ ask.target = c.target
    BY OwnMarket DEF AsAdmin, Client, Call, With, Known
<1>. HIDE DEF c, ask
<1>3. /\ Names(a.protocolConfig, "config", ask) /\ Names(a.admin, "signer", ask)
      /\ Names(a.feeAuthority, "target", ask) /\ Names(a.whitelistManager, "manager", ask)
      /\ Names(a.blacklistProgram, "blacklistProgram", ask)
      /\ Names(a.programData, "programData", ask)
  <2>1. /\ a.protocolConfig = Role(ask)["config"] /\ a.admin = Role(ask)["signer"]
        /\ a.feeAuthority = ask.target /\ a.whitelistManager = Role(ask)["manager"]
        /\ a.blacklistProgram = Role(ask)["blacklistProgram"]
        /\ a.programData = Role(ask)["programData"]
      BY <1>2 DEF Role, ClientConfigPda
  <2>. HIDE DEF a
  <2>. QED
      BY <1>2, <2>1, KnownNames, TargetNamed, RolesOf
<1>. HIDE DEF a
<1>4. ASSUME ix # Rejected PROVE Sound(ix, ask, TRUE) /\ ix.op \notin PaysOut
    BY <1>2, <1>3, <1>4, InitializeProtocolBuilds DEF Sound, Encodes, PaysOut
<1>. HIDE DEF ix
<1>5. Rejected \notin Instrs(tx) => SoundTx(tx, ask, TRUE)
    BY <1>2, <1>4, OneInstruction
<1>6. call' = Returned(ask, tx)
    BY <1>1 DEF c, ask, a, ix
<1>. HIDE DEF tx
<1>. QED
    BY <1>2, <1>5, <1>6, ClientReturns

LEMMA SetFeeConfigSound == SetFeeConfig => BuiltInv'
<1>. SUFFICES ASSUME SetFeeConfig PROVE BuiltInv'
    OBVIOUS
<1>1. PICK rate \in Numbers :
        LET c == AsAdmin("setFeeConfig")
            a == [protocolConfig |-> ClientConfigPda, admin |-> c.signer,
                  newFeeAuthority |-> c.target]
        IN  call' = Returned(With(c, [feeRateBps |-> rate]),
                             <<SetFeeConfigInstruction(a, rate, ClientProgram)>>)
    BY DEF SetFeeConfig
<1>. DEFINE c == AsAdmin("setFeeConfig")
            a == [protocolConfig |-> ClientConfigPda, admin |-> c.signer,
                  newFeeAuthority |-> c.target]
            ask == With(c, [feeRateBps |-> rate])
            ix == SetFeeConfigInstruction(a, rate, ClientProgram)
            tx == <<ix>>
<1>2. /\ ask.program = ClientProgram /\ ask.by = "client"
      /\ Known(ask) /\ ask.target = FeeAuthority /\ ask.method = "setFeeConfig"
      /\ ask.args = [feeRateBps |-> rate] /\ ask.signer = c.signer /\ ask.target = c.target
    BY OwnMarket DEF AsAdmin, Client, Call, With, Known
<1>. HIDE DEF c, ask
<1>3. /\ Names(a.protocolConfig, "config", ask) /\ Names(a.admin, "signer", ask)
      /\ Names(a.newFeeAuthority, "target", ask)
  <2>1. /\ a.protocolConfig = Role(ask)["config"] /\ a.admin = Role(ask)["signer"]
        /\ a.newFeeAuthority = ask.target
      BY <1>2 DEF Role, ClientConfigPda
  <2>. HIDE DEF a
  <2>. QED
      BY <1>2, <2>1, KnownNames, TargetNamed, RolesOf
<1>. HIDE DEF a
<1>4. ASSUME ix # Rejected PROVE Sound(ix, ask, TRUE) /\ ix.op \notin PaysOut
    BY <1>2, <1>3, <1>4, SetFeeConfigBuilds DEF Sound, Encodes, PaysOut
<1>. HIDE DEF ix
<1>5. Rejected \notin Instrs(tx) => SoundTx(tx, ask, TRUE)
    BY <1>2, <1>4, OneInstruction
<1>6. call' = Returned(ask, tx)
    BY <1>1 DEF c, ask, a, ix
<1>. HIDE DEF tx
<1>. QED
    BY <1>2, <1>5, <1>6, ClientReturns

LEMMA WhitelistBorrowerSound == WhitelistBorrower => BuiltInv'
<1>. SUFFICES ASSUME WhitelistBorrower PROVE BuiltInv'
    OBVIOUS
<1>1. PICK isWhitelisted \in BOOLEAN, capacity \in Numbers :
        LET c == Client("whitelistBorrower", Manager)
            a == [borrowerWhitelist |-> FindBorrowerWhitelistPda(Borrower, ClientProgram),
                  protocolConfig |-> ClientConfigPda, whitelistManager |-> c.signer,
                  borrower |-> Borrower]
        IN  call' = Returned(
                        With(c, [isWhitelisted |-> isWhitelisted, maxBorrowCapacity |-> capacity]),
                             <<SetBorrowerWhitelistInstruction(
                                 a, isWhitelisted, capacity, ClientProgram)>>)
    BY DEF WhitelistBorrower
<1>. DEFINE c == Client("whitelistBorrower", Manager)
            a == [borrowerWhitelist |-> FindBorrowerWhitelistPda(Borrower, ClientProgram),
                  protocolConfig |-> ClientConfigPda, whitelistManager |-> c.signer,
                  borrower |-> Borrower]
            ask == With(c, [isWhitelisted |-> isWhitelisted, maxBorrowCapacity |-> capacity])
            ix == SetBorrowerWhitelistInstruction(a, isWhitelisted, capacity, ClientProgram)
            tx == <<ix>>
<1>2. /\ ask.program = ClientProgram /\ ask.by = "client"
      /\ Known(ask) /\ ask.method = "whitelistBorrower"
      /\ ask.args = [isWhitelisted |-> isWhitelisted, maxBorrowCapacity |-> capacity]
      /\ ask.signer = c.signer /\ ask.target = c.target
    BY OwnMarket DEF Client, Call, With, Known
<1>. HIDE DEF c, ask
<1>3. /\ Names(a.borrowerWhitelist, "whitelist", ask) /\ Names(a.protocolConfig, "config", ask)
      /\ Names(a.whitelistManager, "signer", ask) /\ Names(a.borrower, "borrower", ask)
  <2>1. /\ a.borrowerWhitelist = Role(ask)["whitelist"] /\ a.protocolConfig = Role(ask)["config"]
        /\ a.whitelistManager = Role(ask)["signer"] /\ a.borrower = Role(ask)["borrower"]
      BY <1>2 DEF Role, ClientConfigPda
  <2>. HIDE DEF a
  <2>. QED
      BY <1>2, <2>1, KnownNames, RolesOf
<1>. HIDE DEF a
<1>4. ASSUME ix # Rejected PROVE Sound(ix, ask, TRUE) /\ ix.op \notin PaysOut
    BY <1>2, <1>3, <1>4, SetBorrowerWhitelistBuilds DEF Sound, Encodes, PaysOut
<1>. HIDE DEF ix
<1>5. Rejected \notin Instrs(tx) => SoundTx(tx, ask, TRUE)
    BY <1>2, <1>4, OneInstruction
<1>6. call' = Returned(ask, tx)
    BY <1>1 DEF c, ask, a, ix
<1>. HIDE DEF tx
<1>. QED
    BY <1>2, <1>5, <1>6, ClientReturns

LEMMA SetPauseSound == SetPause => BuiltInv'
<1>. SUFFICES ASSUME SetPause PROVE BuiltInv'
    OBVIOUS
<1>1. PICK paused \in BOOLEAN :
        LET c == AsAdmin("setPause")
            a == [protocolConfig |-> ClientConfigPda, admin |-> c.signer]
        IN  call' = Returned(With(c, [paused |-> paused]),
                             <<SetPauseInstruction(a, paused, ClientProgram)>>)
    BY DEF SetPause
<1>. DEFINE c == AsAdmin("setPause")
            a == [protocolConfig |-> ClientConfigPda, admin |-> c.signer]
            ask == With(c, [paused |-> paused])
            ix == SetPauseInstruction(a, paused, ClientProgram)
            tx == <<ix>>
<1>2. /\ ask.program = ClientProgram /\ ask.by = "client" /\ Known(ask) /\ ask.method = "setPause"
      /\ ask.args = [paused |-> paused] /\ ask.signer = c.signer /\ ask.target = c.target
    BY OwnMarket DEF AsAdmin, Client, Call, With, Known
<1>. HIDE DEF c, ask
<1>3. /\ Names(a.protocolConfig, "config", ask) /\ Names(a.admin, "signer", ask)
  <2>1. /\ a.protocolConfig = Role(ask)["config"] /\ a.admin = Role(ask)["signer"]
      BY <1>2 DEF Role, ClientConfigPda
  <2>. HIDE DEF a
  <2>. QED
      BY <1>2, <2>1, KnownNames, RolesOf
<1>. HIDE DEF a
<1>4. ASSUME ix # Rejected PROVE Sound(ix, ask, TRUE) /\ ix.op \notin PaysOut
    BY <1>2, <1>3, <1>4, SetPauseBuilds DEF Sound, Encodes, PaysOut
<1>. HIDE DEF ix
<1>5. Rejected \notin Instrs(tx) => SoundTx(tx, ask, TRUE)
    BY <1>2, <1>4, OneInstruction
<1>6. call' = Returned(ask, tx)
    BY <1>1 DEF c, ask, a, ix
<1>. HIDE DEF tx
<1>. QED
    BY <1>2, <1>5, <1>6, ClientReturns

LEMMA SetBlacklistModeSound == SetBlacklistMode => BuiltInv'
<1>. SUFFICES ASSUME SetBlacklistMode PROVE BuiltInv'
    OBVIOUS
<1>1. PICK failClosed \in BOOLEAN :
        LET c == AsAdmin("setBlacklistMode")
            a == [protocolConfig |-> ClientConfigPda, admin |-> c.signer]
        IN  call' = Returned(With(c, [failClosed |-> failClosed]),
                             <<SetBlacklistModeInstruction(a, failClosed, ClientProgram)>>)
    BY DEF SetBlacklistMode
<1>. DEFINE c == AsAdmin("setBlacklistMode")
            a == [protocolConfig |-> ClientConfigPda, admin |-> c.signer]
            ask == With(c, [failClosed |-> failClosed])
            ix == SetBlacklistModeInstruction(a, failClosed, ClientProgram)
            tx == <<ix>>
<1>2. /\ ask.program = ClientProgram /\ ask.by = "client"
      /\ Known(ask) /\ ask.method = "setBlacklistMode"
      /\ ask.args = [failClosed |-> failClosed] /\ ask.signer = c.signer /\ ask.target = c.target
    BY OwnMarket DEF AsAdmin, Client, Call, With, Known
<1>. HIDE DEF c, ask
<1>3. /\ Names(a.protocolConfig, "config", ask) /\ Names(a.admin, "signer", ask)
  <2>1. /\ a.protocolConfig = Role(ask)["config"] /\ a.admin = Role(ask)["signer"]
      BY <1>2 DEF Role, ClientConfigPda
  <2>. HIDE DEF a
  <2>. QED
      BY <1>2, <2>1, KnownNames, RolesOf
<1>. HIDE DEF a
<1>4. ASSUME ix # Rejected PROVE Sound(ix, ask, TRUE) /\ ix.op \notin PaysOut
    BY <1>2, <1>3, <1>4, SetBlacklistModeBuilds DEF Sound, Encodes, PaysOut
<1>. HIDE DEF ix
<1>5. Rejected \notin Instrs(tx) => SoundTx(tx, ask, TRUE)
    BY <1>2, <1>4, OneInstruction
<1>6. call' = Returned(ask, tx)
    BY <1>1 DEF c, ask, a, ix
<1>. HIDE DEF tx
<1>. QED
    BY <1>2, <1>5, <1>6, ClientReturns

LEMMA SetAdminSound == SetAdmin => BuiltInv'
<1>. SUFFICES ASSUME SetAdmin PROVE BuiltInv'
    OBVIOUS
<1>. DEFINE c == AsAdmin("setAdmin")
            a == [protocolConfig |-> ClientConfigPda, currentAdmin |-> c.signer,
                  newAdmin |-> c.target]
            ask == c
            ix == SetAdminInstruction(a, ClientProgram)
            tx == <<ix>>
<1>1. call' = Returned(ask, tx)
    BY DEF SetAdmin
<1>2. /\ ask.program = ClientProgram /\ ask.by = "client"
      /\ Known(ask) /\ ask.target = FeeAuthority /\ ask.method = "setAdmin"
      /\ ask.args = <<>> /\ ask.signer = c.signer /\ ask.target = c.target
    BY OwnMarket DEF AsAdmin, Client, Call, With, Known
<1>. HIDE DEF c, ask
<1>3. /\ Names(a.protocolConfig, "config", ask) /\ Names(a.currentAdmin, "signer", ask)
      /\ Names(a.newAdmin, "target", ask)
  <2>1. /\ a.protocolConfig = Role(ask)["config"] /\ a.currentAdmin = Role(ask)["signer"]
        /\ a.newAdmin = ask.target
      BY <1>2 DEF Role, ClientConfigPda
  <2>. HIDE DEF a
  <2>. QED
      BY <1>2, <2>1, KnownNames, TargetNamed, RolesOf
<1>. HIDE DEF a
<1>4. ASSUME ix # Rejected PROVE Sound(ix, ask, TRUE) /\ ix.op \notin PaysOut
    BY <1>2, <1>3, <1>4, SetAdminBuilds DEF Sound, Encodes, PaysOut
<1>. HIDE DEF ix
<1>5. Rejected \notin Instrs(tx) => SoundTx(tx, ask, TRUE)
    BY <1>2, <1>4, OneInstruction
<1>6. call' = Returned(ask, tx)
    BY <1>1 DEF c, ask, a, ix
<1>. HIDE DEF tx
<1>. QED
    BY <1>2, <1>5, <1>6, ClientReturns

LEMMA SetWhitelistManagerSound == SetWhitelistManager => BuiltInv'
<1>. SUFFICES ASSUME SetWhitelistManager PROVE BuiltInv'
    OBVIOUS
<1>. DEFINE c == AsAdmin("setWhitelistManager")
            a == [protocolConfig |-> ClientConfigPda, admin |-> c.signer,
                  newWhitelistManager |-> c.target]
            ask == c
            ix == SetWhitelistManagerInstruction(a, ClientProgram)
            tx == <<ix>>
<1>1. call' = Returned(ask, tx)
    BY DEF SetWhitelistManager
<1>2. /\ ask.program = ClientProgram /\ ask.by = "client"
      /\ Known(ask) /\ ask.target = FeeAuthority /\ ask.method = "setWhitelistManager"
      /\ ask.args = <<>> /\ ask.signer = c.signer /\ ask.target = c.target
    BY OwnMarket DEF AsAdmin, Client, Call, With, Known
<1>. HIDE DEF c, ask
<1>3. /\ Names(a.protocolConfig, "config", ask) /\ Names(a.admin, "signer", ask)
      /\ Names(a.newWhitelistManager, "target", ask)
  <2>1. /\ a.protocolConfig = Role(ask)["config"] /\ a.admin = Role(ask)["signer"]
        /\ a.newWhitelistManager = ask.target
      BY <1>2 DEF Role, ClientConfigPda
  <2>. HIDE DEF a
  <2>. QED
      BY <1>2, <2>1, KnownNames, TargetNamed, RolesOf
<1>. HIDE DEF a
<1>4. ASSUME ix # Rejected PROVE Sound(ix, ask, TRUE) /\ ix.op \notin PaysOut
    BY <1>2, <1>3, <1>4, SetWhitelistManagerBuilds DEF Sound, Encodes, PaysOut
<1>. HIDE DEF ix
<1>5. Rejected \notin Instrs(tx) => SoundTx(tx, ask, TRUE)
    BY <1>2, <1>4, OneInstruction
<1>6. call' = Returned(ask, tx)
    BY <1>1 DEF c, ask, a, ix
<1>. HIDE DEF tx
<1>. QED
    BY <1>2, <1>5, <1>6, ClientReturns

\* The three shapes of a repayment pay what was asked, in order.
LEMMA ShapesPay ==
    ASSUME NEW args, args.interest \in Nat, args.total \in Nat, NEW first, NEW second, NEW tx,
           first.op = "RepayInterest", first.data.amount = args.interest,
           second.op = "Repay", second.data.amount = args.total - args.interest,
           \/ args.interest = 0 /\ tx = <<second>>
           \/ args.total = args.interest /\ tx = <<first>>
           \/ tx = <<first, second>>
    PROVE  PaidInOrder(tx, args)
<1>. DEFINE paid(op) == {i \in DOMAIN tx : tx[i].op = op}
            amount(op) == IF paid(op) = {} THEN 0 ELSE tx[CHOOSE i \in paid(op) : TRUE].data.amount
<1>1. ASSUME NEW S, S = {} \/ \E i \in {1, 2} : S = {i}
      PROVE  Cardinality(S) <= 1
  <2>1. Cardinality({}) = 0 /\ \A i : Cardinality({i}) = 1
      BY FS_EmptySet, FS_Singleton
  <2>2. Cardinality(S) \in {0, 1}
      BY <1>1, <2>1
  <2>. QED
      BY <2>2
<1>2. ASSUME paid("Repay") = {} \/ \E i \in {1, 2} : paid("Repay") = {i},
             paid("RepayInterest") = {} \/ \E i \in {1, 2} : paid("RepayInterest") = {i},
             NEW op \in {"Repay", "RepayInterest"}
      PROVE  Cardinality(paid(op)) <= 1
  <2>. HIDE DEF paid
  <2>1. paid(op) = {} \/ \E i \in {1, 2} : paid(op) = {i}
      BY <1>2
  <2>. QED
      BY <1>1, <2>1
<1>3. CASE args.interest = 0 /\ tx = <<second>>
  <2>1. paid("Repay") = {1} /\ paid("RepayInterest") = {} /\ tx # <<>>
      BY <1>3
  <2>2. amount("Repay") = second.data.amount /\ amount("RepayInterest") = 0
      BY <1>3, <2>1
  <2>3. ASSUME NEW op \in {"Repay", "RepayInterest"} PROVE Cardinality(paid(op)) <= 1
      BY <1>2, <2>1
  <2>4. \A i \in paid("RepayInterest"), j \in paid("Repay") : i < j
      BY <2>1
  <2>5. /\ amount("RepayInterest") = args.interest
        /\ amount("Repay") + amount("RepayInterest") = args.total
      BY <1>3, <2>2
  <2>. QED
      BY <2>1, <2>3, <2>4, <2>5 DEF PaidInOrder
<1>4. CASE args.total = args.interest /\ tx = <<first>>
  <2>1. paid("Repay") = {} /\ paid("RepayInterest") = {1} /\ tx # <<>>
      BY <1>4
  <2>2. amount("Repay") = 0 /\ amount("RepayInterest") = first.data.amount
      BY <1>4, <2>1
  <2>3. ASSUME NEW op \in {"Repay", "RepayInterest"} PROVE Cardinality(paid(op)) <= 1
      BY <1>2, <2>1
  <2>4. \A i \in paid("RepayInterest"), j \in paid("Repay") : i < j
      BY <2>1
  <2>5. /\ amount("RepayInterest") = args.interest
        /\ amount("Repay") + amount("RepayInterest") = args.total
      BY <1>4, <2>2
  <2>. QED
      BY <2>1, <2>3, <2>4, <2>5 DEF PaidInOrder
<1>5. CASE tx = <<first, second>>
  <2>1. paid("Repay") = {2} /\ paid("RepayInterest") = {1} /\ tx # <<>>
      BY <1>5
  <2>2. amount("Repay") = second.data.amount /\ amount("RepayInterest") = first.data.amount
      BY <1>5, <2>1
  <2>3. ASSUME NEW op \in {"Repay", "RepayInterest"} PROVE Cardinality(paid(op)) <= 1
      BY <1>2, <2>1
  <2>4. \A i \in paid("RepayInterest"), j \in paid("Repay") : i < j
      BY <2>1
  <2>5. /\ amount("RepayInterest") = args.interest
        /\ amount("Repay") + amount("RepayInterest") = args.total
      BY <2>2
  <2>. QED
      BY <2>1, <2>3, <2>4, <2>5 DEF PaidInOrder
<1>. QED
    BY <1>3, <1>4, <1>5

LEMMA RepaymentSound ==
    ASSUME NEW a, NEW total \in Int, NEW interest \in Int, NEW program, NEW c, NEW aimed,
           c.args = [total |-> total, interest |-> interest], total # 0,
           NEW tx, tx = WaterfallRepayInstructions(a, total, interest, program),
           tx # Rejected, Rejected \notin Instrs(tx),
           aimed => /\ program = c.program
                    /\ Names(a.market, "market", c) /\ Names(a.payer, "signer", c)
                    /\ Names(a.payerTokenAccount, "token", c) /\ Names(a.vault, "vault", c)
                    /\ Names(a.protocolConfig, "config", c) /\ Names(a.mint, "mint", c)
                    /\ Names(a.borrowerWhitelist, "whitelist", c)
    PROVE  SoundTx(tx, c, aimed)
<1>. DEFINE first == RepayInterestInstruction(a, interest, program)
            second == RepayInstruction(a, total - interest, program)
<1>1. IsU64(total) /\ IsU64(interest) /\ interest <= total
    BY DEF WaterfallRepayInstructions
<1>2. total \in Nat /\ interest \in Nat
    BY <1>1, WidthsAssumption DEF IsU64
<1>3. \/ interest = 0 /\ total = 0 /\ tx = <<>>
      \/ interest = 0 /\ total > 0 /\ tx = <<second>>
      \/ interest > 0 /\ total = interest /\ tx = <<first>>
      \/ interest > 0 /\ total > interest /\ tx = <<first, second>>
    BY <1>1, WaterfallForms
<1>4. c.args.total = total /\ c.args.interest = interest
    OBVIOUS
<1>5. ASSUME first # Rejected
      PROVE  first.op = "RepayInterest" /\ first.data.amount = interest /\ Sound(first, c, aimed)
  <2>1. first.op = "RepayInterest" /\ first.data = [amount |-> interest]
        /\ (aimed => Laid(first, c))
      BY <1>5, RepayInterestBuilds
  <2>. QED
      BY <1>4, <2>1 DEF Sound, Encodes
<1>6. ASSUME second # Rejected
      PROVE  second.op = "Repay" /\ second.data.amount = total - interest /\ Sound(second, c, aimed)
  <2>1. second.op = "Repay" /\ second.data = [amount |-> total - interest]
        /\ (aimed => Laid(second, c))
      BY <1>6, RepayBuilds
  <2>. QED
      BY <1>4, <2>1 DEF Sound, Encodes
<1>. HIDE DEF first, second
<1>7. Instrs(<<first, second>>) = {first, second} /\ Instrs(<<first>>) = {first}
      /\ Instrs(<<second>>) = {second}
  <2>1. DOMAIN <<first, second>> = {1, 2}
      OBVIOUS
  <2>2. Instrs(<<first, second>>) = {first, second}
      BY <2>1 DEF Instrs
  <2>. QED
      BY <2>2, InstrsOf
<1>8. CASE interest = 0 /\ total > 0 /\ tx = <<second>>
  <2>. DEFINE f == [op |-> "RepayInterest", data |-> [amount |-> interest]]
  <2>1. f.op = "RepayInterest" /\ f.data.amount = interest
      OBVIOUS
  <2>. HIDE DEF f
  <2>2. PaidInOrder(tx, c.args)
      BY <1>2, <1>4, <1>6, <1>7, <1>8, <2>1, ShapesPay
  <2>. QED
      BY <1>6, <1>7, <1>8, <2>2, PaysNobody DEF SoundTx, PaysOut
<1>9. CASE interest > 0 /\ total = interest /\ tx = <<first>>
  <2>. DEFINE s == [op |-> "Repay", data |-> [amount |-> total - interest]]
  <2>1. s.op = "Repay" /\ s.data.amount = total - interest
      OBVIOUS
  <2>. HIDE DEF s
  <2>2. PaidInOrder(tx, c.args)
      BY <1>2, <1>4, <1>5, <1>7, <1>9, <2>1, ShapesPay
  <2>. QED
      BY <1>5, <1>7, <1>9, <2>2, PaysNobody DEF SoundTx, PaysOut
<1>10. CASE interest > 0 /\ total > interest /\ tx = <<first, second>>
  <2>1. PaidInOrder(tx, c.args)
      BY <1>2, <1>4, <1>5, <1>6, <1>7, <1>10, ShapesPay
  <2>. QED
      BY <1>5, <1>6, <1>7, <1>10, <2>1, PaysNobody DEF SoundTx, PaysOut
<1>. QED
    BY <1>3, <1>8, <1>9, <1>10

LEMMA RepaySound == Repay => BuiltInv'
<1>. SUFFICES ASSUME Repay PROVE BuiltInv'
    OBVIOUS
<1>1. PICK total \in Numbers, interest \in Numbers, payer \in {Borrower, Lender},
           overridden \in BOOLEAN :
        LET c == Naming(Client("repay", payer), overridden)
            a == [market |-> c.market, payer |-> payer, payerTokenAccount |-> c.token,
                  vault |-> FindVaultPda(c.market, ClientProgram), mint |-> Mint,
                  protocolConfig |-> FindProtocolConfigPda(ClientProgram),
                  borrowerWhitelist |-> FindBorrowerWhitelistPda(Borrower, ClientProgram)]
        IN  call' = Returned(With(c, [total |-> total, interest |-> interest]),
                      IF total = 0 \/ interest > total THEN Rejected
                      ELSE WaterfallRepayInstructions(a, total, interest, ClientProgram))
    BY ZenonT(30) DEF Repay
<1>. DEFINE c == Naming(Client("repay", payer), overridden)
            ask == With(c, [total |-> total, interest |-> interest])
            a == [market |-> c.market, payer |-> payer, payerTokenAccount |-> c.token,
                  vault |-> FindVaultPda(c.market, ClientProgram), mint |-> Mint,
                  protocolConfig |-> FindProtocolConfigPda(ClientProgram),
                  borrowerWhitelist |-> FindBorrowerWhitelistPda(Borrower, ClientProgram)]
            tx == WaterfallRepayInstructions(a, total, interest, ClientProgram)
<1>2. /\ ask.signer = payer /\ ask.market = c.market
      /\ ask.token = c.token /\ ask.program = ClientProgram /\ Known(ask)
      /\ ask.by = "client" /\ ask.args = [total |-> total, interest |-> interest]
    BY ClientAsks
<1>3. total \in Int /\ interest \in Int
    BY InputsAssumption
<1>. HIDE DEF c, ask
<1>4. CASE total = 0 \/ interest > total
  <2>1. call' = Returned(ask, Rejected)
      BY <1>1, <1>4 DEF c, ask
  <2>. QED
      BY <1>2, <2>1, ClientReturns
<1>5. CASE ~(total = 0 \/ interest > total)
  <2>1. call' = Returned(ask, tx)
      BY <1>1, <1>5 DEF c, ask
  <2>2. /\ Names(a.market, "market", ask) /\ Names(a.payer, "signer", ask)
        /\ Names(a.payerTokenAccount, "token", ask) /\ Names(a.vault, "vault", ask)
        /\ Names(a.protocolConfig, "config", ask) /\ Names(a.mint, "mint", ask)
        /\ Names(a.borrowerWhitelist, "whitelist", ask)
    <3>1. /\ a.market = Role(ask)["market"] /\ a.payer = Role(ask)["signer"]
          /\ a.payerTokenAccount = Role(ask)["token"] /\ a.vault = Role(ask)["vault"]
          /\ a.protocolConfig = Role(ask)["config"] /\ a.mint = Role(ask)["mint"]
          /\ a.borrowerWhitelist = Role(ask)["whitelist"]
        BY <1>2 DEF Role
    <3>. HIDE DEF a
    <3>. QED
        BY <1>2, <3>1, KnownNames, RolesOf
  <2>. HIDE DEF a
  <2>3. tx # Rejected /\ Rejected \notin Instrs(tx) => SoundTx(tx, ask, TRUE)
      BY <1>2, <1>3, <1>5, <2>2, RepaymentSound
  <2>. HIDE DEF tx
  <2>. QED
      BY <1>2, <2>1, <2>3, ClientReturns
<1>. QED
    BY <1>4, <1>5

-----------------------------------------------------------------------------
(* The functions of the examples                                           *)

\* The record of a call to a function of the examples.
ExampleAsk(c) ==
    /\ c.method \in DOMAIN Moments
    /\ c = With(Call("example", c.method, c.program, SignerOf[c.method]), Args[c.method])

LEMMA ExampleAsks ==
    ASSUME NEW c, ExampleAsk(c)
    PROVE  /\ c.by = "example" /\ c.signer = SignerOf[c.method] /\ c.args = Args[c.method]
           /\ c.market = MarketOf(c.program) /\ c.market.program = c.program
<1>. DEFINE method == c.method
            program == c.program
<1>1. c = With(Call("example", method, program, SignerOf[method]), Args[method])
    BY DEF ExampleAsk
<1>. HIDE DEF method, program
<1>2. c.by = "example" /\ c.signer = SignerOf[method] /\ c.args = Args[method]
      /\ c.market = MarketOf(program)
    BY <1>1 DEF With, Call
<1>3. MarketOf(program).program = program
    BY WidthsAssumption DEF MarketOf, FindMarketPda, Pda, IsU64
<1>. QED
    BY <1>2, <1>3 DEF method, program

\* What a function of the examples has resolved when it builds.
Resolving(c, m, aimed) ==
    /\ ExampleAsk(c)
    /\ DOMAIN m = 1..Moments[c.method]
    /\ aimed => \A i \in DOMAIN m : m[i] = c.program

\* One lemma per function: what it builds is sound if all that it resolved is
\* the program it started with.
LEMMA ExampleDepositSound ==
    ASSUME NEW c, NEW m, NEW aimed, Resolving(c, m, aimed), c.method = "deposit",
           NEW tx, tx = ExampleDeposit(c, m)
    PROVE  Rejected \notin Instrs(tx) => SoundTx(tx, c, aimed)
<1>. DEFINE a == [market |-> c.market, lender |-> c.signer, lenderTokenAccount |-> c.token,
                  vault |-> VaultOf(c.market), mint |-> Mint,
                  protocolConfig |-> FindProtocolConfigPda(m[1]),
                  lenderPosition |-> FindLenderPositionPda(c.market, c.signer, m[2]),
                  blacklistCheck |-> FindBlacklistCheckPda(c.signer, BlacklistProgram)]
            ix == DepositInstruction(a, c.args.amount, m[3])
<1>1. tx = <<ix>>
    BY DEF ExampleDeposit
<1>2. /\ c.by = "example" /\ c.signer = Lender
      /\ c.market = MarketOf(c.program) /\ c.market.program = c.program
      /\ c.args = [amount |-> 1]
    BY ExampleAsks DEF Resolving, SignerOf, Args
<1>3. aimed => m[1] = c.program /\ m[2] = c.program /\ m[3] = c.program
  <2>. DEFINE p == c.program
  <2>1. DOMAIN m = 1..3
      BY DEF Resolving, Moments
  <2>2. aimed => \A i \in DOMAIN m : m[i] = p
      BY DEF Resolving
  <2>. HIDE DEF p
  <2>3. aimed => \A i \in 1..3 : m[i] = p
      BY <2>1, <2>2
  <2>. QED
      BY <2>3 DEF p
<1>4. aimed => /\ Names(a.market, "market", c) /\ Names(a.lender, "signer", c)
              /\ Names(a.lenderTokenAccount, "token", c) /\ Names(a.vault, "vault", c)
              /\ Names(a.lenderPosition, "position", c) /\ Names(a.blacklistCheck, "blacklist", c)
              /\ Names(a.protocolConfig, "config", c) /\ Names(a.mint, "mint", c)
    BY <1>2, <1>3 DEF Names, Role, VaultOf
<1>. HIDE DEF a
<1>5. ASSUME ix # Rejected PROVE Sound(ix, c, aimed)
    BY <1>2, <1>3, <1>4, <1>5, DepositBuilds DEF Sound, Encodes
<1>. HIDE DEF ix
<1>. QED
    BY <1>1, <1>2, <1>5, OneInstruction

LEMMA ExampleBorrowSound ==
    ASSUME NEW c, NEW m, NEW aimed, Resolving(c, m, aimed), c.method = "borrow",
           NEW tx, tx = ExampleBorrow(c, m)
    PROVE  Rejected \notin Instrs(tx) => SoundTx(tx, c, aimed)
<1>. DEFINE a == [market |-> c.market, borrower |-> c.signer, borrowerTokenAccount |-> c.token,
                  vault |-> VaultOf(c.market),
                  protocolConfig |-> FindProtocolConfigPda(m[1]),
                  marketAuthority |-> FindMarketAuthorityPda(c.market, m[2]),
                  borrowerWhitelist |-> FindBorrowerWhitelistPda(c.signer, m[2]),
                  blacklistCheck |-> FindBlacklistCheckPda(c.signer, BlacklistProgram)]
            ix == BorrowInstruction(a, c.args.amount, m[3])
<1>1. tx = <<ix>>
    BY DEF ExampleBorrow
<1>2. /\ c.by = "example" /\ c.signer = Borrower
      /\ c.market = MarketOf(c.program) /\ c.market.program = c.program
      /\ c.args = [amount |-> 1]
    BY ExampleAsks DEF Resolving, SignerOf, Args
<1>3. aimed => m[1] = c.program /\ m[2] = c.program /\ m[3] = c.program
  <2>. DEFINE p == c.program
  <2>1. DOMAIN m = 1..3
      BY DEF Resolving, Moments
  <2>2. aimed => \A i \in DOMAIN m : m[i] = p
      BY DEF Resolving
  <2>. HIDE DEF p
  <2>3. aimed => \A i \in 1..3 : m[i] = p
      BY <2>1, <2>2
  <2>. QED
      BY <2>3 DEF p
<1>4. aimed => /\ Names(a.market, "market", c) /\ Names(a.borrower, "signer", c)
              /\ Names(a.borrowerTokenAccount, "token", c) /\ Names(a.vault, "vault", c)
              /\ Names(a.marketAuthority, "authority", c)
              /\ Names(a.borrowerWhitelist, "whitelist", c)
              /\ Names(a.blacklistCheck, "blacklist", c) /\ Names(a.protocolConfig, "config", c)
    BY <1>2, <1>3 DEF Names, Role, VaultOf
<1>. HIDE DEF a
<1>5. ASSUME ix # Rejected PROVE Sound(ix, c, aimed)
  <2>1. ix.op = "Borrow" /\ ix.data = c.args
      BY <1>2, <1>5, BorrowBuilds
  <2>2. aimed => Laid(ix, c)
      BY <1>3, <1>4, <1>5, BorrowBuilds
  <2>. QED
      BY <2>1, <2>2 DEF Sound, Encodes
<1>. HIDE DEF ix
<1>. QED
    BY <1>1, <1>2, <1>5, OneInstruction

LEMMA ExampleWithdrawSound ==
    ASSUME NEW c, NEW m, NEW aimed, Resolving(c, m, aimed), c.method = "withdraw",
           NEW tx, tx = ExampleWithdraw(c, m)
    PROVE  Rejected \notin Instrs(tx) => SoundTx(tx, c, aimed)
<1>. DEFINE a == [market |-> c.market, lender |-> c.signer, lenderTokenAccount |-> c.token,
                  vault |-> VaultOf(c.market), haircutState |-> None,
                  lenderPosition |-> FindLenderPositionPda(c.market, c.signer, m[1]),
                  protocolConfig |-> FindProtocolConfigPda(m[2]),
                  marketAuthority |-> FindMarketAuthorityPda(c.market, m[3]),
                  blacklistCheck |-> FindBlacklistCheckPda(c.signer, BlacklistProgram)]
            ix == WithdrawInstruction(a, c.args.scaledAmount, c.args.minPayout, m[4])
<1>1. tx = <<ix>>
    BY DEF ExampleWithdraw
<1>2. /\ c.by = "example" /\ c.signer = Lender
      /\ c.market = MarketOf(c.program) /\ c.market.program = c.program
      /\ c.args = [scaledAmount |-> 1, minPayout |-> 0]
    BY ExampleAsks DEF Resolving, SignerOf, Args
<1>3. aimed => m[1] = c.program /\ m[2] = c.program /\ m[3] = c.program /\ m[4] = c.program
  <2>. DEFINE p == c.program
  <2>1. DOMAIN m = 1..4
      BY DEF Resolving, Moments
  <2>2. aimed => \A i \in DOMAIN m : m[i] = p
      BY DEF Resolving
  <2>. HIDE DEF p
  <2>3. aimed => \A i \in 1..4 : m[i] = p
      BY <2>1, <2>2
  <2>. QED
      BY <2>3 DEF p
<1>4. aimed => /\ Names(a.market, "market", c) /\ Names(a.lender, "signer", c)
              /\ Names(a.lenderTokenAccount, "token", c) /\ Names(a.vault, "vault", c)
              /\ Names(a.lenderPosition, "position", c) /\ Names(a.marketAuthority, "authority", c)
              /\ Names(a.blacklistCheck, "blacklist", c) /\ Names(a.protocolConfig, "config", c)
              /\ Names(a.haircutState, "haircut", c)
    BY <1>2, <1>3 DEF Names, Role, VaultOf
<1>. HIDE DEF a
<1>5. ASSUME ix # Rejected PROVE Sound(ix, c, aimed)
  <2>1. ix.op = "Withdraw" /\ ix.data = c.args
      BY <1>2, <1>5, WithdrawBuilds
  <2>2. aimed => Laid(ix, c)
      BY <1>3, <1>4, <1>5, WithdrawBuilds
  <2>. QED
      BY <2>1, <2>2 DEF Sound, Encodes
<1>. HIDE DEF ix
<1>. QED
    BY <1>1, <1>2, <1>5, OneInstruction

LEMMA ExampleCollectFeesSound ==
    ASSUME NEW c, NEW m, NEW aimed, Resolving(c, m, aimed), c.method = "collectFees",
           NEW tx, tx = ExampleCollectFees(c, m)
    PROVE  Rejected \notin Instrs(tx) => SoundTx(tx, c, aimed)
<1>. DEFINE a == [market |-> c.market, feeAuthority |-> c.signer, feeTokenAccount |-> c.token,
                  vault |-> VaultOf(c.market),
                  protocolConfig |-> FindProtocolConfigPda(m[1]),
                  marketAuthority |-> FindMarketAuthorityPda(c.market, m[1])]
            ix == CollectFeesInstruction(a, m[2])
<1>1. tx = <<ix>>
    BY DEF ExampleCollectFees
<1>2. /\ c.by = "example" /\ c.signer = FeeAuthority
      /\ c.market = MarketOf(c.program) /\ c.market.program = c.program
      /\ c.args = <<>>
    BY ExampleAsks DEF Resolving, SignerOf, Args
<1>3. aimed => m[1] = c.program /\ m[2] = c.program
  <2>. DEFINE p == c.program
  <2>1. DOMAIN m = 1..2
      BY DEF Resolving, Moments
  <2>2. aimed => \A i \in DOMAIN m : m[i] = p
      BY DEF Resolving
  <2>. HIDE DEF p
  <2>3. aimed => \A i \in 1..2 : m[i] = p
      BY <2>1, <2>2
  <2>. QED
      BY <2>3 DEF p
<1>4. aimed => /\ Names(a.market, "market", c) /\ Names(a.protocolConfig, "config", c)
              /\ Names(a.feeAuthority, "signer", c) /\ Names(a.feeTokenAccount, "token", c)
              /\ Names(a.vault, "vault", c) /\ Names(a.marketAuthority, "authority", c)
    BY <1>2, <1>3 DEF Names, Role, VaultOf
<1>. HIDE DEF a
<1>5. ASSUME ix # Rejected PROVE Sound(ix, c, aimed)
    BY <1>2, <1>3, <1>4, <1>5, CollectFeesBuilds DEF Sound, Encodes
<1>. HIDE DEF ix
<1>. QED
    BY <1>1, <1>2, <1>5, OneInstruction

LEMMA ExampleWithdrawExcessSound ==
    ASSUME NEW c, NEW m, NEW aimed, Resolving(c, m, aimed), c.method = "withdrawExcess",
           NEW tx, tx = ExampleWithdrawExcess(c, m)
    PROVE  Rejected \notin Instrs(tx) => SoundTx(tx, c, aimed)
<1>. DEFINE a == [market |-> c.market, borrower |-> c.signer, borrowerTokenAccount |-> c.token,
                  vault |-> VaultOf(c.market), blacklistCheck |-> None, borrowerWhitelist |-> None,
                  protocolConfig |-> FindProtocolConfigPda(m[1]),
                  marketAuthority |-> FindMarketAuthorityPda(c.market, m[1])]
            ix == WithdrawExcessInstruction(a, m[2])
<1>1. tx = <<ix>>
    BY DEF ExampleWithdrawExcess
<1>2. /\ c.by = "example" /\ c.signer = Borrower
      /\ c.market = MarketOf(c.program) /\ c.market.program = c.program
      /\ c.args = <<>>
    BY ExampleAsks DEF Resolving, SignerOf, Args
<1>3. aimed => m[1] = c.program /\ m[2] = c.program
  <2>. DEFINE p == c.program
  <2>1. DOMAIN m = 1..2
      BY DEF Resolving, Moments
  <2>2. aimed => \A i \in DOMAIN m : m[i] = p
      BY DEF Resolving
  <2>. HIDE DEF p
  <2>3. aimed => \A i \in 1..2 : m[i] = p
      BY <2>1, <2>2
  <2>. QED
      BY <2>3 DEF p
<1>4. aimed => /\ Names(a.market, "market", c) /\ Names(a.borrower, "signer", c)
              /\ Names(a.borrowerTokenAccount, "token", c) /\ Names(a.vault, "vault", c)
              /\ Names(a.marketAuthority, "authority", c) /\ Names(a.protocolConfig, "config", c)
              /\ Names(a.blacklistCheck, "blacklist", c)
              /\ Names(a.borrowerWhitelist, "whitelist", c)
    BY <1>2, <1>3 DEF Names, Role, VaultOf
<1>. HIDE DEF a
<1>5. ASSUME ix # Rejected PROVE Sound(ix, c, aimed)
    BY <1>2, <1>3, <1>4, <1>5, WithdrawExcessBuilds DEF Sound, Encodes
<1>. HIDE DEF ix
<1>. QED
    BY <1>1, <1>2, <1>5, OneInstruction

LEMMA ExampleClosePositionSound ==
    ASSUME NEW c, NEW m, NEW aimed, Resolving(c, m, aimed), c.method = "closeLenderPosition",
           NEW tx, tx = ExampleClosePosition(c, m)
    PROVE  Rejected \notin Instrs(tx) => SoundTx(tx, c, aimed)
<1>. DEFINE a == [market |-> c.market, lender |-> c.signer,
                  lenderPosition |-> FindLenderPositionPda(c.market, c.signer, m[1]),
                  protocolConfig |-> FindProtocolConfigPda(m[1])]
            ix == CloseLenderPositionInstruction(a, m[2])
<1>1. tx = <<ix>>
    BY DEF ExampleClosePosition
<1>2. /\ c.by = "example" /\ c.signer = Lender
      /\ c.market = MarketOf(c.program) /\ c.market.program = c.program
      /\ c.args = <<>>
    BY ExampleAsks DEF Resolving, SignerOf, Args
<1>3. aimed => m[1] = c.program /\ m[2] = c.program
  <2>. DEFINE p == c.program
  <2>1. DOMAIN m = 1..2
      BY DEF Resolving, Moments
  <2>2. aimed => \A i \in DOMAIN m : m[i] = p
      BY DEF Resolving
  <2>. HIDE DEF p
  <2>3. aimed => \A i \in 1..2 : m[i] = p
      BY <2>1, <2>2
  <2>. QED
      BY <2>3 DEF p
<1>4. aimed => /\ Names(a.market, "market", c) /\ Names(a.lender, "signer", c)
              /\ Names(a.lenderPosition, "position", c) /\ Names(a.protocolConfig, "config", c)
    BY <1>2, <1>3 DEF Names, Role, VaultOf
<1>. HIDE DEF a
<1>5. ASSUME ix # Rejected PROVE Sound(ix, c, aimed)
    BY <1>2, <1>3, <1>4, <1>5, CloseLenderPositionBuilds DEF Sound, Encodes
<1>. HIDE DEF ix
<1>. QED
    BY <1>1, <1>2, <1>5, OneInstruction

LEMMA ExampleCreateMarketSound ==
    ASSUME NEW c, NEW m, NEW aimed, Resolving(c, m, aimed), c.method = "createMarket",
           NEW tx, tx = ExampleCreateMarket(c, m)
    PROVE  Rejected \notin Instrs(tx) => SoundTx(tx, c, aimed)
<1>. DEFINE pdas == DeriveMarketPdas(c.signer, c.args.nonce, m[1])
            a == [market |-> pdas.market, borrower |-> c.signer, mint |-> Mint,
                  vault |-> pdas.vault, marketAuthority |-> pdas.marketAuthority,
                  protocolConfig |-> FindProtocolConfigPda(m[1]),
                  borrowerWhitelist |-> FindBorrowerWhitelistPda(c.signer, m[2]),
                  haircutState |-> FindHaircutStatePda(pdas.market, m[2]),
                  blacklistCheck |-> FindBlacklistCheckPda(c.signer, BlacklistProgram)]
            ix == CreateMarketInstruction(a, c.args, minimumTimestamp, m[2])
<1>1. tx = <<ix>>
    BY DEF ExampleCreateMarket
<1>2. /\ c.by = "example" /\ c.signer = Borrower
      /\ c.market = MarketOf(c.program) /\ c.market.program = c.program
      /\ c.args = [nonce |-> 0, annualInterestBps |-> 1,
                   maturityTimestamp |-> 1, maxTotalSupply |-> 1]
    BY ExampleAsks DEF Resolving, SignerOf, Args
<1>3. aimed => m[1] = c.program /\ m[2] = c.program
  <2>. DEFINE p == c.program
  <2>1. DOMAIN m = 1..2
      BY DEF Resolving, Moments
  <2>2. aimed => \A i \in DOMAIN m : m[i] = p
      BY DEF Resolving
  <2>. HIDE DEF p
  <2>3. aimed => \A i \in 1..2 : m[i] = p
      BY <2>1, <2>2
  <2>. QED
      BY <2>3 DEF p
<1>4. aimed => /\ pdas.market = c.market
               /\ pdas.marketAuthority = FindMarketAuthorityPda(c.market, c.program)
               /\ pdas.vault = FindVaultPda(c.market, c.program)
    BY <1>2, <1>3, WidthsAssumption DEF DeriveMarketPdas, MarketOf, IsU64
<1>. HIDE DEF pdas
<1>5. aimed => /\ Names(a.market, "market", c) /\ Names(a.borrower, "signer", c)
              /\ Names(a.mint, "mint", c) /\ Names(a.vault, "vault", c)
              /\ Names(a.marketAuthority, "authority", c) /\ Names(a.protocolConfig, "config", c)
              /\ Names(a.borrowerWhitelist, "whitelist", c)
              /\ Names(a.blacklistCheck, "blacklist", c)
              /\ Names(a.haircutState, "haircut", c)
    BY <1>2, <1>3, <1>4 DEF Names, Role, VaultOf
<1>. HIDE DEF a
<1>6. ASSUME ix # Rejected PROVE Sound(ix, c, aimed)
  <2>1. ix.op = "CreateMarket" /\ (aimed => Laid(ix, c))
        /\ ix.data = [c.args EXCEPT !.maturityTimestamp = I64(@)]
      BY <1>2, <1>3, <1>5, <1>6, CreateMarketBuilds
  <2>2. I64(c.args.maturityTimestamp) = c.args.maturityTimestamp
        \/ c.args.maturityTimestamp >= U64Range \div 2
      BY <1>2, <1>6, AcceptedMaturity
  <2>3. ix.data = c.args \/ c.args.maturityTimestamp >= U64Range \div 2
      BY <1>2, <2>1, <2>2
  <2>. QED
      BY <2>1, <2>3 DEF Sound, Encodes
<1>. HIDE DEF ix
<1>. QED
    BY <1>1, <1>2, <1>6, OneInstruction

LEMMA ExampleReSettleSound ==
    ASSUME NEW c, NEW m, NEW aimed, Resolving(c, m, aimed), c.method = "reSettle",
           NEW tx, tx = ExampleReSettle(c, m)
    PROVE  Rejected \notin Instrs(tx) => SoundTx(tx, c, aimed)
<1>. DEFINE a == [market |-> c.market, vault |-> VaultOf(c.market), haircutState |-> None,
                  protocolConfig |-> FindProtocolConfigPda(m[1])]
            ix == ReSettleInstruction(a, m[1])
<1>1. tx = <<ix>>
    BY DEF ExampleReSettle
<1>2. /\ c.by = "example" /\ c.signer = Lender
      /\ c.market = MarketOf(c.program) /\ c.market.program = c.program
      /\ c.args = <<>>
    BY ExampleAsks DEF Resolving, SignerOf, Args
<1>3. aimed => m[1] = c.program
  <2>. DEFINE p == c.program
  <2>1. DOMAIN m = 1..1
      BY DEF Resolving, Moments
  <2>2. aimed => \A i \in DOMAIN m : m[i] = p
      BY DEF Resolving
  <2>. HIDE DEF p
  <2>3. aimed => \A i \in 1..1 : m[i] = p
      BY <2>1, <2>2
  <2>. QED
      BY <2>3 DEF p
<1>4. aimed => /\ Names(a.market, "market", c) /\ Names(a.vault, "vault", c)
              /\ Names(a.protocolConfig, "config", c) /\ Names(a.haircutState, "haircut", c)
    BY <1>2, <1>3 DEF Names, Role, VaultOf
<1>. HIDE DEF a
<1>5. ASSUME ix # Rejected PROVE Sound(ix, c, aimed)
    BY <1>2, <1>3, <1>4, <1>5, ReSettleBuilds DEF Sound, Encodes
<1>. HIDE DEF ix
<1>. QED
    BY <1>1, <1>2, <1>5, OneInstruction

LEMMA ExampleSetPauseSound ==
    ASSUME NEW c, NEW m, NEW aimed, Resolving(c, m, aimed), c.method = "setPause",
           NEW tx, tx = ExampleSetPause(c, m)
    PROVE  Rejected \notin Instrs(tx) => SoundTx(tx, c, aimed)
<1>. DEFINE a == [protocolConfig |-> FindProtocolConfigPda(m[1]), admin |-> c.signer]
            ix == SetPauseInstruction(a, c.args.paused, m[1])
<1>1. tx = <<ix>>
    BY DEF ExampleSetPause
<1>2. /\ c.by = "example" /\ c.signer = Admin
      /\ c.market = MarketOf(c.program) /\ c.market.program = c.program
      /\ c.args = [paused |-> TRUE]
  <2>1. c.signer = SignerOf[c.method] /\ c.args = Args[c.method]
        /\ c.market = MarketOf(c.program) /\ c.market.program = c.program
      BY ExampleAsks DEF Resolving
  <2>2. SignerOf["setPause"] = Admin
      BY DEF SignerOf
  <2>3. Args["setPause"] = [paused |-> TRUE]
      BY DEF Args
  <2>. QED
      BY <2>1, <2>2, <2>3, ExampleAsks DEF Resolving
<1>3. aimed => m[1] = c.program
  <2>. DEFINE p == c.program
  <2>1. DOMAIN m = 1..1
      BY DEF Resolving, Moments
  <2>2. aimed => \A i \in DOMAIN m : m[i] = p
      BY DEF Resolving
  <2>. HIDE DEF p
  <2>3. aimed => \A i \in 1..1 : m[i] = p
      BY <2>1, <2>2
  <2>. QED
      BY <2>3 DEF p
<1>4. aimed => /\ Names(a.protocolConfig, "config", c) /\ Names(a.admin, "signer", c)
    BY <1>2, <1>3 DEF Names, Role, VaultOf
<1>. HIDE DEF a
<1>5. ASSUME ix # Rejected PROVE Sound(ix, c, aimed)
  <2>1. ix.op = "SetPause" /\ ix.data = c.args
    <3>1. ix.op = "SetPause" /\ ix.data = [paused |-> c.args.paused]
        BY <1>5, SetPauseBuilds
    <3>2. [paused |-> c.args.paused] = c.args
      <4>. DEFINE args == c.args
                  yes == [paused |-> TRUE]
      <4>1. args = yes
          BY <1>2
      <4>2. yes.paused = TRUE
          BY Zenon
      <4>3. args.paused = TRUE
          BY <4>1, <4>2, Zenon
      <4>4. [paused |-> args.paused] = yes
          BY <4>3, Zenon
      <4>. QED
          BY <4>1, <4>4, Zenon
    <3>. QED
        BY <3>1, <3>2, Zenon
  <2>2. aimed => Laid(ix, c)
      BY <1>3, <1>4, <1>5, SetPauseBuilds
  <2>. QED
      BY <2>1, <2>2 DEF Sound, Encodes
<1>. HIDE DEF ix
<1>. QED
    BY <1>1, <1>2, <1>5, OneInstruction

LEMMA ExampleRepaySound ==
    ASSUME NEW c, NEW m, NEW aimed, Resolving(c, m, aimed), c.method = "repay",
           NEW tx, tx = ExampleRepay(c, m), tx # Rejected
    PROVE  Rejected \notin Instrs(tx) => SoundTx(tx, c, aimed)
<1>. DEFINE a == [market |-> c.market, payer |-> c.signer, payerTokenAccount |-> c.token,
                  vault |-> VaultOf(c.market), mint |-> Mint,
                  protocolConfig |-> FindProtocolConfigPda(m[1]),
                  borrowerWhitelist |-> FindBorrowerWhitelistPda(Borrower, m[2])]
<1>1. /\ c.by = "example" /\ c.signer = Borrower
      /\ c.market = MarketOf(c.program) /\ c.market.program = c.program
      /\ c.args = [total |-> 2, interest |-> 1]
    BY ExampleAsks DEF Resolving, SignerOf, Args
<1>2. tx = WaterfallRepayInstructions(a, 2, 1, m[3])
  <2>1. c.args.total = 2 /\ c.args.interest = 1
      BY <1>1
  <2>. QED
      BY <2>1 DEF ExampleRepay
<1>3. aimed => m[1] = c.program /\ m[2] = c.program /\ m[3] = c.program
  <2>. DEFINE p == c.program
  <2>1. DOMAIN m = 1..3
      BY DEF Resolving, Moments
  <2>2. aimed => \A i \in DOMAIN m : m[i] = p
      BY DEF Resolving
  <2>. HIDE DEF p
  <2>3. aimed => \A i \in 1..3 : m[i] = p
      BY <2>1, <2>2
  <2>. QED
      BY <2>3 DEF p
<1>4. aimed => /\ Names(a.market, "market", c) /\ Names(a.payer, "signer", c)
              /\ Names(a.payerTokenAccount, "token", c) /\ Names(a.vault, "vault", c)
              /\ Names(a.protocolConfig, "config", c) /\ Names(a.mint, "mint", c)
              /\ Names(a.borrowerWhitelist, "whitelist", c)
    BY <1>1, <1>3 DEF Names, Role, VaultOf
<1>. HIDE DEF a
<1>. QED
    BY <1>1, <1>2, <1>3, <1>4, RepaymentSound

\* Whatever a function of the examples builds is sound.
LEMMA ExampleTxSound ==
    ASSUME NEW c, NEW m, NEW aimed, Resolving(c, m, aimed),
           NEW tx, tx = ExampleTx(c, m), tx # Rejected, Rejected \notin Instrs(tx)
    PROVE  SoundTx(tx, c, aimed)
<1>1. c.method \in {"deposit", "borrow", "repay", "withdraw", "collectFees", "withdrawExcess",
                   "closeLenderPosition", "createMarket", "reSettle", "setPause"}
    BY DEF Resolving, ExampleAsk, Moments
<1>2. CASE c.method = "deposit"
    BY <1>2, ExampleDepositSound DEF ExampleTx
<1>3. CASE c.method = "borrow"
    BY <1>3, ExampleBorrowSound DEF ExampleTx
<1>4. CASE c.method = "repay"
    BY <1>4, ExampleRepaySound DEF ExampleTx
<1>5. CASE c.method = "withdraw"
    BY <1>5, ExampleWithdrawSound DEF ExampleTx
<1>6. CASE c.method = "collectFees"
    BY <1>6, ExampleCollectFeesSound DEF ExampleTx
<1>7. CASE c.method = "withdrawExcess"
    BY <1>7, ExampleWithdrawExcessSound DEF ExampleTx
<1>8. CASE c.method = "closeLenderPosition"
    BY <1>8, ExampleClosePositionSound DEF ExampleTx
<1>9. CASE c.method = "createMarket"
    BY <1>9, ExampleCreateMarketSound DEF ExampleTx
<1>10. CASE c.method = "reSettle"
    BY <1>10, ExampleReSettleSound DEF ExampleTx
<1>11. CASE c.method = "setPause"
    BY <1>11, ExampleSetPauseSound DEF ExampleTx
<1>. QED
    BY <1>1, <1>2, <1>3, <1>4, <1>5, <1>6, <1>7, <1>8, <1>9, <1>10, <1>11

-----------------------------------------------------------------------------
(* The inductive invariant                                                 *)

\* A function of the examples that has not built yet: what it resolved and, as
\* long as nothing moved, that the program is still the one it started with.
DerivingInv ==
    call.stage = "deriving" =>
        /\ call = [stage |-> "deriving", ask |-> call.ask, moments |-> call.moments,
                   moved |-> call.moved]
        /\ call.moved \in BOOLEAN
        /\ ExampleAsk(call.ask)
        /\ call.moments \in Seq(ProgramIds)
        /\ Len(call.moments) < Moments[call.ask.method]
        /\ ~call.moved => /\ GetProgramId = call.ask.program
                          /\ \A i \in DOMAIN call.moments : call.moments[i] = call.ask.program

ConfigTypes ==
    /\ config \in SdkConfigs
    /\ env \in Environments
    /\ cachedProgramId \in ProgramIds \cup {None}
    /\ reconfigured \in BOOLEAN

IInv == TypeOK /\ DerivingInv /\ BuiltInv /\ ClientCallsAreAccepted

LEMMA ProgramIsResolved ==
    ASSUME NEW c \in SdkConfigs, NEW e
    PROVE  ResolveProgramId(c, e) \in ProgramIds \cup {Unresolved}
<1>1. c.programId \in ProgramIds \cup {None}
    BY DEF SdkConfigs
<1>2. LocalnetProgram \in ProgramIds /\ MainnetProgram \in ProgramIds
    BY ProgramsAssumption
<1>3. ASSUME NEW n PROVE OfNetwork(n) \in ProgramIds \cup {Unresolved}
    BY <1>2 DEF OfNetwork, DefaultProgramIds, Networks
<1>. QED
    BY <1>1, <1>2, <1>3 DEF ResolveProgramId

LEMMA MomentsAreCounted ==
    \A method \in DOMAIN Moments : Moments[method] \in Nat /\ Moments[method] > 0
BY DEF Moments

\* A call that ends without a transaction has failed.
LEMMA ReturnsAccepted ==
    ASSUME NEW c, NEW tx, call' = Returned(c, tx)
    PROVE  ClientCallsAreAccepted'
    BY DEF Returned, Done, ClientCallsAreAccepted

\* One more resolution of a call that has made some.
LEMMA ResolvedOnce ==
    ASSUME NEW c, NEW m \in Seq(ProgramIds), NEW moved \in BOOLEAN,
           NEW program \in ProgramIds \cup {Unresolved},
           ExampleAsk(c), Len(m) < Moments[c.method],
           ~moved => /\ program = c.program
                     /\ \A i \in DOMAIN m : m[i] = c.program,
           call' = Resolved(c, m, moved, program),
           ~moved => GetProgramId' = c.program
    PROVE  /\ DerivingInv' /\ BuiltInv' /\ ClientCallsAreAccepted'
           /\ call'.stage \in {"idle", "deriving", "built", "done"}
<1>1. CASE program = Unresolved
  <2>1. call'.stage = "done" /\ call'.outcome = "failed"
      BY <1>1 DEF Resolved, Done
  <2>. QED
      BY <2>1 DEF DerivingInv, BuiltInv, ClientCallsAreAccepted
<1>2. CASE program # Unresolved
  <2>. DEFINE more == Append(m, program)
              p == c.program
  <2>1. more \in Seq(ProgramIds) /\ Len(more) = Len(m) + 1 /\ Len(m) \in Nat
        /\ DOMAIN more = 1..(Len(m) + 1)
    <3>1. program \in ProgramIds
        BY <1>2
    <3>. QED
        BY <3>1, AppendProperties, LenProperties
  <2>2. ~moved => \A i \in DOMAIN more : more[i] = p
    <3>1. program \in ProgramIds
        BY <1>2
    <3>2. more[Len(m) + 1] = program /\ \A i \in 1..Len(m) : more[i] = m[i]
        BY <3>1, AppendProperties
    <3>3. DOMAIN m = 1..Len(m)
        BY LenProperties
    <3>. HIDE DEF more
    <3>. QED
        BY <2>1, <3>2, <3>3
  <2>. HIDE DEF more
  <2>3. Moments[c.method] \in Nat
      BY MomentsAreCounted DEF ExampleAsk
  <2>4. CASE Len(m) + 1 < Moments[c.method]
    <3>1. call' = [stage |-> "deriving", ask |-> c, moments |-> more, moved |-> moved]
        BY <1>2, <2>4 DEF Resolved, more
    <3>2. call'.stage = "deriving" /\ call'.ask = c /\ call'.moments = more
          /\ call'.moved = moved
        BY <3>1
    <3>3. BuiltInv' /\ ClientCallsAreAccepted'
        BY <3>2 DEF BuiltInv, ClientCallsAreAccepted
    <3>4. DerivingInv'
        BY <2>1, <2>2, <2>4, <3>1, <3>2 DEF DerivingInv
    <3>. QED
        BY <3>2, <3>3, <3>4
  <2>5. CASE ~(Len(m) + 1 < Moments[c.method])
    <3>. DEFINE tx == ExampleTx(c, more)
                built == Returned(c, tx)
    <3>1. call' = IF built.stage = "built" THEN [built EXCEPT !.moved = moved] ELSE built
        BY <1>2, <2>5 DEF Resolved, more
    <3>2. Len(m) + 1 = Moments[c.method]
        BY <2>1, <2>3, <2>5
    <3>3. Resolving(c, more, ~moved)
        BY <2>1, <2>2, <3>2 DEF Resolving
    <3>4. CASE built.stage = "built"
      <4>. HIDE DEF tx
      <4>1. built = [stage |-> "built", ask |-> c, tx |-> tx, moved |-> FALSE]
            /\ tx # Rejected /\ Rejected \notin Instrs(tx)
          BY <3>4, ReturnedTx
      <4>2. SoundTx(tx, c, ~moved)
          BY <3>3, <4>1, ExampleTxSound DEF tx
      <4>. HIDE DEF built
      <4>3. call'.stage = "built" /\ call'.ask = c /\ call'.tx = tx /\ call'.moved = moved
          BY <3>1, <3>4, <4>1
      <4>4. c.by # "client"
          BY ExampleAsks
      <4>5. BuiltInv'
        <5>1. (call'.ask.by = "client" \/ ~call'.moved) = ~moved
            BY <4>3, <4>4
        <5>2. SoundTx(call'.tx, call'.ask, call'.ask.by = "client" \/ ~call'.moved)
            BY <4>2, <4>3, <5>1
        <5>. QED
            BY <5>2 DEF BuiltInv
      <4>6. DerivingInv' /\ ClientCallsAreAccepted'
          BY <4>3 DEF DerivingInv, ClientCallsAreAccepted
      <4>. QED
          BY <4>3, <4>5, <4>6
    <3>5. CASE built.stage # "built"
      <4>1. call'.stage = "done" /\ call'.outcome = "failed"
          BY <3>1, <3>5 DEF Returned, Done
      <4>. QED
          BY <4>1 DEF DerivingInv, BuiltInv, ClientCallsAreAccepted
    <3>. QED
        BY <3>4, <3>5
  <2>. QED
      BY <2>4, <2>5
<1>. QED
    BY <1>1, <1>2

\* The call of a method of the client ends or has its instructions built.
LEMMA ClientCallReturns ==
    ASSUME ClientCall
    PROVE  /\ call'.stage \in {"built", "done"} /\ BuiltInv' /\ ClientCallsAreAccepted'
           /\ UNCHANGED <<configVars, minimumTimestamp, tokenAccounts>>
<1>1. \A c, tx : Returned(c, tx).stage \in {"built", "done"}
    BY DEF Returned, Done
<1>2. (\E c, tx : call' = Returned(c, tx)) \/ ReadFails
  <2>1. CASE Deposit
      BY <2>1 DEF Deposit
  <2>2. CASE Withdraw
      BY <2>2 DEF Withdraw
  <2>3. CASE WithdrawAndClose
      BY <2>3 DEF WithdrawAndClose
  <2>4. CASE CloseLenderPosition
      BY <2>4 DEF CloseLenderPosition
  <2>5. CASE ClaimHaircut
      BY <2>5 DEF ClaimHaircut
  <2>6. CASE ClaimHaircutAndClose
      BY <2>6 DEF ClaimHaircutAndClose
  <2>7. CASE CreateMarket
      BY <2>7 DEF CreateMarket
  <2>8. CASE Borrow
      BY <2>8 DEF Borrow
  <2>9. CASE Repay
      BY <2>9 DEF Repay
  <2>10. CASE WithdrawExcess
      BY <2>10 DEF WithdrawExcess
  <2>11. CASE ForceClosePosition
      BY <2>11 DEF ForceClosePosition
  <2>12. CASE ForceClaimHaircut
      BY <2>12 DEF ForceClaimHaircut
  <2>13. CASE ReSettle
      BY <2>13 DEF ReSettle
  <2>14. CASE CollectFees
      BY <2>14 DEF CollectFees
  <2>15. CASE InitializeProtocol
      BY <2>15 DEF InitializeProtocol
  <2>16. CASE SetFeeConfig
      BY <2>16 DEF SetFeeConfig
  <2>17. CASE WhitelistBorrower
      BY <2>17 DEF WhitelistBorrower
  <2>18. CASE SetPause
      BY <2>18 DEF SetPause
  <2>19. CASE SetBlacklistMode
      BY <2>19 DEF SetBlacklistMode
  <2>20. CASE SetAdmin
      BY <2>20 DEF SetAdmin
  <2>21. CASE SetWhitelistManager
      BY <2>21 DEF SetWhitelistManager
  <2>. QED
      BY <2>1, <2>2, <2>3, <2>4, <2>5, <2>6, <2>7, <2>8, <2>9, <2>10, <2>11, <2>12, <2>13,
         <2>14, <2>15, <2>16, <2>17, <2>18, <2>19, <2>20, <2>21 DEF ClientCall
<1>3. ReadFails => call'.stage = "done"
    BY DEF ReadFails, Done
<1>4. call'.stage \in {"built", "done"}
    BY <1>1, <1>2, <1>3
<1>5. ReadFails => BuiltInv'
    BY <1>3 DEF BuiltInv
<1>6. BuiltInv'
    BY <1>5, DepositSound, WithdrawSound, WithdrawAndCloseSound, CloseLenderPositionSound,
       ClaimHaircutSound, ClaimHaircutAndCloseSound, CreateMarketSound, BorrowSound, RepaySound,
       WithdrawExcessSound, ForceClosePositionSound, ForceClaimHaircutSound, ReSettleSound,
       CollectFeesSound, InitializeProtocolSound, SetFeeConfigSound, WhitelistBorrowerSound,
       SetPauseSound, SetBlacklistModeSound, SetAdminSound, SetWhitelistManagerSound DEF ClientCall
<1>7. ClientCallsAreAccepted'
  <2>1. ReadFails => ClientCallsAreAccepted'
      BY DEF ReadFails, Done, ClientCallsAreAccepted
  <2>. QED
      BY <1>2, <2>1, ReturnsAccepted
<1>8. UNCHANGED <<configVars, minimumTimestamp, tokenAccounts>>
    BY DEF ClientCall, Calls, Deposit, Withdraw, WithdrawAndClose, CloseLenderPosition,
       ClaimHaircut, ClaimHaircutAndClose, CreateMarket, Borrow, Repay, WithdrawExcess,
       ForceClosePosition, ForceClaimHaircut, ReSettle, CollectFees, InitializeProtocol,
       SetFeeConfig, WhitelistBorrower, SetPause, SetBlacklistMode, SetAdmin,
       SetWhitelistManager, ReadFails
<1>. QED
    BY <1>4, <1>6, <1>7, <1>8

\* A transaction creates the token accounts of recipients and no other.
LEMMA CreatesForRecipients ==
    ASSUME NEW tx, NEW c, NEW aimed, SoundTx(tx, c, aimed)
    PROVE  Created(tx) \subseteq {Ata(owner) : owner \in Recipients}
<1>1. \A i \in DOMAIN tx : Sound(tx[i], c, aimed)
    BY DEF SoundTx, Instrs
<1>. QED
    BY <1>1 DEF Created, Sound, CreatesAta

\* The runtime and the program accept what a client method built: every account
\* is there and is the right one, the caller's signatures suffice, and what is
\* paid has been created by then.
LEMMA SoundIsAccepted ==
    ASSUME NEW tx, NEW c, SoundTx(tx, c, TRUE), c.by = "client"
    PROVE  Outcome(tx, c) \in {"failed", "landed", "NoFunds"}
<1>1. \A i \in DOMAIN tx : Sound(tx[i], c, TRUE)
    BY DEF SoundTx, Instrs
<1>2. ASSUME NEW i \in DOMAIN tx, NEW j \in DOMAIN tx[i].keys
      PROVE  /\ tx[i].keys[j].pubkey # None
             /\ tx[i].keys[j].isSigner => tx[i].keys[j].pubkey \in {c.signer, c.payer}
  <2>1. CASE tx[i].op = "CreateAta"
    <3>1. CreatesAta(tx[i], c)
        BY <1>1, <2>1 DEF Sound
    <3>. QED
        BY <3>1, Zenon DEF CreatesAta
  <2>2. CASE tx[i].op # "CreateAta"
    <3>. DEFINE key == tx[i].keys[j]
                role == OnChainOrder[tx[i].op][j]
    <3>1. Names(key.pubkey, role, c) /\ (key.isSigner => role = "signer")
        BY <1>1, <2>2 DEF Sound, Laid
    <3>. HIDE DEF key, role
    <3>2. key.pubkey = Role(c)[role] /\ key.pubkey # None
        BY <3>1 DEF Names
    <3>3. Role(c)["signer"] = c.signer
        BY DEF Role
    <3>4. key.pubkey # None /\ (key.isSigner => key.pubkey \in {c.signer, c.payer})
        BY <3>1, <3>2, <3>3
    <3>. QED
        BY <3>4 DEF key
  <2>. QED
      BY <2>1, <2>2
<1>3. ~\E i \in DOMAIN tx : \E j \in DOMAIN tx[i].keys : tx[i].keys[j].pubkey = None
    BY <1>2
<1>4. RequiredSigners(tx) \subseteq {c.signer, c.payer}
    BY <1>2 DEF RequiredSigners, AllMetas
<1>5. ASSUME NEW i \in DOMAIN tx PROVE Addressed(tx[i], c)
  <2>1. CASE tx[i].op = "CreateAta"
      BY <2>1 DEF Addressed
  <2>2. CASE tx[i].op # "CreateAta"
    <3>. DEFINE ix == tx[i]
                order == OnChainOrder[ix.op]
    <3>1. Laid(ix, c)
        BY <1>1, <2>2 DEF Sound
    <3>2. /\ ix.program = c.program /\ DOMAIN ix.keys = DOMAIN order
          /\ \A j \in DOMAIN order : ix.keys[j].pubkey = Role(c)[order[j]]
        BY <3>1 DEF Laid, Names
    <3>. HIDE DEF ix, order
    <3>3. Accounts(ix) = [j \in DOMAIN order |-> Role(c)[order[j]]]
        BY <3>2 DEF Accounts
    <3>4. Addressed(ix, c)
        BY <3>2, <3>3 DEF Addressed, order
    <3>. QED
        BY <3>4 DEF ix
  <2>. QED
      BY <2>1, <2>2
<1>6. HasToken(tx, c, PaysOut)
    BY DEF SoundTx, Funded, HasToken
<1>. QED
    BY <1>3, <1>4, <1>5, <1>6 DEF Outcome

LEMMA ConfigStepKeepsTypes ==
    ASSUME ConfigTypes, \/ \E c \in SdkConfigs : ConfigureSdk(c)
                        \/ ResetSdkConfig \/ GetProgramIdLazy \/ ClearProgramIdCache
                        \/ UNCHANGED configVars
    PROVE  ConfigTypes'
<1>1. NoConfig \in SdkConfigs
    BY DEF NoConfig, SdkConfigs
<1>2. GetProgramId \in ProgramIds \cup {Unresolved}
    BY ProgramIsResolved DEF ConfigTypes, GetProgramId
<1>3. ASSUME NEW c \in SdkConfigs, ConfigureSdk(c) PROVE ConfigTypes'
    BY <1>3 DEF ConfigureSdk, ConfigTypes
<1>4. CASE ResetSdkConfig
    BY <1>1, <1>4 DEF ResetSdkConfig, ConfigTypes
<1>5. CASE GetProgramIdLazy
    BY <1>2, <1>5 DEF GetProgramIdLazy, ConfigTypes
<1>6. CASE ClearProgramIdCache
    BY <1>6 DEF ClearProgramIdCache, ConfigTypes
<1>7. CASE UNCHANGED configVars
    BY <1>7 DEF configVars, ConfigTypes
<1>. QED
    BY <1>3, <1>4, <1>5, <1>6, <1>7

LEMMA TypesOfConfig ==
    ASSUME TypeOK
    PROVE  ConfigTypes
    BY DEF TypeOK, ConfigTypes

LEMMA Initially == Init => IInv
<1>. SUFFICES ASSUME Init PROVE IInv
    OBVIOUS
<1>1. call.stage = "idle"
    BY DEF Init, Idle
<1>2. config \in SdkConfigs
    BY DEF Init, ConfigInit, NoConfig, SdkConfigs
<1>3. TypeOK
    BY <1>1, <1>2 DEF Init, ConfigInit, TypeOK
<1>. QED
    BY <1>1, <1>3 DEF IInv, DerivingInv, BuiltInv, ClientCallsAreAccepted

LEMMA StepKeepsIInv == IInv /\ [Next]_vars => IInv'
<1>. SUFFICES ASSUME IInv, [Next]_vars PROVE IInv'
    OBVIOUS
<1>. USE DEF IInv
<1>0. ConfigTypes
    BY TypesOfConfig
<1>1. CASE ClientCall
  <2>1. /\ call'.stage \in {"built", "done"} /\ BuiltInv' /\ ClientCallsAreAccepted'
        /\ UNCHANGED <<configVars, minimumTimestamp, tokenAccounts>>
      BY <1>1, ClientCallReturns
  <2>2. TypeOK'
      BY <2>1 DEF TypeOK, configVars
  <2>3. DerivingInv'
      BY <2>1 DEF DerivingInv
  <2>. QED
      BY <2>1, <2>2, <2>3
<1>2. CASE ExampleCall
  <2>. DEFINE program == ResolveProgramId(OnMainnet, env)
  <2>1. PICK method \in DOMAIN Moments :
            LET c == With(Call("example", method, program, SignerOf[method]), Args[method])
            IN  call' = IF method \in AtOnce THEN Resolved(c, <<>>, FALSE, program)
                        ELSE [stage |-> "deriving", ask |-> c, moments |-> <<>>, moved |-> FALSE]
      BY <1>2 DEF ExampleCall
  <2>. DEFINE c == With(Call("example", method, program, SignerOf[method]), Args[method])
  <2>2. OnMainnet \in SdkConfigs
      BY DEF OnMainnet, SdkConfigs, Networks
  <2>3. ConfigureSdk(OnMainnet) /\ UNCHANGED <<minimumTimestamp, tokenAccounts>>
      BY <1>2 DEF ExampleCall
  <2>4. ConfigTypes'
      BY <1>0, <2>2, <2>3, ConfigStepKeepsTypes
  <2>5. GetProgramId' = program
      BY <2>3 DEF ConfigureSdk, GetProgramId
  <2>6. program \in ProgramIds \cup {Unresolved}
      BY <2>2, ProgramIsResolved
  <2>. HIDE DEF program
  <2>7. c.method = method /\ c.program = program
      BY DEF With, Call
  <2>8. ExampleAsk(c)
      BY <2>7 DEF ExampleAsk
  <2>. HIDE DEF c
  <2>9. <<>> \in Seq(ProgramIds) /\ Len(<<>>) = 0 /\ DOMAIN <<>> = {}
      OBVIOUS
  <2>10. Moments[method] \in Nat /\ Moments[method] > 0
      BY MomentsAreCounted
  <2>11. Len(<<>>) < Moments[c.method]
      BY <2>7, <2>9, <2>10
  <2>12. /\ DerivingInv' /\ BuiltInv' /\ ClientCallsAreAccepted'
         /\ call'.stage \in {"idle", "deriving", "built", "done"}
    <3>1. CASE method \in AtOnce
      <4>1. call' = Resolved(c, <<>>, FALSE, program)
          BY <2>1, <3>1 DEF c
      <4>. QED
          BY <2>5, <2>6, <2>7, <2>8, <2>9, <2>11, <4>1, ResolvedOnce
    <3>2. CASE method \notin AtOnce
      <4>1. call' = [stage |-> "deriving", ask |-> c, moments |-> <<>>, moved |-> FALSE]
          BY <2>1, <3>2 DEF c
      <4>2. call'.stage = "deriving" /\ call'.ask = c /\ call'.moments = <<>>
          BY <4>1
      <4>3. DerivingInv'
          BY <2>5, <2>7, <2>8, <2>9, <2>11, <4>1, <4>2 DEF DerivingInv
      <4>4. BuiltInv' /\ ClientCallsAreAccepted'
          BY <4>2 DEF BuiltInv, ClientCallsAreAccepted
      <4>. QED
          BY <4>2, <4>3, <4>4
    <3>. QED
        BY <3>1, <3>2
  <2>13. TypeOK'
      BY <2>3, <2>4, <2>12 DEF TypeOK, ConfigTypes
  <2>. QED
      BY <2>12, <2>13
<1>3. CASE ExampleResumes
  <2>1. /\ call.stage = "deriving"
        /\ call' = Resolved(call.ask, call.moments, call.moved, GetProgramId)
        /\ UNCHANGED <<configVars, minimumTimestamp, tokenAccounts>>
      BY <1>3 DEF ExampleResumes
  <2>2. /\ ExampleAsk(call.ask) /\ call.moments \in Seq(ProgramIds)
        /\ Len(call.moments) < Moments[call.ask.method]
        /\ ~call.moved => /\ GetProgramId = call.ask.program
                          /\ \A i \in DOMAIN call.moments : call.moments[i] = call.ask.program
      BY <2>1 DEF DerivingInv
  <2>3. GetProgramId \in ProgramIds \cup {Unresolved} /\ GetProgramId' = GetProgramId
      BY <1>0, <2>1, ProgramIsResolved DEF ConfigTypes, GetProgramId, configVars
  <2>4. call.moved \in BOOLEAN
      BY <2>1 DEF DerivingInv
  <2>5. /\ DerivingInv' /\ BuiltInv' /\ ClientCallsAreAccepted'
        /\ call'.stage \in {"idle", "deriving", "built", "done"}
      BY <2>1, <2>2, <2>3, <2>4, ResolvedOnce
  <2>6. TypeOK'
      BY <2>1, <2>5 DEF TypeOK, configVars
  <2>. QED
      BY <2>5, <2>6
<1>4. CASE ExampleReadFails \/ Finish
  <2>1. /\ \/ call'.stage = "idle"
           \/ call'.stage = "done" /\ call'.outcome = "failed"
        /\ UNCHANGED <<configVars, minimumTimestamp, tokenAccounts>>
      BY <1>4 DEF ExampleReadFails, Finish, Done, Idle
  <2>. QED
      BY <2>1 DEF TypeOK, DerivingInv, BuiltInv, ClientCallsAreAccepted, configVars
<1>5. CASE SendAndConfirm
  <2>1. /\ call.stage = "built" /\ call'.stage = "done"
        /\ UNCHANGED <<configVars, minimumTimestamp>>
        /\ \/ tokenAccounts' = tokenAccounts \cup Created(call.tx)
           \/ tokenAccounts' = tokenAccounts
      BY <1>5 DEF SendAndConfirm, Done
  <2>2. SoundTx(call.tx, call.ask, call.ask.by = "client" \/ ~call.moved)
      BY <2>1 DEF BuiltInv
  <2>3. Created(call.tx) \subseteq {Ata(owner) : owner \in Recipients}
      BY <2>2, CreatesForRecipients
  <2>4. TypeOK' /\ DerivingInv' /\ BuiltInv'
      BY <2>1, <2>3 DEF TypeOK, DerivingInv, BuiltInv, configVars
  <2>5. ClientCallsAreAccepted'
    <3>1. call'.by = call.ask.by /\ call'.outcome = Outcome(call.tx, call.ask)
        BY <1>5 DEF SendAndConfirm, Done
    <3>2. ASSUME call.ask.by = "client"
          PROVE  Outcome(call.tx, call.ask) \in {"failed", "landed", "NoFunds"}
      <4>1. SoundTx(call.tx, call.ask, TRUE)
          BY <2>2, <3>2
      <4>. QED
          BY <3>2, <4>1, SoundIsAccepted
    <3>. QED
        BY <3>1, <3>2 DEF ClientCallsAreAccepted
  <2>. QED
      BY <2>4, <2>5
<1>6. CASE Reconfigure
  <2>1. /\ \/ \E c \in SdkConfigs : ConfigureSdk(c)
           \/ ResetSdkConfig
        /\ call' = IF call.stage = "deriving" /\ GetProgramId' # GetProgramId
                   THEN [call EXCEPT !.moved = TRUE] ELSE call
        /\ UNCHANGED <<minimumTimestamp, tokenAccounts>>
      BY <1>6, InputsAssumption DEF Reconfigure
  <2>2. ConfigTypes'
      BY <1>0, <2>1, ConfigStepKeepsTypes
  <2>3. CASE call.stage = "deriving" /\ GetProgramId' # GetProgramId
    <3>. DEFINE d == [stage |-> "deriving", ask |-> call.ask, moments |-> call.moments,
                      moved |-> call.moved]
    <3>1. call = d /\ call' = [call EXCEPT !.moved = TRUE]
        BY <2>1, <2>3 DEF DerivingInv
    <3>2. call' = [d EXCEPT !.moved = TRUE]
        BY <3>1
    <3>3. call' = [stage |-> "deriving", ask |-> call.ask, moments |-> call.moments,
                   moved |-> TRUE]
        BY <3>2
    <3>. HIDE DEF d
    <3>4. call'.stage = "deriving" /\ call'.ask = call.ask /\ call'.moments = call.moments
          /\ call'.moved = TRUE
        BY <3>3
    <3>5. DerivingInv'
        BY <2>3, <3>3, <3>4 DEF DerivingInv
    <3>6. BuiltInv' /\ ClientCallsAreAccepted'
        BY <3>4 DEF BuiltInv, ClientCallsAreAccepted
    <3>7. TypeOK'
        BY <2>1, <2>2, <3>4 DEF TypeOK, ConfigTypes
    <3>. QED
        BY <3>5, <3>6, <3>7
  <2>4. CASE ~(call.stage = "deriving" /\ GetProgramId' # GetProgramId)
    <3>1. call' = call
        BY <2>1, <2>4
    <3>2. DerivingInv'
        BY <2>4, <3>1 DEF DerivingInv
    <3>3. BuiltInv' /\ ClientCallsAreAccepted'
        BY <3>1 DEF BuiltInv, ClientCallsAreAccepted
    <3>4. TypeOK'
        BY <2>1, <2>2, <3>1 DEF TypeOK, ConfigTypes
    <3>. QED
        BY <3>2, <3>3, <3>4
  <2>. QED
      BY <2>3, <2>4
<1>7. CASE LegacyProgramId \/ SetMinimumTimestamp \/ OwnersAct \/ UNCHANGED vars
  <2>1. call' = call /\ config' = config /\ env' = env
      BY <1>7 DEF LegacyProgramId, SetMinimumTimestamp, OwnersAct, GetProgramIdLazy,
         ClearProgramIdCache, vars, configVars
  <2>2. DerivingInv' /\ BuiltInv' /\ ClientCallsAreAccepted'
      BY <2>1 DEF DerivingInv, BuiltInv, ClientCallsAreAccepted, GetProgramId
  <2>3. ConfigTypes'
      BY <1>0, <1>7, ConfigStepKeepsTypes DEF LegacyProgramId, SetMinimumTimestamp, OwnersAct, vars
  <2>4. /\ minimumTimestamp' \in MinimumTimestamps
        /\ tokenAccounts' \subseteq {Ata(owner) : owner \in Recipients}
      BY <1>7 DEF LegacyProgramId, SetMinimumTimestamp, OwnersAct, vars, TypeOK
  <2>5. TypeOK'
      BY <2>1, <2>3, <2>4 DEF TypeOK, ConfigTypes
  <2>. QED
      BY <2>2, <2>5
<1>. QED
    BY <1>1, <1>2, <1>3, <1>4, <1>5, <1>6, <1>7 DEF Next

LEMMA InvHolds == Spec => []IInv
    BY Initially, StepKeepsIInv, PTL DEF Spec

\* For any inputs and configurations the state keeps its types: a landed
\* transaction creates the token accounts of recipients only, and what the
\* legacy constant keeps is a program.
THEOREM ClientCallTypes == Spec => []TypeOK
<1>1. IInv => TypeOK
    BY DEF IInv
<1>. QED
    BY <1>1, InvHolds, PTL

\* Whatever other tasks configure, and for any programs and amounts, no
\* instruction of a client method names an account of another program, market
\* or position; a function of the examples names the right ones whenever the
\* program it resolves did not change between its awaits.
THEOREM AddressesNeverMixed == Spec => []NeverMisaddressed
<1>1. IInv => NeverMisaddressed
  <2>1. ASSUME IInv, call.stage = "built", call.ask.by = "client" \/ ~call.moved,
               NEW i \in DOMAIN call.tx
        PROVE  call.tx[i].op = "CreateAta" \/ Placed(call.tx[i], call.ask)
    <3>1. Sound(call.tx[i], call.ask, call.ask.by = "client" \/ ~call.moved)
        BY <2>1 DEF IInv, BuiltInv, SoundTx, Instrs
    <3>2. \A ix, c : Laid(ix, c) => Placed(ix, c)
        BY DEF Laid, Placed, Names
    <3>. QED
        BY <2>1, <3>1, <3>2 DEF Sound
  <2>. QED
      BY <2>1 DEF NeverMisaddressed
<1>. QED
    BY <1>1, InvHolds, PTL

\* Whichever token accounts their owners close before it lands, and whatever the
\* application configures, a transaction of a client method is never turned down
\* for an account left out, an address, a signature or a recipient without a
\* token account.
THEOREM AcceptedAsBuilt == Spec => []ClientCallsAreAccepted
<1>1. IInv => ClientCallsAreAccepted
    BY DEF IInv
<1>. QED
    BY <1>1, InvHolds, PTL

\* At any width of the integers every argument reaches the program as the caller
\* passed it, but for a maturity beyond the last i64.
THEOREM ArgumentsKeepTheirValue == Spec => []EncodedFaithfully
<1>1. IInv => EncodedFaithfully
    BY DEF IInv, BuiltInv, SoundTx, Sound, Instrs, EncodedFaithfully
<1>. QED
    BY <1>1, InvHolds, PTL

\* For any amounts a built repayment pays the interest, then the rest of the
\* total, each at most once.
THEOREM RepaymentsPayTheirSplit == Spec => []RepaysAsSplit
<1>1. IInv => RepaysAsSplit
    BY DEF IInv, BuiltInv, SoundTx, RepaysAsSplit
<1>. QED
    BY <1>1, InvHolds, PTL
=============================================================================
