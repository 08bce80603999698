SPECIFICATION Spec
CONSTANTS
    mainnetId = mainnetId  localnetId = localnetId  ownId = ownId  invalidId = invalidId
    ProgramIds <- Programs
    MainnetProgram = mainnetId
    LocalnetProgram = localnetId
    Environments <- SomeEnvironments
    None = None
    Unresolved = Unresolved
    U64Range = 4
    BpfLoader = BpfLoader
    Rejected = Rejected
    U128Range = 8
    MaxBps = 1
    TokenProgram = TokenProgram
    SystemProgram = SystemProgram
    ClientProgram = mainnetId
    Borrower = Borrower
    Lender = Lender
    FeeAuthority = FeeAuthority
    Admin = Admin
    Manager = Manager
    Sponsor = Sponsor
    Mint = Mint
    BlacklistProgram = BlacklistProgram
    OtherAccount = OtherAccount
    Configs <- SomeConfigs
    Numbers <- SomeNumbers
    MinimumTimestamps = {0, 1}
INVARIANTS TypeOK LegacyAgrees NeverMisaddressed ClientCallsAreAccepted EncodedFaithfully RepaysAsSplit
