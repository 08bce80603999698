------------------------------ MODULE SdkConfig ------------------------------
(***************************************************************************)
(* SdkConfig: the process-wide configuration of the SDK and the program id *)
(* it resolves to.                                                         *)
(*                                                                         *)
(* resolveProgramId reads the configuration and the environment anew on    *)
(* every call.  The deprecated constant PROGRAM_ID resolves once and keeps *)
(* the answer until the cache is cleared.  None stands for a value that is *)
(* absent or empty, Unresolved for the error resolveProgramId throws.      *)
(***************************************************************************)
CONSTANTS
    ProgramIds,       \* well-formed program ids
    MainnetProgram,   \* the deployment that devnet shares
    LocalnetProgram,
    Environments,     \* values of COALESCEFI_PROGRAM_ID and COALESCEFI_NETWORK
    None,
    Unresolved

ASSUME ProgramsAssumption ==
    /\ {MainnetProgram, LocalnetProgram} \subseteq ProgramIds
    /\ {None, Unresolved} \cap ProgramIds = {}
    /\ None # Unresolved

VARIABLES
    config,           \* globalConfig
    env,              \* the process environment, fixed when the program starts
    cachedProgramId,
    reconfigured      \* history: configured since PROGRAM_ID was first read

configVars == <<config, env, cachedProgramId, reconfigured>>

-----------------------------------------------------------------------------
Networks == {"mainnet", "devnet", "localnet", "staging-mainnet"}

\* staging-mainnet holds a placeholder that is never a usable program.
DefaultProgramIds ==
    [n \in Networks |-> CASE n = "localnet" -> LocalnetProgram
                          [] n = "staging-mainnet" -> None
                          [] OTHER -> MainnetProgram]

OfNetwork(n) ==
    IF n \in Networks /\ DefaultProgramIds[n] # None THEN DefaultProgramIds[n] ELSE Unresolved

SdkConfigs == [programId: ProgramIds \cup {None}, network: Networks \cup {None}]
NoConfig == [programId |-> None, network |-> None]
OnMainnet == [programId |-> None, network |-> "mainnet"]

ResolveProgramId(c, e) ==
    IF c.programId # None THEN c.programId
    ELSE IF e.programId # None
    THEN IF e.programId \in ProgramIds THEN e.programId ELSE Unresolved
    ELSE IF c.network # None THEN OfNetwork(c.network)
    ELSE IF e.network # None THEN OfNetwork(e.network)
    ELSE LocalnetProgram

GetProgramId == ResolveProgramId(config, env)

-----------------------------------------------------------------------------
ConfigInit ==
    /\ config = NoConfig
    /\ env \in Environments
    /\ cachedProgramId = None
    /\ reconfigured = FALSE

ConfigureSdk(c) ==
    /\ config' = c
    /\ reconfigured' = (cachedProgramId # None)
    /\ UNCHANGED <<env, cachedProgramId>>

ClearProgramIdCache ==
    /\ cachedProgramId' = None
    /\ reconfigured' = FALSE
    /\ UNCHANGED <<config, env>>

\* Mutant: the legacy cache survives the reset.
ResetKeepingTheCache ==
    /\ config' = NoConfig
    /\ reconfigured' = FALSE
    /\ UNCHANGED <<env, cachedProgramId>>

ResetSdkConfig ==
    /\ config' = NoConfig
    /\ cachedProgramId' = None
    /\ reconfigured' = FALSE
    /\ UNCHANGED env

\* Mutant: the outcome of the resolution is cached although it threw.
CachingAnyOutcome ==
    /\ cachedProgramId' = IF cachedProgramId = None THEN GetProgramId ELSE cachedProgramId
    /\ UNCHANGED <<config, env, reconfigured>>

\* PROGRAM_ID is read; nothing is cached when the resolution throws.
GetProgramIdLazy ==
    /\ cachedProgramId' = IF cachedProgramId = None /\ GetProgramId # Unresolved
                          THEN GetProgramId ELSE cachedProgramId
    /\ UNCHANGED <<config, env, reconfigured>>
=============================================================================
