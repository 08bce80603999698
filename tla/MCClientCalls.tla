---------------------------- MODULE MCClientCalls ----------------------------
(***************************************************************************)
(* A small instance of ClientCalls for TLC: three programs, of which the   *)
(* application configures one of its own, and integers of two bits.        *)
(***************************************************************************)
EXTENDS ClientCalls

CONSTANTS mainnetId, localnetId, ownId, invalidId

Programs == {mainnetId, localnetId, ownId}
\* Nothing set, a program, a malformed program.
SomeEnvironments ==
    {[programId |-> None, network |-> None],
     [programId |-> ownId, network |-> "localnet"],
     [programId |-> invalidId, network |-> None]}
\* A program of its own, a network without a program; examples add mainnet.
SomeConfigs ==
    {[programId |-> ownId, network |-> "mainnet"],
     [programId |-> None, network |-> "staging-mainnet"]}
\* Below, at and above the bounds of a u64 and an i64.
SomeNumbers == {-1, 0, 1, 2, 4}
=============================================================================
