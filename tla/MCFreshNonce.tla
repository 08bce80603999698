----------------------------- MODULE MCFreshNonce -----------------------------
(***************************************************************************)
(* A small instance of FreshNonce for TLC.                                 *)
(***************************************************************************)
EXTENDS FreshNonce

CONSTANTS c1, c2, c3

ThreeCallers == {c1, c2, c3}
OldMarkets == {1}
DustyNonces == {0, 3}
=============================================================================
