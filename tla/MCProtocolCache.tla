--------------------------- MODULE MCProtocolCache ---------------------------
(***************************************************************************)
(* A small instance of ProtocolCache for TLC.  The cache keeps the entries *)
(* of different accounts apart, so that one account is enough, and a       *)
(* market can do all that the protocol config can.                         *)
(***************************************************************************)
EXTENDS ProtocolCache

CONSTANTS r1, r2, config, m1

TwoReaders == {r1, r2}
MarketOnly == {m1}
=============================================================================
