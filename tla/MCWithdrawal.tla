---------------------------- MODULE MCWithdrawal ----------------------------
(***************************************************************************)
(* Small instances of Withdrawal for TLC.                                  *)
(***************************************************************************)
EXTENDS Withdrawal, TLC

CONSTANTS c1, c2

OneCall == {c1}
TwoCalls == {c1, c2}

\* Not positive, below one share at a grown factor, ordinary, more than the
\* position holds, and beyond MaxU128 when multiplied by Wad.
MixedAmounts == {0, 1, 2, 5, 10}
AllOrSome == {0, 2}

\* Calls are interchangeable; no safety property names one.
CallSymmetry == Permutations(Calls)
=============================================================================
