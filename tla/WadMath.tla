------------------------------- MODULE WadMath -------------------------------
(***************************************************************************)
(* WadMath: fixed-point numbers and the conversion between tokens and      *)
(* shares.  Wad stands for 1.0; every division rounds down.                *)
(***************************************************************************)
EXTENDS Integers

CONSTANTS
    Wad,         \* the fixed-point one
    MaxU128      \* the largest u128

ASSUME WadAssumption == {Wad, MaxU128} \subseteq Nat \ {0}

-----------------------------------------------------------------------------
\* Mutant: rounds in the caller's favour.
RoundedUp(amount, factor) == (amount * Wad + factor - 1) \div factor

CalculateScaledAmount(amount, factor) == (amount * Wad) \div factor
CalculateNormalizedAmount(shares, factor) == (shares * factor) \div Wad
CalculateSettlementPayout(shares, factor, settlement) ==
    (((shares * factor) \div Wad) * settlement) \div Wad
=============================================================================
