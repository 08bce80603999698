---------------------------- MODULE MCIdempotency ----------------------------
(***************************************************************************)
(* Small instances of Idempotency for TLC.                                 *)
(***************************************************************************)
EXTENDS Idempotency, TLC

CONSTANTS c1, c2, k1, k2, s1, s2, s3

OneCaller == {c1}
TwoCallers == {c1, c2}
OneKey == {k1}
TwoKeys == {k1, k2}
TwoSigs == {s1, s2}
ThreeSigs == {s1, s2, s3}

\* Callers, keys and signatures are interchangeable; no property names one.
Symmetry == Permutations(Callers) \cup Permutations(Keys) \cup Permutations(Sigs)
=============================================================================
