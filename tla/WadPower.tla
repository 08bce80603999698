------------------------------ MODULE WadPower ------------------------------
(***************************************************************************)
(* WadPower: the checked product mulWad and powWad, exponentiation by      *)
(* squaring with a floor at each product.                                  *)
(***************************************************************************)
EXTENDS WadMath

CONSTANT Overflow   \* mulWad throws

ASSUME OverflowAssumption == Overflow \notin Nat

MulWad(a, b) ==
    IF a = Overflow \/ b = Overflow \/ a * b > MaxU128 THEN Overflow ELSE (a * b) \div Wad

\* Mutant: squares the result instead of the base.
SquaringTheResult(result, b, e) ==
    <<IF e % 2 = 1 THEN MulWad(MulWad(result, result), b) ELSE result, b, e \div 2>>

\* One turn of the loop.  The base is not squared after the last bit, where it
\* could overflow in vain.
Turn(result, b, e) ==
    <<IF e % 2 = 1 THEN MulWad(result, b) ELSE result,
      IF e > 1 THEN MulWad(b, b) ELSE b,
      e \div 2>>

Fixed == Nat \cup {Overflow}

\* The result of the loop from its variables result, b and e.
PowLoop[s \in Fixed \X Fixed \X Nat] ==
    IF s[3] = 0 THEN s[1] ELSE PowLoop[Turn(s[1], s[2], s[3])]

PowWad(base, exp) == PowLoop[<<Wad, base, exp>>]

\* The power without rounding.
Exact[s \in Nat \X Nat] == IF s[2] = 0 THEN 1 ELSE s[1] * Exact[<<s[1], s[2] - 1>>]
=============================================================================
