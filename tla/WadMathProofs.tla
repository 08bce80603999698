---------------------------- MODULE WadMathProofs ----------------------------
(***************************************************************************)
(* Proofs about WadMath, for any fixed-point one and any amounts.          *)
(***************************************************************************)
EXTENDS WadMath, TLAPS

-----------------------------------------------------------------------------
(* Arithmetic.  Every fact follows from the two inequalities of a floor.   *)

LEMMA FloorBounds ==
    ASSUME NEW a \in Nat, NEW b \in Nat \ {0}
    PROVE  /\ a \div b \in Nat
           /\ (a \div b) * b <= a
           /\ a < (a \div b) * b + b
    BY SMT

LEMMA ProductInNat ==
    ASSUME NEW a \in Nat, NEW b \in Nat
    PROVE  a * b \in Nat
    BY SMT

\* A larger factor gives a product that is no smaller.
LEMMA ProductMonotone ==
    ASSUME NEW a \in Nat, NEW b \in Nat, NEW c \in Nat, a <= b
    PROVE  /\ a * c <= b * c
           /\ c * a <= c * b
    BY SMT

\* Products of sides, a factor at a time.
LEMMA ProductsMonotone ==
    ASSUME NEW a \in Nat, NEW b \in Nat, NEW c \in Nat, NEW d \in Nat, a <= b, c <= d
    PROVE  a * c <= b * d
<1>1. a * c <= b * c
    BY ProductMonotone
<1>2. b * c <= b * d
    BY ProductMonotone
<1>3. a * c \in Nat /\ b * c \in Nat /\ b * d \in Nat
    BY ProductInNat
<1>. QED
    BY <1>1, <1>2, <1>3

\* A common positive factor cancels.
LEMMA Cancel ==
    ASSUME NEW a \in Nat, NEW b \in Nat, NEW c \in Nat \ {0}, a * c <= b * c
    PROVE  a <= b
    BY SMT

\* A larger dividend has no smaller quotient; quotient and rest are unique.
LEMMA QuotientMonotone ==
    ASSUME NEW a \in Nat, NEW b \in Nat, NEW c \in Nat \ {0}, a <= b
    PROVE  a \div c <= b \div c
<1>. DEFINE x == a \div c
            y == b \div c
<1>1. x \in Nat /\ y \in Nat /\ x * c <= a /\ b < y * c + c
    BY FloorBounds
<1>. HIDE DEF x, y
<1>2. (y + 1) * c = y * c + c
    BY <1>1, SMT
<1>3. x * c < (y + 1) * c
    BY <1>1, <1>2, ProductInNat
<1>4. SUFFICES ASSUME y + 1 <= x PROVE FALSE
    BY <1>1 DEF x, y
<1>5. (y + 1) * c <= x * c
    BY <1>1, <1>4, ProductMonotone
<1>. QED
    BY <1>1, <1>3, <1>5, ProductInNat

LEMMA DivisionParts ==
    ASSUME NEW a \in Nat, NEW c \in Nat \ {0}
    PROVE  /\ a \div c \in Nat /\ a % c \in 0..(c - 1)
           /\ a = (a \div c) * c + (a % c)
    BY SMT

LEMMA DivisionUnique ==
    ASSUME NEW x \in Nat, NEW y \in Nat, NEW c \in Nat \ {0}, NEW r \in Nat, NEW t \in Nat,
           r < c, t < c, x * c + r = y * c + t
    PROVE  x = y /\ r = t
<1>1. ASSUME NEW u \in Nat, NEW v \in Nat, u < v PROVE u * c + c <= v * c
  <2>1. (u + 1) * c <= v * c
      BY <1>1, ProductMonotone
  <2>2. (u + 1) * c = u * c + c
      BY SMT
  <2>. QED
      BY <2>1, <2>2
<1>2. x * c \in Nat /\ y * c \in Nat
    BY ProductInNat
<1>3. ~(x < y)
    BY <1>1, <1>2
<1>4. ~(y < x)
    BY <1>1, <1>2
<1>5. x = y
    BY <1>3, <1>4
<1>. QED
    BY <1>2, <1>5

LEMMA QuotientAtLeast ==
    ASSUME NEW k \in Nat, NEW a \in Nat, NEW c \in Nat \ {0}, k * c + 0 <= a
    PROVE  k <= a \div c /\ a \div c \in Nat
<1>1. k * c \in Nat
    BY ProductInNat
<1>2. (k * c) \div c = k
    BY SMT
<1>3. (k * c) \div c <= a \div c
    BY <1>1, QuotientMonotone
<1>. QED
    BY <1>2, <1>3, FloorBounds

\* calculateScaledAmount rounds down by less than one share.
LEMMA ScaledBounds ==
    ASSUME NEW amount \in Nat, NEW factor \in Nat \ {0}
    PROVE  LET shares == CalculateScaledAmount(amount, factor)
           IN  /\ shares \in Nat
               /\ shares * factor <= amount * Wad
               /\ amount * Wad < (shares + 1) * factor
<1>1. amount * Wad \in Nat
    BY WadAssumption, ProductInNat
<1>. DEFINE q == (amount * Wad) \div factor
<1>2. q \in Nat /\ q * factor <= amount * Wad /\ amount * Wad < q * factor + factor
    BY <1>1, FloorBounds
<1>. HIDE DEF q
<1>3. (q + 1) * factor = q * factor + factor
    BY <1>2, SMT
<1>. QED
    BY <1>2, <1>3 DEF CalculateScaledAmount, q

\* calculateNormalizedAmount rounds down by less than one token.
LEMMA NormalizedBounds ==
    ASSUME NEW shares \in Nat, NEW factor \in Nat
    PROVE  LET amount == CalculateNormalizedAmount(shares, factor)
           IN  /\ amount \in Nat
               /\ amount * Wad <= shares * factor
               /\ shares * factor < amount * Wad + Wad
<1>1. shares * factor \in Nat
    BY ProductInNat
<1>. QED
    BY <1>1, WadAssumption, FloorBounds DEF CalculateNormalizedAmount

\* Settlement pays no more than the normalised amount, and all of it at Wad.
LEMMA PayoutBounds ==
    ASSUME NEW shares \in Nat, NEW factor \in Nat, NEW settlement \in 0..Wad
    PROVE  /\ CalculateSettlementPayout(shares, factor, settlement) \in Nat
           /\ CalculateSettlementPayout(shares, factor, settlement)
                <= CalculateNormalizedAmount(shares, factor)
           /\ settlement = Wad => CalculateSettlementPayout(shares, factor, settlement)
                                    = CalculateNormalizedAmount(shares, factor)
<1>. DEFINE n == CalculateNormalizedAmount(shares, factor)
            p == (n * settlement) \div Wad
<1>1. n \in Nat
    BY NormalizedBounds
<1>2. CalculateSettlementPayout(shares, factor, settlement) = p
    BY DEF CalculateSettlementPayout, CalculateNormalizedAmount
<1>. HIDE DEF n
<1>3. Wad \in Nat \ {0} /\ settlement \in Nat /\ settlement <= Wad
    BY WadAssumption
<1>4. n * settlement \in Nat /\ n * settlement <= n * Wad
    BY <1>1, <1>3, ProductInNat, ProductMonotone
<1>5. p \in Nat /\ p * Wad <= n * settlement /\ n * settlement < p * Wad + Wad
    BY <1>3, <1>4, FloorBounds
<1>. HIDE DEF p
<1>6. p <= n
    BY <1>1, <1>3, <1>4, <1>5, SMT
<1>7. ASSUME settlement = Wad PROVE p = n
    <2>1. n * Wad < p * Wad + Wad
        BY <1>5, <1>7
    <2>2. n <= p
        BY <1>1, <1>3, <1>5, <2>1, SMT
    <2>. QED
        BY <1>1, <1>5, <1>6, <2>2
<1>. QED
    BY <1>2, <1>5, <1>6, <1>7 DEF n

\* Withdrawing the displayed claim, shares converted to tokens and back at one
\* factor, never asks for more shares than there are and strands at most one.
\* This is the rounding that the full-withdrawal sentinel exists for.
THEOREM RoundTripStrandsOneShare ==
    ASSUME NEW shares \in Nat, NEW factor \in Nat, Wad <= factor
    PROVE  LET back == CalculateScaledAmount(CalculateNormalizedAmount(shares, factor), factor)
           IN  /\ back <= shares
               /\ shares <= back + 1
<1>. DEFINE n == CalculateNormalizedAmount(shares, factor)
            back == CalculateScaledAmount(n, factor)
<1>1. Wad \in Nat \ {0} /\ factor \in Nat \ {0}
    BY WadAssumption
<1>2. n \in Nat /\ n * Wad <= shares * factor /\ shares * factor < n * Wad + Wad
    BY NormalizedBounds
<1>. HIDE DEF n
<1>3. back \in Nat /\ back * factor <= n * Wad /\ n * Wad < (back + 1) * factor
    BY <1>1, <1>2, ScaledBounds
<1>. HIDE DEF back
<1>4. back * factor <= shares * factor
    BY <1>1, <1>2, <1>3, ProductInNat
<1>5. shares * factor < (back + 1) * factor + factor
    BY <1>1, <1>2, <1>3, ProductInNat
<1>6. back <= shares
    BY <1>1, <1>3, <1>4, SMT
<1>7. shares < back + 2
    BY <1>1, <1>3, <1>5, SMT
<1>. QED
    BY <1>3, <1>6, <1>7 DEF back, n
=============================================================================
