-------------------------- MODULE LoanInterestProofs --------------------------
(***************************************************************************)
(* Proofs about LoanInterest, for any rates, amounts and times: what an    *)
(* accrual does to the account, and that the quote follows it exactly.     *)
(***************************************************************************)
EXTENDS LoanInterest, WadMathProofs, WellFoundedInduction

-----------------------------------------------------------------------------
(* Induction and recursion.  What holds of every number is a set, and a    *)
(* recursive function is a choice among the functions that solve it.       *)

\* Numbers are well-founded, so a set of numbers has a least element ...
LEMMA LeastNatural ==
    ASSUME NEW T, T \subseteq Nat, T # {}
    PROVE  \E n \in T : \A m \in T : n <= m
<1>. DEFINE Less == {p \in Nat \X Nat : p[1] < p[2]}
<1>1. Less = OpToRel(<, Nat)
    BY DEF OpToRel
<1>2. IsWellFoundedOn(Less, Nat)
    BY <1>1, NatLessThanWellFounded
<1>3. \A m, n \in Nat : m < n => <<m, n>> \in Less
    OBVIOUS
<1>. HIDE DEF Less
<1>4. PICK n \in T : \A m \in T : ~(<<m, n>> \in Less)
    BY <1>2, WFMin
<1>5. \A m \in T : ~(m < n)
    BY <1>3, <1>4
<1>. QED
    BY <1>4, <1>5

\* ... and a set that has zero and every successor of its elements has them all.
LEMMA SetInduction ==
    ASSUME NEW P, 0 \in P, \A n \in Nat : n \in P => n + 1 \in P
    PROVE  Nat \subseteq P
<1>. DEFINE T == Nat \ P
<1>1. SUFFICES ASSUME T # {} PROVE FALSE
    OBVIOUS
<1>2. PICK n \in T : \A m \in T : n <= m
    BY <1>1, LeastNatural
<1>3. n # 0 /\ n - 1 \in Nat
    BY <1>2
<1>4. n - 1 \notin T
    BY <1>2, <1>3
<1>. QED
    BY <1>2, <1>3, <1>4

\* A recursion on one earlier value: out where the rank is zero, and elsewhere a step
\* from the value at prev.
Recursion(S, V, rank, prev, out, step) ==
    /\ rank \in [S -> Nat] /\ prev \in [S -> S]
    /\ out \in [S -> V] /\ step \in [S \X V -> V]
    /\ \A s \in S : rank[s] > 0 => rank[prev[s]] < rank[s]

Solution(f, S, V, rank, prev, out, step) ==
    /\ f \in [S -> V]
    /\ \A s \in S : f[s] = IF rank[s] = 0 THEN out[s] ELSE step[<<s, f[prev[s]]>>]

LEMMA RecursionHasSolution ==
    ASSUME NEW S, NEW V, NEW rank, NEW prev, NEW out, NEW step,
           Recursion(S, V, rank, prev, out, step)
    PROVE  \E f : Solution(f, S, V, rank, prev, out, step)
<1>. USE DEF Recursion, Solution
<1>. DEFINE sols == [n \in Nat |-> {g \in [S -> V] : \A s \in S : rank[s] < n =>
                        g[s] = IF rank[s] = 0 THEN out[s] ELSE step[<<s, g[prev[s]]>>]}]
            Solvable == {n \in Nat : sols[n] # {}}
<1>1. \A n \in Nat : sols[n] \subseteq [S -> V]
    OBVIOUS
<1>2. \A n \in Nat : \A g \in sols[n], s \in S : rank[s] < n =>
          g[s] = IF rank[s] = 0 THEN out[s] ELSE step[<<s, g[prev[s]]>>]
    OBVIOUS
<1>3. ASSUME NEW n \in Solvable PROVE n + 1 \in Solvable
  <2>1. PICK g \in sols[n] : TRUE
      OBVIOUS
  <2>. DEFINE h == [s \in S |-> IF rank[s] = 0 THEN out[s] ELSE step[<<s, g[prev[s]]>>]]
  <2>2. g \in [S -> V] /\ h \in [S -> V] /\ n \in Nat
      BY <1>1, <2>1
  <2>3. \A s \in S : rank[s] < n => h[s] = g[s]
      BY <1>2, <2>2
  <2>4. \A s \in S : rank[s] < n + 1 =>
            h[s] = IF rank[s] = 0 THEN out[s] ELSE step[<<s, h[prev[s]]>>]
    <3>1. SUFFICES ASSUME NEW s \in S, rank[s] < n + 1, rank[s] # 0
                   PROVE  g[prev[s]] = h[prev[s]]
        OBVIOUS
    <3>2. prev[s] \in S /\ rank[prev[s]] < n
      <4>1. prev[s] \in S /\ rank[s] \in Nat
          OBVIOUS
      <4>2. rank[prev[s]] \in Nat /\ rank[prev[s]] < rank[s]
          BY <3>1, <4>1
      <4>. QED
          BY <2>2, <3>1, <4>1, <4>2
    <3>. QED
        BY <2>3, <3>2
  <2>5. n + 1 \in Nat
      BY <2>2
  <2>. HIDE DEF h
  <2>6. h \in sols[n + 1]
      BY <2>2, <2>4, <2>5
  <2>. QED
      BY <2>5, <2>6
<1>4. 0 \in Solvable
  <2>1. \A s \in S : ~(rank[s] < 0)
      OBVIOUS
  <2>2. sols[0] = [S -> V]
      BY <2>1
  <2>3. [s \in S |-> out[s]] \in [S -> V]
      OBVIOUS
  <2>. QED
      BY <2>2, <2>3
<1>5. \A n \in Nat : sols[n] # {}
  <2>. HIDE DEF Solvable
  <2>1. \A n \in Nat : n \in Solvable => n + 1 \in Solvable
      BY <1>3
  <2>2. Nat \subseteq Solvable
      BY <1>4, <2>1, SetInduction
  <2>. QED
      BY <2>2 DEF Solvable
<1>. HIDE DEF sols
<1>6. ASSUME NEW n \in Nat, NEW l \in Nat, NEW g \in sols[n], NEW h \in sols[l],
             NEW t \in S, rank[t] < n, rank[t] < l
      PROVE  g[t] = h[t]
  <2>. DEFINE bad == {s \in S : rank[s] < n /\ rank[s] < l /\ g[s] # h[s]}
              ranks == {rank[s] : s \in bad}
  <2>1. SUFFICES ASSUME bad # {} PROVE FALSE
      BY <1>6
  <2>2. ranks \subseteq Nat
      OBVIOUS
  <2>3. ranks # {}
      BY <2>1
  <2>4. \A s \in bad : rank[s] \in ranks
      OBVIOUS
  <2>5. \A r \in ranks : \E s \in bad : rank[s] = r
      OBVIOUS
  <2>. HIDE DEF ranks
  <2>6. PICK r \in ranks : \A q \in ranks : r <= q
      BY <2>2, <2>3, LeastNatural
  <2>7. PICK s \in bad : rank[s] = r
      BY <2>5
  <2>8. g[s] # h[s] /\ rank[s] < n /\ rank[s] < l /\ s \in S
      BY <2>7
  <2>9. /\ g[s] = IF rank[s] = 0 THEN out[s] ELSE step[<<s, g[prev[s]]>>]
        /\ h[s] = IF rank[s] = 0 THEN out[s] ELSE step[<<s, h[prev[s]]>>]
      BY <1>2, <2>8
  <2>10. rank[s] # 0 /\ g[prev[s]] # h[prev[s]]
      BY <2>8, <2>9
  <2>11. prev[s] \in S /\ rank[prev[s]] < rank[s] /\ rank[s] \in Nat /\ rank[prev[s]] \in Nat
    <3>1. prev[s] \in S /\ rank[s] \in Nat
        BY <2>8
    <3>. QED
        BY <2>8, <2>10, <3>1
  <2>12. prev[s] \in bad
      BY <2>8, <2>10, <2>11
  <2>13. rank[s] <= rank[prev[s]]
      BY <2>4, <2>6, <2>7, <2>12
  <2>. QED
      BY <2>11, <2>13
<1>. DEFINE pick == [n \in Nat |-> CHOOSE g \in sols[n] : TRUE]
            f == [s \in S |-> pick[rank[s] + 1][s]]
<1>7. ASSUME NEW n \in Nat PROVE pick[n] \in sols[n]
    BY <1>5
<1>. HIDE DEF pick
<1>8. f \in [S -> V]
  <2>1. ASSUME NEW s \in S PROVE pick[rank[s] + 1] \in [S -> V]
    <3>1. rank[s] + 1 \in Nat
        OBVIOUS
    <3>. QED
        BY <1>1, <1>7, <3>1
  <2>. QED
      BY <2>1
<1>9. ASSUME NEW s \in S
      PROVE  f[s] = IF rank[s] = 0 THEN out[s] ELSE step[<<s, f[prev[s]]>>]
  <2>. DEFINE n == rank[s] + 1
              l == rank[prev[s]] + 1
              g == pick[n]
              h == pick[l]
  <2>1. f[s] = g[s] /\ f[prev[s]] = h[prev[s]]
      OBVIOUS
  <2>2. n \in Nat /\ l \in Nat /\ prev[s] \in S /\ rank[s] < n /\ rank[prev[s]] < l
        /\ (rank[s] # 0 => rank[prev[s]] < n)
    <3>1. prev[s] \in S /\ rank[s] \in Nat
        OBVIOUS
    <3>2. rank[prev[s]] \in Nat /\ (rank[s] # 0 => rank[prev[s]] < rank[s])
        BY <3>1
    <3>. QED
        BY <3>1, <3>2
  <2>. HIDE DEF n, l
  <2>3. g \in sols[n] /\ h \in sols[l]
      BY <1>7, <2>2
  <2>. HIDE DEF g, h, f
  <2>4. g[s] = IF rank[s] = 0 THEN out[s] ELSE step[<<s, g[prev[s]]>>]
      BY <1>2, <2>2, <2>3
  <2>5. rank[s] # 0 => g[prev[s]] = h[prev[s]]
      BY <1>6, <2>2, <2>3
  <2>. QED
      BY <2>1, <2>4, <2>5
<1>. QED
    BY <1>8, <1>9

-----------------------------------------------------------------------------
(* Powers                                                                  *)

LEMMA WadTyped == Wad \in Nat /\ Wad > 0 /\ MaxU128 \in Nat /\ Overflow \notin Nat
    BY WadAssumption, OverflowAssumption

LEMMA MulWadTyped ==
    ASSUME NEW a \in Fixed, NEW b \in Fixed
    PROVE  MulWad(a, b) \in Fixed
<1>1. CASE a = Overflow \/ b = Overflow
    BY <1>1 DEF MulWad, Fixed
<1>2. CASE a \in Nat /\ b \in Nat
  <2>. DEFINE p == a * b
  <2>1. p \in Nat /\ Wad \in Nat \ {0}
      BY <1>2, ProductInNat, WadTyped
  <2>2. MulWad(a, b) = Overflow \/ MulWad(a, b) = p \div Wad
      BY DEF MulWad
  <2>. HIDE DEF p
  <2>. QED
      BY <2>1, <2>2, FloorBounds DEF Fixed
<1>. QED
    BY <1>1, <1>2 DEF Fixed

LEMMA TurnTyped ==
    ASSUME NEW r \in Fixed, NEW b \in Fixed, NEW e \in Nat
    PROVE  Turn(r, b, e) \in Fixed \X Fixed \X Nat
<1>1. MulWad(r, b) \in Fixed /\ MulWad(b, b) \in Fixed /\ e \div 2 \in Nat
    BY MulWadTyped
<1>. QED
    BY <1>1 DEF Turn

LEMMA PowLoopUnfolds ==
    ASSUME NEW r \in Fixed, NEW b \in Fixed, NEW e \in Nat
    PROVE  PowLoop[<<r, b, e>>] = IF e = 0 THEN r ELSE PowLoop[Turn(r, b, e)]
<1>. DEFINE S == Fixed \X Fixed \X Nat
            rank == [s \in S |-> s[3]]
            prev == [s \in S |-> IF s[3] = 0 THEN s ELSE Turn(s[1], s[2], s[3])]
            out == [s \in S |-> s[1]]
            step == [p \in S \X Fixed |-> p[2]]
            Unfolds(f) == f = [s \in S |-> IF s[3] = 0 THEN s[1]
                                           ELSE f[Turn(s[1], s[2], s[3])]]
<1>1. rank \in [S -> Nat] /\ out \in [S -> Fixed]
    OBVIOUS
<1>2. step \in [S \X Fixed -> Fixed]
    OBVIOUS
<1>3. prev \in [S -> S]
  <2>1. \A s \in S : prev[s] \in S
      BY TurnTyped
  <2>. QED
      BY <2>1
<1>4. \A s \in S : rank[s] > 0 => rank[prev[s]] < rank[s]
  <2>1. ASSUME NEW s \in S, rank[s] > 0 PROVE rank[prev[s]] < rank[s]
    <3>1. prev[s] = Turn(s[1], s[2], s[3]) /\ s[3] \in Nat /\ s[3] > 0
        BY <2>1
    <3>2. Turn(s[1], s[2], s[3])[3] = s[3] \div 2
        BY DEF Turn
    <3>3. prev[s] \in S
        BY <1>3
    <3>4. rank[prev[s]] = s[3] \div 2
        BY <3>1, <3>2, <3>3
    <3>. QED
        BY <3>1, <3>4
  <2>. QED
      BY <2>1
<1>5. PICK f : Solution(f, S, Fixed, rank, prev, out, step)
  <2>. HIDE DEF S, rank, prev, out, step
  <2>1. Recursion(S, Fixed, rank, prev, out, step)
      BY <1>1, <1>2, <1>3, <1>4, Zenon DEF Recursion
  <2>. QED
      BY <2>1, RecursionHasSolution, Zenon
<1>5a. f \in [S -> Fixed]
       /\ \A s \in S : f[s] = IF rank[s] = 0 THEN out[s] ELSE step[<<s, f[prev[s]]>>]
  <2>. HIDE DEF S, rank, prev, out, step
  <2>. QED
      BY <1>5, Zenon DEF Solution
<1>6. \A s \in S : f[s] = IF s[3] = 0 THEN s[1] ELSE f[Turn(s[1], s[2], s[3])]
  <2>2. \A s \in S : prev[s] \in S
      BY <1>3
  <2>3. \A s \in S : f[prev[s]] \in Fixed
      BY <1>5a, <2>2
  <2>4. \A s \in S : step[<<s, f[prev[s]]>>] = f[prev[s]]
      BY <2>3
  <2>. QED
      BY <1>5a, <2>4
<1>7. Unfolds(f)
    BY <1>5a, <1>6
<1>8. PowLoop = CHOOSE g : Unfolds(g)
    BY DEF PowLoop
<1>9. Unfolds(PowLoop)
  <2>. HIDE DEF Unfolds
  <2>. QED
      BY <1>7, <1>8, Zenon
<1>. QED
    BY <1>9

Raised(x, n) == Exact[<<x, n>>]

LEMMA RaisedUnfolds ==
    ASSUME NEW x \in Nat
    PROVE  /\ Raised(x, 0) = 1
           /\ \A n \in Nat : /\ Raised(x, n) \in Nat
                             /\ Raised(x, n + 1) = x * Raised(x, n)
<1>. DEFINE S == Nat \X Nat
            rank == [s \in S |-> s[2]]
            prev == [s \in S |-> IF s[2] = 0 THEN s ELSE <<s[1], s[2] - 1>>]
            out == [s \in S |-> 1]
            step == [p \in S \X Nat |-> p[1][1] * p[2]]
            Unfolds(f) == f = [s \in S |-> IF s[2] = 0 THEN 1
                                           ELSE s[1] * f[<<s[1], s[2] - 1>>]]
<1>1. rank \in [S -> Nat] /\ out \in [S -> Nat]
    OBVIOUS
<1>2. step \in [S \X Nat -> Nat]
  <2>1. \A p \in S \X Nat : p[1][1] * p[2] \in Nat
      BY ProductInNat
  <2>. QED
      BY <2>1
<1>3. prev \in [S -> S]
    OBVIOUS
<1>4. \A s \in S : rank[s] > 0 => rank[prev[s]] < rank[s]
    OBVIOUS
<1>5. PICK f : Solution(f, S, Nat, rank, prev, out, step)
  <2>. HIDE DEF S, rank, prev, out, step
  <2>1. Recursion(S, Nat, rank, prev, out, step)
      BY <1>1, <1>2, <1>3, <1>4, Zenon DEF Recursion
  <2>. QED
      BY <2>1, RecursionHasSolution, Zenon
<1>5a. f \in [S -> Nat]
       /\ \A s \in S : f[s] = IF rank[s] = 0 THEN out[s] ELSE step[<<s, f[prev[s]]>>]
  <2>. HIDE DEF S, rank, prev, out, step
  <2>. QED
      BY <1>5, Zenon DEF Solution
<1>6. \A s \in S : f[s] = IF s[2] = 0 THEN 1 ELSE s[1] * f[<<s[1], s[2] - 1>>]
  <2>2. \A s \in S : prev[s] \in S
      BY <1>3
  <2>3. \A s \in S : f[prev[s]] \in Nat
      BY <1>5a, <2>2
  <2>4. \A s \in S : step[<<s, f[prev[s]]>>] = s[1] * f[prev[s]]
      BY <2>3
  <2>. QED
      BY <1>5a, <2>4
<1>7. Unfolds(f)
    BY <1>5a, <1>6
<1>8. Exact = CHOOSE g : Unfolds(g)
    BY DEF Exact
<1>9. Unfolds(Exact)
  <2>. HIDE DEF Unfolds
  <2>. QED
      BY <1>7, <1>8, Zenon
<1>10. \A n \in Nat : Raised(x, n) = IF n = 0 THEN 1 ELSE x * Raised(x, n - 1)
    BY <1>9 DEF Raised
<1>11. Raised(x, 0) = 1 /\ \A n \in Nat : Raised(x, n + 1) = x * Raised(x, n)
    BY <1>10
<1>. DEFINE typed == {n \in Nat : Raised(x, n) \in Nat}
<1>12. ASSUME NEW n \in Nat, n \in typed PROVE n + 1 \in typed
    BY <1>11, <1>12, ProductInNat
<1>13. 0 \in typed
    BY <1>11
<1>14. Nat \subseteq typed
  <2>. HIDE DEF typed
  <2>. QED
      BY <1>12, <1>13, SetInduction
<1>. QED
    BY <1>11, <1>14

LEMMA RaisedSums ==
    ASSUME NEW x \in Nat, NEW m \in Nat, NEW n \in Nat
    PROVE  Raised(x, m + n) = Raised(x, m) * Raised(x, n)
<1>. DEFINE T == {k \in Nat : Raised(x, m + k) = Raised(x, m) * Raised(x, k)}
<1>1. ASSUME NEW k \in Nat, k \in T PROVE k + 1 \in T
  <2>. DEFINE a == Raised(x, m)
              b == Raised(x, k)
  <2>1. a \in Nat /\ b \in Nat
      BY RaisedUnfolds
  <2>1a. k + 1 \in Nat
      OBVIOUS
  <2>2. Raised(x, m + (k + 1)) = x * Raised(x, m + k)
    <3>1. m + (k + 1) = (m + k) + 1 /\ m + k \in Nat
        OBVIOUS
    <3>2. Raised(x, (m + k) + 1) = x * Raised(x, m + k)
        BY <3>1, RaisedUnfolds
    <3>. QED
        BY <3>1, <3>2
  <2>3. Raised(x, k + 1) = x * b
      BY RaisedUnfolds
  <2>4. Raised(x, m + k) = a * b
      BY <1>1
  <2>. HIDE DEF a, b
  <2>5. x * (a * b) = a * (x * b)
      BY <2>1, SMT
  <2>. QED
      BY <2>1a, <2>2, <2>3, <2>4, <2>5 DEF a
<1>2. 0 \in T
  <2>1. Raised(x, m) \in Nat /\ Raised(x, 0) = 1 /\ m + 0 = m
      BY RaisedUnfolds
  <2>. QED
      BY <2>1
<1>3. Nat \subseteq T
  <2>. HIDE DEF T
  <2>. QED
      BY <1>1, <1>2, SetInduction
<1>. QED
    BY <1>3

\* x stands for the n-th power of base: it fits, is at least one, and is below the
\* exact power by the roundings of n - 1 products.
Close(x, base, n) ==
    /\ x \in Nat /\ x >= Wad
    /\ n = 0 => x = Wad
    /\ n > 0 => /\ x * Raised(Wad, n - 1) <= Raised(base, n)
                /\ Raised(base, n) <= x * Raised(Wad + 1, n - 1)

CloseIfItFits(x, base, n) == x = Overflow \/ Close(x, base, n)

LEMMA MulWadValue ==
    ASSUME NEW x \in Nat, NEW y \in Nat, MulWad(x, y) # Overflow
    PROVE  LET z == MulWad(x, y)
           IN  /\ z \in Nat /\ z * Wad <= x * y /\ x * y < z * Wad + Wad
               /\ x * y <= MaxU128
               /\ x = Wad => z = y
               /\ y = Wad => z = x
               /\ y >= Wad => z >= x
<1>. DEFINE p == x * y
            z == p \div Wad
<1>1. p \in Nat /\ Wad \in Nat \ {0} /\ MaxU128 \in Nat
    BY ProductInNat, WadTyped
<1>2. MulWad(x, y) = z /\ p <= MaxU128
    BY <1>1 DEF MulWad
<1>3. (x = Wad => p = y * Wad) /\ (y = Wad => p = x * Wad) /\ (y >= Wad => x * Wad <= p)
    BY <1>1, ProductMonotone, SMT
<1>. HIDE DEF p
<1>4. z \in Nat /\ z * Wad <= p /\ p < z * Wad + Wad
    BY <1>1, FloorBounds
<1>. HIDE DEF z
<1>5. (x = Wad => z = y) /\ (y = Wad => z = x)
    BY <1>1, <1>3, <1>4, SMT
<1>6. y >= Wad => z >= x
    BY <1>1, <1>3, <1>4, SMT
<1>. QED
    BY <1>2, <1>4, <1>5, <1>6 DEF p

LEMMA CloseProduct ==
    ASSUME NEW base \in Nat, NEW m \in Nat, NEW n \in Nat \ {0}, NEW x \in Fixed, NEW y \in Fixed,
           CloseIfItFits(x, base, m), CloseIfItFits(y, base, n)
    PROVE  CloseIfItFits(MulWad(x, y), base, m + n)
<1>. DEFINE z == MulWad(x, y)
<1>1. SUFFICES ASSUME z # Overflow PROVE Close(z, base, m + n)
    BY DEF CloseIfItFits
<1>2. x # Overflow /\ y # Overflow
    BY <1>1 DEF MulWad
<1>3. Close(x, base, m) /\ Close(y, base, n)
    BY <1>2 DEF CloseIfItFits
<1>4. x \in Nat /\ y \in Nat /\ x >= Wad /\ y >= Wad /\ Wad \in Nat /\ Wad > 0
    BY <1>3, WadTyped DEF Close
<1>5. /\ z \in Nat /\ z * Wad <= x * y /\ x * y < z * Wad + Wad
      /\ (x = Wad => z = y) /\ z >= x
    BY <1>1, <1>4, MulWadValue
<1>6. CASE m = 0
  <2>1. z = y /\ m + n = n
      BY <1>3, <1>5, <1>6 DEF Close
  <2>. QED
      BY <1>3, <2>1, Zenon
<1>7. CASE m # 0
  <2>. DEFINE i == m - 1
              j == n - 1
              bm == Raised(base, m)
              bn == Raised(base, n)
              wi == Raised(Wad, i)
              wj == Raised(Wad, j)
              ui == Raised(Wad + 1, i)
              uj == Raised(Wad + 1, j)
              up == Wad + 1
  <2>1. i \in Nat /\ j \in Nat /\ m + n > 0 /\ (m + n) - 1 = (i + j) + 1 /\ up \in Nat
        /\ m + n \in Nat /\ i + j \in Nat
      BY <1>4, <1>7
  <2>2. /\ bm \in Nat /\ bn \in Nat /\ wi \in Nat /\ wj \in Nat /\ ui \in Nat /\ uj \in Nat
      BY <1>4, <2>1, RaisedUnfolds
  <2>3. x * wi <= bm /\ bm <= x * ui /\ y * wj <= bn /\ bn <= y * uj
      BY <1>3, <1>7 DEF Close
  <2>4. Raised(base, m + n) = bm * bn
      BY RaisedSums
  <2>5. Raised(Wad, (m + n) - 1) = Wad * (wi * wj)
      BY <1>4, <2>1, RaisedUnfolds, RaisedSums
  <2>6. Raised(Wad + 1, (m + n) - 1) = up * (ui * uj)
      BY <1>4, <2>1, RaisedUnfolds, RaisedSums
  <2>. HIDE DEF i, j, bm, bn, wi, wj, ui, uj, up, z
  <2>7. z * (Wad * (wi * wj)) <= bm * bn
    <3>. DEFINE w == wi * wj
                xw == x * wi
                yw == y * wj
    <3>1. w \in Nat /\ x * y \in Nat /\ z * Wad \in Nat /\ xw \in Nat /\ yw \in Nat
        BY <1>4, <1>5, <2>2, ProductInNat
    <3>2. (x * y) * w = xw * yw
        BY <1>4, <2>2, SMT
    <3>3. xw * yw <= bm * bn
        BY <2>2, <2>3, <3>1, ProductsMonotone
    <3>. HIDE DEF w, xw, yw
    <3>4. (z * Wad) * w <= (x * y) * w
        BY <1>5, <3>1, ProductMonotone
    <3>5. z * (Wad * w) = (z * Wad) * w
        BY <1>4, <1>5, <3>1, SMT
    <3>6. z * (Wad * w) \in Nat /\ (x * y) * w \in Nat /\ xw * yw \in Nat /\ bm * bn \in Nat
        BY <1>4, <1>5, <2>2, <3>1, ProductInNat
    <3>7. z * (Wad * w) <= bm * bn
        BY <3>2, <3>3, <3>4, <3>5, <3>6
    <3>. QED
        BY <3>7 DEF w
  <2>8. bm * bn <= z * (up * (ui * uj))
    <3>. DEFINE w == ui * uj
                xw == x * ui
                yw == y * uj
    <3>1. w \in Nat /\ x * y \in Nat /\ z * up \in Nat /\ xw \in Nat /\ yw \in Nat
        BY <1>4, <1>5, <2>1, <2>2, ProductInNat
    <3>2. (x * y) * w = xw * yw
        BY <1>4, <2>2, SMT
    <3>3. bm * bn <= xw * yw
        BY <2>2, <2>3, <3>1, ProductsMonotone
    <3>. HIDE DEF w, xw, yw
    <3>4. z * up = z * Wad + z
        BY <1>4, <1>5, SMT DEF up
    <3>4a. z * Wad \in Nat /\ z >= Wad
        BY <1>4, <1>5, ProductInNat
    <3>4b. x * y <= z * up
        BY <1>4, <1>5, <3>1, <3>4, <3>4a
    <3>5. (x * y) * w <= (z * up) * w
        BY <3>1, <3>4b, ProductMonotone
    <3>6. z * (up * w) = (z * up) * w
        BY <1>5, <2>1, <3>1, SMT
    <3>7. (z * up) * w \in Nat /\ (x * y) * w \in Nat /\ xw * yw \in Nat /\ bm * bn \in Nat
        BY <2>2, <3>1, ProductInNat
    <3>8. bm * bn <= z * (up * w)
        BY <3>2, <3>3, <3>5, <3>6, <3>7
    <3>. QED
        BY <3>8 DEF w
  <2>9. z \in Nat /\ z >= Wad
      BY <1>4, <1>5
  <2>. QED
      BY <2>1, <2>4, <2>5, <2>6, <2>7, <2>8, <2>9 DEF Close, z
<1>. QED
    BY <1>6, <1>7

\* A turn leaves the exponent that is still to be reached as it is.
LEMMA TurnExponents ==
    ASSUME NEW ee \in Nat, ee # 0, NEW jj \in Nat, NEW kk \in Nat
    PROVE  (IF ee % 2 = 1 THEN jj + kk ELSE jj)
                + (ee \div 2) * (IF ee > 1 THEN kk + kk ELSE kk)
              = jj + ee * kk
<1>. DEFINE h == ee \div 2
            x == h * kk
<1>1. x \in Nat /\ h \in Nat
    BY ProductInNat
<1>2. h * (kk + kk) = x + x
    BY <1>1, SMT
<1>3. /\ ee % 2 = 1 => ee = 2 * h + 1
      /\ ee % 2 # 1 => ee = 2 * h /\ ee > 1
      /\ ee = 1 => h = 0
    OBVIOUS
<1>4. (2 * h + 1) * kk = x + x + kk /\ (2 * h) * kk = x + x
    BY <1>1, SMT
<1>5. CASE ee = 1
    BY <1>3, <1>5
<1>6. CASE ee # 1 /\ ee % 2 = 1
  <2>1. ee * kk = x + x + kk
      BY <1>3, <1>4, <1>6
  <2>2. ee > 1
      BY <1>6
  <2>. HIDE DEF x, h
  <2>. QED
      BY <1>1, <1>2, <1>6, <2>1, <2>2 DEF h
<1>7. CASE ee % 2 # 1
  <2>1. ee * kk = x + x /\ ee > 1
      BY <1>3, <1>4, <1>7
  <2>. HIDE DEF x, h
  <2>. QED
      BY <1>1, <1>2, <1>7, <2>1 DEF h
<1>. QED
    BY <1>5, <1>6, <1>7

LEMMA LoopIsClose ==
    ASSUME NEW base \in Nat, NEW r \in Fixed, NEW b \in Fixed, NEW e \in Nat,
           NEW j \in Nat, NEW k \in Nat \ {0},
           CloseIfItFits(r, base, j), CloseIfItFits(b, base, k)
    PROVE  CloseIfItFits(PowLoop[<<r, b, e>>], base, j + e * k)
<1>. DEFINE T == {n \in Nat : \A rr, bb \in Fixed, ee \in 0..n, jj \in Nat, kk \in Nat \ {0} :
                    CloseIfItFits(rr, base, jj) /\ CloseIfItFits(bb, base, kk) =>
                        CloseIfItFits(PowLoop[<<rr, bb, ee>>], base, jj + ee * kk)}
<1>1. ASSUME NEW rr \in Fixed, NEW bb \in Fixed, NEW jj \in Nat, NEW kk \in Nat \ {0},
             CloseIfItFits(rr, base, jj)
      PROVE  CloseIfItFits(PowLoop[<<rr, bb, 0>>], base, jj + 0 * kk)
  <2>1. PowLoop[<<rr, bb, 0>>] = rr
      BY PowLoopUnfolds
  <2>2. jj + 0 * kk = jj
      OBVIOUS
  <2>. QED
      BY <1>1, <2>1, <2>2
<1>2. 0 \in T
  <2>1. \A ee \in 0..0 : ee = 0
      OBVIOUS
  <2>. QED
      BY <1>1, <2>1
<1>3. ASSUME NEW n \in Nat, n \in T PROVE n + 1 \in T
  <2>1. ASSUME NEW rr \in Fixed, NEW bb \in Fixed, NEW ee \in 0..(n + 1),
               NEW jj \in Nat, NEW kk \in Nat \ {0},
               CloseIfItFits(rr, base, jj), CloseIfItFits(bb, base, kk)
        PROVE  CloseIfItFits(PowLoop[<<rr, bb, ee>>], base, jj + ee * kk)
    <3>1. CASE ee = 0
        BY <1>1, <2>1, <3>1
    <3>2. CASE ee # 0
      <4>. DEFINE h == ee \div 2
                  r1 == IF ee % 2 = 1 THEN MulWad(rr, bb) ELSE rr
                  b1 == IF ee > 1 THEN MulWad(bb, bb) ELSE bb
                  j1 == IF ee % 2 = 1 THEN jj + kk ELSE jj
                  k1 == IF ee > 1 THEN kk + kk ELSE kk
      <4>1. h \in 0..n /\ ee \in Nat /\ (ee % 2 = 1 => ee = 2 * h + 1)
            /\ (ee % 2 # 1 => ee = 2 * h) /\ (ee = 1 => h = 0)
          BY <3>2
      <4>2. PowLoop[<<rr, bb, ee>>] = PowLoop[<<r1, b1, h>>]
          BY <3>2, <4>1, PowLoopUnfolds DEF Turn
      <4>3. r1 \in Fixed /\ b1 \in Fixed
          BY MulWadTyped
      <4>4. j1 \in Nat /\ k1 \in Nat \ {0}
          OBVIOUS
      <4>5. CloseIfItFits(r1, base, j1)
          BY <2>1, CloseProduct
      <4>6. CloseIfItFits(b1, base, k1)
        <5>1. kk \in Nat
            OBVIOUS
        <5>. QED
            BY <2>1, <5>1, CloseProduct
      <4>7. j1 + h * k1 = jj + ee * kk
          BY <3>2, TurnExponents
      <4>. HIDE DEF r1, b1, j1, k1, h
      <4>8. CloseIfItFits(PowLoop[<<r1, b1, h>>], base, j1 + h * k1)
          BY <1>3, <4>1, <4>3, <4>4, <4>5, <4>6
      <4>. QED
          BY <4>2, <4>7, <4>8
    <3>. QED
        BY <3>1, <3>2
  <2>2. n + 1 \in Nat
      OBVIOUS
  <2>. QED
      BY <2>1, <2>2
<1>4. Nat \subseteq T
  <2>. HIDE DEF T
  <2>. QED
      BY <1>2, <1>3, SetInduction
<1>5. e \in T /\ e \in 0..e
    BY <1>4
<1>. QED
    BY <1>5

\* For every base of at least one and every exponent, powWad overflows or stays as
\* close to the exact power as its roundings allow.
THEOREM PowWadIsClose ==
    ASSUME NEW base \in Nat, base >= Wad, NEW exp \in Nat
    PROVE  CloseIfItFits(PowWad(base, exp), base, exp)
<1>1. CloseIfItFits(Wad, base, 0)
    BY WadTyped DEF CloseIfItFits, Close
<1>2. CloseIfItFits(base, base, 1)
  <2>0. Wad \in Nat /\ Wad + 1 \in Nat
      BY WadTyped
  <2>1. Raised(Wad, 0) = 1 /\ Raised(Wad + 1, 0) = 1
      BY <2>0, RaisedUnfolds
  <2>2. Raised(base, 0 + 1) = base * Raised(base, 0) /\ Raised(base, 0) = 1
      BY RaisedUnfolds
  <2>3. Raised(base, 1) = base
      BY <2>2
  <2>4. base * Raised(Wad, 0) = base /\ base * Raised(Wad + 1, 0) = base
      BY <2>1
  <2>. QED
      BY <2>3, <2>4 DEF CloseIfItFits, Close
<1>3. Wad \in Fixed /\ base \in Fixed /\ 0 + exp * 1 = exp
    BY WadTyped DEF Fixed
<1>4. CloseIfItFits(PowLoop[<<Wad, base, exp>>], base, 0 + exp * 1)
    BY <1>1, <1>2, <1>3, LoopIsClose
<1>. QED
    BY <1>3, <1>4 DEF PowWad

-----------------------------------------------------------------------------
(* Arithmetic                                                              *)

LEMMA SurplusFacts ==
    /\ \A a, b \in Nat : Surplus(a, b) \in Nat /\ Surplus(a, b) <= a
    /\ \A a \in Nat : Surplus(a, 0) = a /\ Surplus(0, a) = 0
    /\ \A a, b, c \in Nat : Surplus(Surplus(a, b), c) = Surplus(a, b + c)
    BY DEF Surplus

LEMMA ConstantsTyped ==
    /\ Wad \in Nat /\ Wad > 0 /\ MaxU128 \in Nat
    /\ Bps \in Nat /\ Bps > 0
    /\ SecondsPerDay \in Nat /\ SecondsPerDay > 0
    /\ DaysPerYear \in Nat /\ DaysPerYear > 0
    /\ Maturity \in Nat /\ Wad * Wad <= MaxU128
    /\ \A allIn \in AllInRates : allIn \in Nat
    /\ \A fee \in FeeRates : fee \in Nat
    /\ \A amount \in Amounts : amount \in Nat
    /\ Overflow \notin Nat /\ Settled \notin Nat /\ Overflow # Settled
    BY WadTyped, LoanAssumption

\* The all-in rate is stored rounded to the nearest basis point: with the fee on
\* top it lands on what was asked for within half a stored basis point.
THEOREM AllInLandsNearby ==
    ASSUME NEW allIn \in Nat, NEW fee \in Nat
    PROVE  LET stored == AllInToStoredBps(allIn, fee)
               asked  == allIn * Bps
               paid   == stored * (Bps + fee)
           IN  /\ stored \in Nat
               /\ 2 * (asked - paid) < Bps + fee
               /\ 2 * (paid - asked) <= Bps + fee
<1>. DEFINE y == Bps + fee
            x == allIn * Bps
            a == 2 * x + y
            q == a \div (2 * y)
<1>1. Bps \in Nat \ {0} /\ y \in Nat \ {0} /\ x \in Nat /\ a \in Nat /\ 2 * y \in Nat \ {0}
    BY ConstantsTyped, ProductInNat
<1>2. AllInToStoredBps(allIn, fee) = q
  <2>1. 2 * allIn * Bps + Bps + fee = a
      BY <1>1, ConstantsTyped
  <2>. QED
      BY <2>1 DEF AllInToStoredBps
<1>. HIDE DEF x, y
<1>3. q \in Nat /\ q * (2 * y) <= a /\ a < q * (2 * y) + 2 * y
    BY <1>1, FloorBounds
<1>. HIDE DEF q
<1>4. q * y \in Nat /\ q * (2 * y) = 2 * (q * y)
    BY <1>1, <1>3, ProductInNat
<1>5. 2 * (x - q * y) < y /\ 2 * (q * y - x) <= y
    BY <1>1, <1>3, <1>4
<1>. QED
    BY <1>2, <1>3, <1>5 DEF x, y

LEMMA StoredRatesTyped == \A rate \in StoredRates : rate \in Nat
    BY AllInLandsNearby, ConstantsTyped DEF StoredRates

\* A product that fits fits as a factor as well; by one or more it does not
\* shrink, and by one it does not change.
LEMMA MulWadFacts ==
    ASSUME NEW a \in Nat, NEW b \in Nat
    PROVE  LET m == MulWad(a, b)
           IN  /\ m # Overflow => m \in Nat /\ m * Wad <= a * b /\ m * Wad <= MaxU128
               /\ m # Overflow /\ b >= Wad => m >= a
               /\ b = Wad /\ a * Wad <= MaxU128 => m = a
<1>1. MulWad(a, b) # Overflow => MulWad(a, b) * Wad <= MaxU128
  <2>1. MulWad(a, b) # Overflow => /\ MulWad(a, b) \in Nat
                                   /\ MulWad(a, b) * Wad <= a * b /\ a * b <= MaxU128
      BY MulWadValue
  <2>2. MulWad(a, b) # Overflow => MulWad(a, b) * Wad \in Nat
      BY <2>1, ConstantsTyped, ProductInNat
  <2>3. a * b \in Nat /\ MaxU128 \in Nat
      BY ConstantsTyped, ProductInNat
  <2>. QED
      BY <2>1, <2>2, <2>3
<1>2. b = Wad /\ a * Wad <= MaxU128 => MulWad(a, b) # Overflow
  <2>1. Wad \in Nat \ {0} /\ a * Wad \in Nat
      BY ConstantsTyped, ProductInNat
  <2>2. (a * Wad) \div Wad # Overflow
      BY <2>1, FloorBounds, ConstantsTyped
  <2>. QED
      BY <2>1, <2>2, ConstantsTyped DEF MulWad
<1>. QED
    BY <1>1, <1>2, MulWadValue

LEMMA DailyBaseTyped ==
    ASSUME NEW rate \in Nat
    PROVE  DailyBase(rate) \in Nat /\ DailyBase(rate) >= Wad
<1>1. rate * Wad \in Nat /\ DaysPerYear * Bps \in Nat \ {0}
  <2>1. DaysPerYear * Bps \in Nat \ {0}
      BY ConstantsTyped, SMT
  <2>. QED
      BY <2>1, ConstantsTyped, ProductInNat
<1>2. (rate * Wad) \div (DaysPerYear * Bps) \in Nat
    BY <1>1, FloorBounds
<1>. QED
    BY <1>2, ConstantsTyped DEF DailyBase

\* The growth of whole days is at least one, or does not fit.
LEMMA PowerTyped ==
    ASSUME NEW rate \in Nat, NEW days \in Nat
    PROVE  LET power == PowWad(DailyBase(rate), days)
           IN  power # Overflow => /\ Close(power, DailyBase(rate), days)
                                   /\ power \in Nat /\ power >= Wad
    BY DailyBaseTyped, PowWadIsClose DEF CloseIfItFits, Close

LEMMA GrowthFacts ==
    ASSUME NEW rate \in StoredRates, NEW elapsed \in 0..Maturity
    PROVE  LET growth == GrowthFactorWad(rate, elapsed)
           IN  /\ growth # Overflow => growth \in Nat /\ growth >= Wad
               /\ elapsed = 0 => growth = Wad
<1>. DEFINE days == elapsed \div SecondsPerDay
            seconds == elapsed % SecondsPerDay
            power == PowWad(DailyBase(rate), days)
            rest == SubDay(rate, seconds)
<1>1. days \in 0..Maturity /\ seconds \in Nat
  <2>1. elapsed \in Nat /\ SecondsPerDay \in Nat \ {0} /\ seconds \in Nat
      BY ConstantsTyped
  <2>2. days \in Nat /\ days * SecondsPerDay <= elapsed
      BY <2>1, FloorBounds
  <2>. HIDE DEF days
  <2>3. days * 1 <= days * SecondsPerDay
      BY <2>1, <2>2, ProductMonotone
  <2>. QED
      BY <2>1, <2>2, <2>3, ConstantsTyped
<1>2. power = Overflow \/ (power \in Nat /\ power >= Wad)
  <2>1. rate \in Nat /\ days \in Nat
      BY <1>1, StoredRatesTyped
  <2>. QED
      BY <2>1, PowerTyped
<1>3. rest \in Nat /\ rest >= Wad
  <2>. DEFINE d == SecondsPerDay * DaysPerYear * Bps
              n == rate * seconds * Wad
  <2>1. rate \in Nat
      BY StoredRatesTyped
  <2>2. n \in Nat
      BY <1>1, <2>1, ConstantsTyped, ProductInNat
  <2>3. d \in Nat \ {0}
    <3>1. SecondsPerDay * DaysPerYear \in Nat \ {0}
        BY ConstantsTyped, SMT
    <3>. QED
        BY <3>1, ConstantsTyped, SMT
  <2>4. n \div d \in Nat
      BY <2>2, <2>3, FloorBounds
  <2>5. rest = Wad + n \div d
      BY DEF SubDay
  <2>. QED
      BY <2>4, <2>5, ConstantsTyped
<1>4. elapsed > 0 => GrowthFactorWad(rate, elapsed) = MulWad(power, rest)
    BY DEF GrowthFactorWad
<1>5. elapsed = 0 => GrowthFactorWad(rate, elapsed) = Wad
    BY DEF GrowthFactorWad
<1>. HIDE DEF power, rest
<1>6. power = Overflow => MulWad(power, rest) = Overflow
    BY DEF MulWad
<1>7. power \in Nat /\ MulWad(power, rest) # Overflow =>
          MulWad(power, rest) \in Nat /\ MulWad(power, rest) >= power
    BY <1>3, MulWadFacts
<1>. QED
    BY <1>2, <1>4, <1>5, <1>6, <1>7, ConstantsTyped

-----------------------------------------------------------------------------
(* The inductive invariant and the effect of an accrual                    *)

Markets == [rate: StoredRates, supply: Nat, factor: Nat, deposited: Nat,
            interestRepaid: Nat, lastAccrual: 0..Maturity, fees: Nat, settled: BOOLEAN]

\* The factor of a market fits, so that multiplying it by one never overflows.
MarketFits(m) == m \in Markets /\ m.factor >= Wad /\ m.factor * Wad <= MaxU128

IInv ==
    /\ MarketFits(market)
    /\ feeBps \in FeeRates
    /\ collected \in Nat
    /\ now \in Nat /\ now >= market.lastAccrual

LEMMA InvariantTypes == IInv => TypeOK
    BY DEF IInv, MarketFits, Markets, TypeOK

LEMMA ElapsedFacts ==
    ASSUME NEW m \in Markets, NEW t \in Nat
    PROVE  /\ Elapsed(m, t) \in 0..Maturity
           /\ m.lastAccrual = AtMost(t, Maturity) => Elapsed(m, t) = 0
           /\ t >= m.lastAccrual /\ Elapsed(m, t) = 0 => m.lastAccrual = AtMost(t, Maturity)
    BY ConstantsTyped DEF Elapsed, Surplus, AtMost, Markets

LEMMA NormalizedTyped ==
    ASSUME NEW m \in Markets
    PROVE  CalculateNormalizedAmount(m.supply, m.factor) \in Nat
    BY NormalizedBounds DEF Markets

LEMMA FeeDeltaTyped ==
    ASSUME NEW m \in Markets, NEW growth \in Nat, NEW fee \in Nat
    PROVE  /\ FeeDelta(m, growth, fee) \in Nat
           /\ growth = Wad => FeeDelta(m, growth, fee) = 0
<1>. DEFINE base == CalculateNormalizedAmount(m.supply, m.factor)
            extra == Surplus(growth, Wad)
            rate == (extra * fee) \div Bps
<1>1. base \in Nat
    BY NormalizedTyped
<1>2. extra \in Nat /\ (growth = Wad => extra = 0)
    BY ConstantsTyped DEF Surplus
<1>. HIDE DEF base, extra
<1>3. extra * fee \in Nat /\ (extra = 0 => extra * fee = 0)
    BY <1>2, ProductInNat
<1>4. rate \in Nat /\ (extra = 0 => rate = 0)
    BY <1>3, ConstantsTyped, FloorBounds, SMT
<1>. HIDE DEF rate
<1>5. base * rate \in Nat /\ (rate = 0 => base * rate = 0)
    BY <1>1, <1>4, ProductInNat
<1>6. (base * rate) \div Wad \in Nat /\ (base * rate = 0 => (base * rate) \div Wad = 0)
    BY <1>5, ConstantsTyped, FloorBounds, SMT
<1>7. FeeDelta(m, growth, fee) = (base * rate) \div Wad
    BY DEF FeeDelta, base, extra, rate
<1>. QED
    BY <1>2, <1>4, <1>5, <1>6, <1>7

\* An accrual brings the account up to now; the factor does not fall and fits,
\* the fees do not fall and nothing else changes.
LEMMA AccrualEffect ==
    ASSUME IInv, Accruable
    PROVE  /\ MarketFits(Accrued)
           /\ Accrued.factor >= market.factor
           /\ Accrued.lastAccrual <= now
           /\ Elapsed(Accrued, now) = 0
           /\ Accrued.rate = market.rate /\ Accrued.supply = market.supply
           /\ Accrued.deposited = market.deposited
           /\ Accrued.interestRepaid = market.interestRepaid
           /\ Accrued.settled = market.settled
<1>1. market \in Markets /\ now \in Nat /\ feeBps \in Nat /\ now >= market.lastAccrual
    BY ConstantsTyped DEF IInv, MarketFits
<1>2. CASE Elapsed(market, now) = 0
  <2>1. Accrued = market
      BY <1>2 DEF Accrued
  <2>2. market.lastAccrual <= now
      BY <1>1 DEF Markets
  <2>3. market.factor >= market.factor
      BY <1>1 DEF Markets
  <2>. QED
      BY <1>2, <2>1, <2>2, <2>3, Zenon DEF IInv
<1>3. CASE Elapsed(market, now) # 0
  <2>. DEFINE e == Elapsed(market, now)
              growth == GrowthFactorWad(market.rate, e)
              factor == MulWad(market.factor, growth)
              fees == market.fees + FeeDelta(market, growth, feeBps)
  <2>1. e \in 0..Maturity /\ market.rate \in StoredRates /\ market.factor \in Nat
      BY <1>1, ElapsedFacts DEF Markets
  <2>2. NewScaleFactor(market, now) = factor
      BY <1>3 DEF NewScaleFactor
  <2>3. growth # Overflow
      BY <2>2 DEF Accruable, MulWad
  <2>4. growth \in Nat /\ growth >= Wad
      BY <2>1, <2>3, GrowthFacts
  <2>. HIDE DEF growth
  <2>5. factor \in Nat /\ factor * Wad <= MaxU128 /\ factor >= market.factor
      BY <2>1, <2>2, <2>4, MulWadFacts DEF Accruable
  <2>6. fees \in Nat
    <3>1. FeeDelta(market, growth, feeBps) \in Nat
        BY <1>1, <2>4, FeeDeltaTyped
    <3>2. market.fees \in Nat
        BY <1>1 DEF Markets
    <3>. QED
        BY <3>1, <3>2
  <2>7. Accrued = [market EXCEPT !.factor = factor, !.fees = fees,
                                 !.lastAccrual = AtMost(now, Maturity)]
      BY <1>1, <1>3, <2>2 DEF Accrued, growth, Markets
  <2>8. AtMost(now, Maturity) \in 0..Maturity /\ AtMost(now, Maturity) <= now
      BY <1>1, ConstantsTyped DEF AtMost
  <2>. HIDE DEF factor, fees
  <2>9. /\ Accrued \in Markets
        /\ Accrued.factor = factor /\ Accrued.lastAccrual = AtMost(now, Maturity)
        /\ Accrued.rate = market.rate /\ Accrued.supply = market.supply
        /\ Accrued.deposited = market.deposited
        /\ Accrued.interestRepaid = market.interestRepaid
        /\ Accrued.settled = market.settled
      BY <1>1, <2>5, <2>6, <2>7, <2>8 DEF Markets
  <2>10. Elapsed(Accrued, now) = 0
      BY <1>1, <2>9, ElapsedFacts
  <2>. QED
    <3>1. factor >= Wad
        BY <2>1, <2>5, ConstantsTyped DEF IInv, MarketFits
    <3>2. MarketFits(Accrued)
        BY <2>5, <2>9, <3>1, Zenon DEF MarketFits
    <3>. QED
        BY <2>5, <2>8, <2>9, <2>10, <3>2, Zenon
<1>. QED
    BY <1>2, <1>3

LEMMA InitInvariant == Init => IInv
<1>. SUFFICES ASSUME Init PROVE IInv
    OBVIOUS
<1>1. PICK allIn \in AllInRates :
        market = [rate |-> AllInToStoredBps(allIn, feeBps), supply |-> 0, factor |-> Wad,
                  deposited |-> 0, interestRepaid |-> 0, lastAccrual |-> 0, fees |-> 0,
                  settled |-> FALSE]
    BY DEF Init
<1>2. AllInToStoredBps(allIn, feeBps) \in StoredRates
    BY DEF Init, StoredRates
<1>3. market \in Markets /\ market.factor = Wad /\ market.lastAccrual = 0
    BY <1>1, <1>2, ConstantsTyped DEF Markets
<1>. QED
    BY <1>3, ConstantsTyped DEF Init, IInv, MarketFits

\* The account after an instruction that has accrued.
UpToNow(m) ==
    m \in Markets /\ m.factor = Accrued.factor /\ m.lastAccrual = Accrued.lastAccrual

LEMMA UpToNowFits ==
    ASSUME IInv, Accruable, NEW m, UpToNow(m)
    PROVE  MarketFits(m) /\ m.lastAccrual <= now /\ Elapsed(m, now) = 0
<1>1. /\ Accrued.factor >= Wad /\ Accrued.factor * Wad <= MaxU128
      /\ Accrued.lastAccrual <= now /\ Elapsed(Accrued, now) = 0
    BY AccrualEffect DEF MarketFits
<1>. QED
    BY <1>1, Zenon DEF UpToNow, MarketFits, Elapsed

LEMMA AccruedTyped ==
    ASSUME IInv, Accruable
    PROVE  /\ Accrued \in Markets /\ Accrued.factor \in Nat \ {0}
           /\ Accrued.supply = market.supply /\ Accrued.deposited = market.deposited
           /\ Accrued.interestRepaid = market.interestRepaid
           /\ Accrued.fees \in Nat /\ market.settled = FALSE
           /\ market.supply \in Nat /\ market.deposited \in Nat
           /\ market.interestRepaid \in Nat /\ collected \in Nat
<1>1. Accrued \in Markets /\ Accrued.factor >= Wad
    BY AccrualEffect DEF MarketFits
<1>2. Accrued.factor \in Nat \ {0} /\ Accrued.fees \in Nat
    BY <1>1, ConstantsTyped DEF Markets
<1>3. market.settled = FALSE
    BY DEF Accruable, IInv, MarketFits, Markets
<1>4. /\ market.supply \in Nat /\ market.deposited \in Nat
      /\ market.interestRepaid \in Nat /\ collected \in Nat
    BY DEF IInv, MarketFits, Markets
<1>. QED
    BY <1>1, <1>2, <1>3, <1>4, AccrualEffect, Zenon

\* What a deposit does.
LEMMA DepositStep ==
    ASSUME IInv, NEW amount \in Amounts, Deposit(amount)
    PROVE  LET minted == CalculateScaledAmount(amount, Accrued.factor)
           IN  /\ Accruable /\ UpToNow(market') /\ minted > 0
               /\ market'.supply = market.supply + minted
               /\ market'.deposited = market.deposited + amount
               /\ market'.interestRepaid = market.interestRepaid
               /\ market'.fees = Accrued.fees
               /\ market'.settled = FALSE
<1>. DEFINE minted == CalculateScaledAmount(amount, Accrued.factor)
<1>1. Accruable /\ minted > 0 /\ amount \in Nat
    BY ConstantsTyped DEF Deposit
<1>2. minted \in Nat
    BY <1>1, AccruedTyped, ScaledBounds
<1>3. market' = [Accrued EXCEPT !.supply = @ + minted, !.deposited = @ + amount]
    BY DEF Deposit
<1>. DEFINE a == Accrued
<1>4. /\ a \in Markets /\ a.supply = market.supply /\ a.deposited = market.deposited
      /\ a.interestRepaid = market.interestRepaid /\ a.settled = FALSE
    BY <1>1, AccruedTyped, AccrualEffect
<1>5. market' = [a EXCEPT !.supply = @ + minted, !.deposited = @ + amount]
    BY <1>3
<1>. HIDE DEF minted, a
<1>5a. a.supply + minted \in Nat /\ a.deposited + amount \in Nat
    BY <1>1, <1>2, <1>4 DEF Markets
<1>6. /\ market' \in Markets /\ market'.factor = a.factor
      /\ market'.lastAccrual = a.lastAccrual
      /\ market'.supply = a.supply + minted /\ market'.deposited = a.deposited + amount
      /\ market'.interestRepaid = a.interestRepaid /\ market'.fees = a.fees
      /\ market'.settled = a.settled
    BY <1>4, <1>5, <1>5a DEF Markets
<1>. QED
    BY <1>1, <1>4, <1>6, Zenon DEF a, minted, UpToNow

\* What every other instruction does: a repayment, a sweep, a settlement or none.
Instruction(paid, swept) ==
    /\ Accruable /\ UpToNow(market')
    /\ market'.supply = market.supply /\ market'.deposited = market.deposited
    /\ market'.interestRepaid = market.interestRepaid + paid
    /\ market'.fees = Accrued.fees - swept
    /\ collected' = collected + swept
    /\ feeBps' = feeBps /\ now' = now

LEMMA Instructions ==
    ASSUME IInv, Accrue \/ (\E amount \in Amounts : RepayInterest(amount))
                   \/ CollectFees \/ Settle
    PROVE  \E paid \in Nat, swept \in 0..Accrued.fees : Instruction(paid, swept)
<1>. DEFINE a == Accrued
<1>1. Accruable
    BY DEF Accrue, RepayInterest, CollectFees, Settle
<1>2. /\ a \in Markets /\ a.supply = market.supply /\ a.deposited = market.deposited
      /\ a.interestRepaid = market.interestRepaid /\ a.fees \in Nat
      /\ market.interestRepaid \in Nat /\ collected \in Nat
    BY <1>1, AccruedTyped
<1>3. CASE Accrue
  <2>1. market' = a /\ collected' = collected /\ feeBps' = feeBps /\ now' = now
      BY <1>3 DEF Accrue
  <2>. HIDE DEF a
  <2>2. /\ market'.interestRepaid = market.interestRepaid + 0
        /\ market'.fees = a.fees - 0 /\ collected' = collected + 0
      BY <1>2, <2>1
  <2>3. Instruction(0, 0)
      BY <1>1, <1>2, <2>1, <2>2, Zenon DEF Instruction, UpToNow, a
  <2>. QED
      BY <1>2, <2>3 DEF a
<1>4. ASSUME NEW amount \in Amounts, RepayInterest(amount)
      PROVE  \E paid \in Nat, swept \in 0..Accrued.fees : Instruction(paid, swept)
  <2>0. amount \in Nat
      BY ConstantsTyped
  <2>1. /\ market' = [a EXCEPT !.interestRepaid = @ + amount]
        /\ collected' = collected /\ feeBps' = feeBps /\ now' = now
      BY <1>4 DEF RepayInterest
  <2>. HIDE DEF a
  <2>2. /\ market' \in Markets /\ market'.factor = a.factor
        /\ market'.lastAccrual = a.lastAccrual /\ market'.supply = a.supply
        /\ market'.deposited = a.deposited
        /\ market'.interestRepaid = market.interestRepaid + amount
        /\ market'.fees = a.fees - 0 /\ collected' = collected + 0
      BY <1>2, <2>0, <2>1 DEF Markets
  <2>3. Instruction(amount, 0)
      BY <1>1, <1>2, <2>1, <2>2, Zenon DEF Instruction, UpToNow, a
  <2>. QED
      BY <1>2, <2>0, <2>3 DEF a
<1>5. CASE CollectFees
  <2>1. PICK swept \in 1..a.fees :
           /\ market' = [a EXCEPT !.fees = @ - swept]
           /\ collected' = collected + swept
      BY <1>5 DEF CollectFees
  <2>2. feeBps' = feeBps /\ now' = now
      BY <1>5 DEF CollectFees
  <2>. HIDE DEF a
  <2>3. /\ market' \in Markets /\ market'.factor = a.factor
        /\ market'.lastAccrual = a.lastAccrual /\ market'.supply = a.supply
        /\ market'.deposited = a.deposited
        /\ market'.interestRepaid = market.interestRepaid + 0
        /\ market'.fees = a.fees - swept /\ swept \in 0..a.fees
      BY <1>2, <2>1 DEF Markets
  <2>4. Instruction(0, swept)
      BY <1>1, <1>2, <2>1, <2>2, <2>3, Zenon DEF Instruction, UpToNow, a
  <2>. QED
      BY <2>3, <2>4 DEF a
<1>6. CASE Settle
  <2>1. /\ market' = [a EXCEPT !.settled = TRUE]
        /\ collected' = collected /\ feeBps' = feeBps /\ now' = now
      BY <1>6 DEF Settle
  <2>. HIDE DEF a
  <2>2. /\ market' \in Markets /\ market'.factor = a.factor
        /\ market'.lastAccrual = a.lastAccrual /\ market'.supply = a.supply
        /\ market'.deposited = a.deposited
        /\ market'.interestRepaid = a.interestRepaid /\ market'.fees = a.fees
      BY <1>2, <2>1 DEF Markets
  <2>2a. market.interestRepaid = market.interestRepaid + 0 /\ a.fees = a.fees - 0
         /\ collected = collected + 0
      BY <1>2
  <2>3. Instruction(0, 0)
      BY <1>1, <1>2, <2>1, <2>2, <2>2a, Zenon DEF Instruction, UpToNow, a
  <2>. QED
      BY <1>2, <2>3 DEF a
<1>. QED
    BY <1>3, <1>4, <1>5, <1>6

LEMMA StepInvariant == IInv /\ [Next]_vars => IInv'
<1>. SUFFICES ASSUME IInv, [Next]_vars PROVE IInv'
    OBVIOUS
<1>1. feeBps \in FeeRates /\ collected \in Nat /\ now \in Nat
    BY DEF IInv
<1>2. ASSUME NEW amount \in Amounts, Deposit(amount) PROVE IInv'
  <2>1. MarketFits(market') /\ market'.lastAccrual <= now
      BY <1>2, DepositStep, UpToNowFits
  <2>2. feeBps' = feeBps /\ collected' = collected /\ now' = now
      BY <1>2 DEF Deposit
  <2>3. now >= market'.lastAccrual
      BY <1>1, <2>1 DEF MarketFits, Markets
  <2>. QED
      BY <1>1, <2>1, <2>2, <2>3, Zenon DEF IInv
<1>3. ASSUME Accrue \/ (\E amount \in Amounts : RepayInterest(amount)) \/ CollectFees \/ Settle
      PROVE  IInv'
  <2>1. PICK paid \in Nat, swept \in 0..Accrued.fees : Instruction(paid, swept)
      BY <1>3, Instructions
  <2>2. MarketFits(market') /\ market'.lastAccrual <= now
      BY <2>1, UpToNowFits DEF Instruction
  <2>3. now >= market'.lastAccrual
      BY <1>1, <2>2 DEF MarketFits, Markets
  <2>4. Accrued.fees \in Nat
      BY <2>1, AccruedTyped DEF Instruction
  <2>5. collected' \in Nat /\ feeBps' = feeBps /\ now' = now
      BY <1>1, <2>1, <2>4 DEF Instruction
  <2>. QED
      BY <1>1, <2>2, <2>3, <2>5, Zenon DEF IInv
<1>4. ASSUME NEW fee \in FeeRates, SetFeeConfig(fee) PROVE IInv'
    BY <1>4 DEF IInv, SetFeeConfig
<1>5. CASE Tick
  <2>1. now' = now + 1 /\ market' = market /\ feeBps' = feeBps /\ collected' = collected
      BY <1>5 DEF Tick
  <2>2. market.lastAccrual \in Nat
      BY ConstantsTyped DEF IInv, MarketFits, Markets
  <2>3. now + 1 \in Nat /\ now + 1 >= market.lastAccrual
      BY <1>1, <2>2 DEF IInv
  <2>. QED
      BY <1>1, <2>1, <2>3, Zenon DEF IInv
<1>6. CASE UNCHANGED vars
    BY <1>6 DEF vars, IInv
<1>. QED
    BY <1>2, <1>3, <1>4, <1>5, <1>6 DEF Next

\* Every reachable state is well typed: no total turns negative, and the factor of
\* the market never falls below one.
THEOREM TypeCorrect == Spec => []TypeOK
    BY InitInvariant, StepInvariant, InvariantTypes, PTL DEF Spec

LEMMA InvariantPowers == IInv => PowStaysClose
<1>. SUFFICES ASSUME IInv PROVE PowStaysClose
    OBVIOUS
<1>. DEFINE base == DailyBase(market.rate)
            days == Elapsed(market, now) \div SecondsPerDay
            power == PowWad(base, days)
<1>1. market.rate \in Nat /\ Elapsed(market, now) \in Nat
  <2>1. market \in Markets /\ now \in Nat
      BY DEF IInv, MarketFits
  <2>2. market.rate \in StoredRates
      BY <2>1 DEF Markets
  <2>. QED
      BY <2>1, <2>2, StoredRatesTyped, ElapsedFacts
<1>2. days \in Nat
    BY <1>1, ConstantsTyped, FloorBounds
<1>3. power # Overflow => Close(power, base, days)
    BY <1>1, <1>2, PowerTyped
<1>. HIDE DEF base, days, power
<1>4. days > 0 /\ power # Overflow =>
          /\ power * Exact[<<Wad, days - 1>>] <= Exact[<<base, days>>]
          /\ Exact[<<base, days>>] <= power * Exact[<<Wad + 1, days - 1>>]
    BY <1>3 DEF Close, Raised
<1>. QED
    BY <1>4, Zenon DEF PowStaysClose, base, days, power

\* For any rates and times the growth of the whole days is the exact power but for
\* a part in Wad for each product.
THEOREM PowersStayClose == Spec => []PowStaysClose
    BY InitInvariant, StepInvariant, InvariantPowers, PTL DEF Spec

-----------------------------------------------------------------------------
(* The quote                                                               *)

\* What is owed according to an account that is up to now.
Debt(m, total) ==
    Surplus(Surplus(CalculateNormalizedAmount(m.supply, m.factor), m.deposited)
                + m.fees + total,
            m.interestRepaid)

LEMMA DebtTyped ==
    ASSUME NEW m \in Markets, NEW total \in Nat
    PROVE  Debt(m, total) \in Nat
<1>. DEFINE gross == Surplus(CalculateNormalizedAmount(m.supply, m.factor), m.deposited)
<1>1. CalculateNormalizedAmount(m.supply, m.factor) \in Nat /\ m.deposited \in Nat
      /\ m.fees \in Nat /\ m.interestRepaid \in Nat
    BY NormalizedTyped DEF Markets
<1>2. gross \in Nat
    BY <1>1, SurplusFacts
<1>3. Debt(m, total) = Surplus(gross + m.fees + total, m.interestRepaid)
    BY DEF Debt
<1>. HIDE DEF gross
<1>. DEFINE ever == gross + m.fees + total
<1>4. ever \in Nat /\ Debt(m, total) = Surplus(ever, m.interestRepaid)
    BY <1>1, <1>2, <1>3
<1>. HIDE DEF ever
<1>5. Surplus(ever, m.interestRepaid) \in Nat
    BY <1>1, <1>4, SurplusFacts
<1>. QED
    BY <1>4, <1>5, Zenon

\* On an account that is up to now the quote is the debt, at any fee.
LEMMA CurrentQuote ==
    ASSUME NEW m, MarketFits(m), NEW t \in Nat, Elapsed(m, t) = 0,
           NEW total \in Nat, NEW fee \in Nat
    PROVE  TransformedRemainingInterest(m, total, t, fee) =
              IF m.settled THEN Settled ELSE IF m.supply = 0 THEN 0 ELSE Debt(m, total)
<1>. DEFINE growth == GrowthFactorWad(m.rate, Elapsed(m, t))
            factor == MulWad(m.factor, growth)
            gross == Surplus(CalculateNormalizedAmount(m.supply, m.factor), m.deposited)
<1>1. m \in Markets /\ m.factor \in Nat /\ m.factor * Wad <= MaxU128
    BY DEF MarketFits, Markets
<1>2. growth = Wad
    BY DEF GrowthFactorWad
<1>3. factor = m.factor /\ factor # Overflow
    BY <1>1, <1>2, ConstantsTyped, MulWadFacts
<1>4. FeeDelta(m, growth, fee) = 0
    BY <1>1, <1>2, FeeDeltaTyped, ConstantsTyped
<1>5. gross \in Nat /\ m.fees \in Nat
  <2>1. CalculateNormalizedAmount(m.supply, m.factor) \in Nat /\ m.deposited \in Nat
        /\ m.fees \in Nat
      BY <1>1, NormalizedTyped DEF Markets
  <2>. QED
      BY <2>1, SurplusFacts
<1>6. TransformedRemainingInterest(m, total, t, fee) =
        IF m.settled THEN Settled ELSE IF m.supply = 0 THEN 0
        ELSE Surplus(gross + m.fees + total + FeeDelta(m, growth, fee), m.interestRepaid)
    BY <1>3 DEF TransformedRemainingInterest
<1>. HIDE DEF growth, gross
<1>7. gross + m.fees + total + FeeDelta(m, growth, fee) = gross + m.fees + total
    BY <1>4, <1>5
<1>. QED
    BY <1>6, <1>7, Zenon DEF Debt, gross

\* The projection of the account is what an accrual makes of it.
LEMMA ProjectedQuote ==
    ASSUME IInv, Accruable
    PROVE  Quote = IF market.supply = 0 THEN 0 ELSE Debt(Accrued, collected)
<1>1. /\ market \in Markets /\ now \in Nat /\ feeBps \in Nat /\ collected \in Nat
      /\ market.settled = FALSE /\ MarketFits(market)
    BY AccruedTyped, ConstantsTyped DEF IInv, MarketFits
<1>2. CASE Elapsed(market, now) = 0
  <2>1. Accrued = market
      BY <1>2 DEF Accrued
  <2>. QED
      BY <1>1, <1>2, <2>1, CurrentQuote DEF Quote
<1>3. CASE Elapsed(market, now) # 0
  <2>. DEFINE e == Elapsed(market, now)
              growth == GrowthFactorWad(market.rate, e)
              factor == MulWad(market.factor, growth)
              delta == FeeDelta(market, growth, feeBps)
              gross == Surplus(CalculateNormalizedAmount(market.supply, factor),
                               market.deposited)
  <2>1. NewScaleFactor(market, now) = factor /\ factor # Overflow
      BY <1>3 DEF NewScaleFactor, Accruable
  <2>2. Quote = IF market.supply = 0 THEN 0
                ELSE Surplus(gross + market.fees + collected + delta, market.interestRepaid)
      BY <1>1, <2>1 DEF Quote, TransformedRemainingInterest
  <2>3. /\ Accrued.factor = factor /\ Accrued.fees = market.fees + delta
        /\ Accrued.supply = market.supply /\ Accrued.deposited = market.deposited
        /\ Accrued.interestRepaid = market.interestRepaid
      BY <1>1, <1>3, <2>1 DEF Accrued, Markets
  <2>4. e \in 0..Maturity /\ market.rate \in StoredRates /\ growth # Overflow
      BY <1>1, <2>1, ElapsedFacts DEF Markets, MulWad
  <2>5. growth \in Nat
      BY <2>4, GrowthFacts
  <2>6. delta \in Nat /\ market.fees \in Nat
    <3>. HIDE DEF growth
    <3>1. delta \in Nat
        BY <1>1, <2>5, FeeDeltaTyped
    <3>2. market.fees \in Nat
        BY <1>1 DEF Markets
    <3>. QED
        BY <3>1, <3>2
  <2>7. gross \in Nat
    <3>1. Accrued \in Markets
        BY AccruedTyped
    <3>2. CalculateNormalizedAmount(market.supply, factor) \in Nat
        BY <2>3, <3>1, NormalizedTyped
    <3>3. market.deposited \in Nat
        BY <1>1 DEF Markets
    <3>. QED
        BY <3>2, <3>3, SurplusFacts
  <2>8. Debt(Accrued, collected) =
            Surplus(gross + (market.fees + delta) + collected, market.interestRepaid)
      BY <2>3, Zenon DEF Debt
  <2>. HIDE DEF gross, delta
  <2>9. gross + (market.fees + delta) + collected = gross + market.fees + collected + delta
      BY <1>1, <2>6, <2>7
  <2>. QED
      BY <2>2, <2>8, <2>9, Zenon
<1>. QED
    BY <1>2, <1>3

\* The quote of a market that is not settled is a number unless the growth overflows.
LEMMA QuoteTyped ==
    ASSUME IInv, ~market.settled
    PROVE  Quote \in Nat \cup {Overflow}
<1>1. CASE Accruable
  <2>1. Debt(Accrued, collected) \in Nat
      BY <1>1, AccruedTyped, DebtTyped
  <2>. QED
      BY <1>1, <2>1, ProjectedQuote
<1>2. CASE ~Accruable
  <2>1. NewScaleFactor(market, now) = Overflow
      BY <1>2 DEF Accruable
  <2>2. market.factor \in Nat
      BY DEF IInv, MarketFits, Markets
  <2>3. MulWad(market.factor, GrowthFactorWad(market.rate, Elapsed(market, now))) = Overflow
      BY <2>1, <2>2, ConstantsTyped DEF NewScaleFactor
  <2>. QED
      BY <2>3 DEF Quote, TransformedRemainingInterest
<1>. QED
    BY <1>1, <1>2

\* An instruction moves the quote by what it repays and nothing else.
LEMMA InstructionMovesQuote ==
    ASSUME IInv, NEW paid \in Nat, NEW swept \in 0..Accrued.fees, Instruction(paid, swept),
           ~market'.settled
    PROVE  Quote' = Surplus(Quote, paid)
<1>1. /\ Accruable /\ UpToNow(market') /\ MarketFits(market') /\ Elapsed(market', now) = 0
      /\ market' \in Markets
    BY UpToNowFits DEF Instruction, UpToNow
<1>2. /\ now \in Nat /\ feeBps \in Nat /\ collected \in Nat /\ Accrued.fees \in Nat
      /\ swept \in Nat /\ collected + swept \in Nat
  <2>1. now \in Nat /\ feeBps \in Nat /\ collected \in Nat
      BY ConstantsTyped DEF IInv
  <2>2. Accrued.fees \in Nat
      BY <1>1, AccruedTyped
  <2>. QED
      BY <2>1, <2>2
<1>3. Quote' = TransformedRemainingInterest(market', collected + swept, now, feeBps)
    BY DEF Quote, Instruction
<1>4. Quote' = IF market.supply = 0 THEN 0 ELSE Debt(market', collected + swept)
    BY <1>1, <1>2, <1>3, CurrentQuote DEF Instruction
<1>5. Quote = IF market.supply = 0 THEN 0 ELSE Debt(Accrued, collected)
    BY <1>1, ProjectedQuote
<1>. DEFINE gross == Surplus(CalculateNormalizedAmount(market.supply, Accrued.factor),
                             market.deposited)
            ever == gross + Accrued.fees + collected
<1>6. gross \in Nat /\ market.interestRepaid \in Nat
  <2>1. CalculateNormalizedAmount(Accrued.supply, Accrued.factor) \in Nat
      BY <1>1, AccruedTyped, NormalizedTyped
  <2>2. Accrued.supply = market.supply /\ market.deposited \in Nat
        /\ market.interestRepaid \in Nat
      BY <1>1, AccruedTyped
  <2>. QED
      BY <2>1, <2>2, SurplusFacts
<1>7. Debt(Accrued, collected) = Surplus(ever, market.interestRepaid)
    BY <1>1, AccruedTyped DEF Debt
<1>8. Debt(market', collected + swept) =
          Surplus(gross + (Accrued.fees - swept) + (collected + swept),
                  market.interestRepaid + paid)
    BY Zenon DEF Debt, Instruction, UpToNow
<1>. HIDE DEF gross
<1>9. gross + (Accrued.fees - swept) + (collected + swept) = ever /\ ever \in Nat
    BY <1>2, <1>6
<1>. HIDE DEF ever
<1>10. Surplus(ever, market.interestRepaid + paid)
           = Surplus(Surplus(ever, market.interestRepaid), paid)
    BY <1>6, <1>9, SurplusFacts
<1>11. CASE market.supply = 0
    BY <1>4, <1>5, <1>11, SurplusFacts
<1>12. CASE market.supply # 0
    BY <1>4, <1>5, <1>7, <1>8, <1>9, <1>10, <1>12, Zenon
<1>. QED
    BY <1>11, <1>12

LEMMA RepaidByInstruction ==
    ASSUME IInv, NEW paid \in Nat, NEW swept, Instruction(paid, swept)
    PROVE  Repaid = paid
<1>1. market.interestRepaid \in Nat /\ market'.interestRepaid = market.interestRepaid + paid
    BY AccruedTyped DEF Instruction
<1>. QED
    BY <1>1 DEF Repaid

\* For any rates and amounts, and however far the account is behind, an accrual or
\* a sweep of the fees leaves the quote as it is and a repayment lowers it by what
\* it pays.
THEOREM QuoteIsExact == Spec => QuoteFollowsTheLoan
<1>. DEFINE Follows == /\ now' = now /\ feeBps' = feeBps
                       /\ market'.deposited = market.deposited
                       /\ ~market'.settled /\ Quote # Overflow
                       => Quote' = Surplus(Quote, Repaid)
<1>1. IInv /\ [Next]_vars => Follows
  <2>. SUFFICES ASSUME IInv, [Next]_vars PROVE Follows
      OBVIOUS
  <2>1. ASSUME NEW amount \in Amounts, Deposit(amount) PROVE Follows
    <3>1. market'.deposited = market.deposited + amount
        BY <2>1, DepositStep
    <3>2. Accruable /\ amount \in Nat /\ amount # 0
      <4>1. Accruable /\ amount \in Nat
          BY <2>1, ConstantsTyped DEF Deposit
      <4>2. CalculateScaledAmount(amount, Accrued.factor) > 0
          BY <2>1 DEF Deposit
      <4>3. amount = 0 => CalculateScaledAmount(amount, Accrued.factor) = 0
        <5>1. Accrued.factor \in Nat \ {0}
            BY <4>1, AccruedTyped
        <5>. QED
            BY <5>1, ConstantsTyped DEF CalculateScaledAmount
      <4>. QED
          BY <4>1, <4>2, <4>3
    <3>3. market.deposited \in Nat
        BY <3>2, AccruedTyped
    <3>. QED
        BY <3>1, <3>2, <3>3
  <2>2. ASSUME Accrue \/ (\E amount \in Amounts : RepayInterest(amount)) \/ CollectFees \/ Settle
        PROVE  Follows
    <3>1. PICK paid \in Nat, swept \in 0..Accrued.fees : Instruction(paid, swept)
        BY <2>2, Instructions
    <3>2. Repaid = paid
        BY <3>1, RepaidByInstruction
    <3>. QED
        BY <3>1, <3>2, InstructionMovesQuote
  <2>3. ASSUME NEW fee \in FeeRates, SetFeeConfig(fee) PROVE Follows
      BY <2>3 DEF SetFeeConfig
  <2>4. CASE Tick
      BY <2>4 DEF Tick, IInv
  <2>5. CASE UNCHANGED vars
    <3>1. Quote' = Quote /\ market'.settled = market.settled
        BY <2>5 DEF vars, Quote
    <3>2. Repaid = 0
        BY <2>5 DEF vars, Repaid, IInv, MarketFits, Markets
    <3>3. ~market'.settled /\ Quote # Overflow => Quote \in Nat
        BY <3>1, QuoteTyped
    <3>. QED
        BY <3>1, <3>2, <3>3, SurplusFacts
  <2>. QED
      BY <2>1, <2>2, <2>3, <2>4, <2>5 DEF Next
<1>. QED
    BY <1>1, InitInvariant, StepInvariant, PTL DEF Spec, QuoteFollowsTheLoan

\* For any fee rates, changing the rate moves no quote of an account that is up to
\* now: the new rate is not charged on what the program has accrued.
THEOREM OldFeesStay == Spec => FeeChangesAreNotRetroactive
<1>. DEFINE Stays == feeBps' # feeBps /\ Elapsed(market, now) = 0 => Quote' = Quote
<1>1. IInv /\ [Next]_vars => Stays
  <2>. SUFFICES ASSUME IInv, [Next]_vars, feeBps' # feeBps, Elapsed(market, now) = 0
                PROVE  Quote' = Quote
      OBVIOUS
  <2>1. PICK fee \in FeeRates : SetFeeConfig(fee)
      BY DEF Next, vars, Accrue, Deposit, RepayInterest, CollectFees, Settle, Tick
  <2>2. /\ MarketFits(market) /\ now \in Nat /\ collected \in Nat /\ feeBps \in Nat
        /\ fee \in Nat
      BY ConstantsTyped DEF IInv
  <2>3. Quote' = TransformedRemainingInterest(market, collected, now, fee)
      BY <2>1 DEF Quote, SetFeeConfig
  <2>. QED
      BY <2>2, <2>3, CurrentQuote DEF Quote
<1>. QED
    BY <1>1, InitInvariant, StepInvariant, PTL DEF Spec, FeeChangesAreNotRetroactive

\* Minting and normalising round down: the balance grows by the deposit, less the
\* rounding of one share.
LEMMA DepositRounds ==
    ASSUME NEW supply \in Nat, NEW factor \in Nat \ {0}, NEW amount \in Nat
    PROVE  LET minted == CalculateScaledAmount(amount, factor)
               before == CalculateNormalizedAmount(supply, factor)
               after  == CalculateNormalizedAmount(supply + minted, factor)
           IN  /\ after <= before + amount
               /\ (before + amount - after) * Wad < factor + Wad
<1>. DEFINE minted == CalculateScaledAmount(amount, factor)
            before == CalculateNormalizedAmount(supply, factor)
            after == CalculateNormalizedAmount(supply + minted, factor)
            held == supply * factor
            new == minted * factor
            paid == amount * Wad
<1>1. /\ minted \in Nat /\ minted * factor <= amount * Wad
      /\ amount * Wad < (minted + 1) * factor
    BY ScaledBounds
<1>2. (minted + 1) * factor = new + factor
    BY <1>1, SMT
<1>3. before \in Nat /\ before * Wad <= held /\ held < before * Wad + Wad
    BY NormalizedBounds
<1>4. supply + minted \in Nat
    BY <1>1
<1>5. /\ after \in Nat /\ after * Wad <= (supply + minted) * factor
      /\ (supply + minted) * factor < after * Wad + Wad
    BY <1>4, NormalizedBounds
<1>6. (supply + minted) * factor = held + new
    BY <1>1, SMT
<1>7. held \in Nat /\ new \in Nat /\ paid \in Nat /\ Wad \in Nat /\ Wad > 0
    BY <1>1, ConstantsTyped, ProductInNat
<1>8. new <= paid /\ paid < new + factor
    BY <1>1, <1>2
<1>9. after * Wad <= held + new /\ held + new < after * Wad + Wad
    BY <1>5, <1>6
<1>. HIDE DEF minted, before, after, held, new
<1>10. (before + amount) * Wad = before * Wad + paid
    BY <1>3, <1>7, SMT
<1>. HIDE DEF paid
<1>11. after * Wad < (before + amount) * Wad + Wad
    BY <1>3, <1>5, <1>7, <1>8, <1>9, <1>10, ProductInNat
<1>12. after < before + amount + 1
    BY <1>3, <1>5, <1>7, <1>11, SMT
<1>13. (before + amount - after) * Wad = (before + amount) * Wad - after * Wad
    BY <1>3, <1>5, <1>7, SMT
<1>14. (before + amount) * Wad - after * Wad < factor + Wad
    BY <1>3, <1>5, <1>7, <1>8, <1>9, <1>10, ProductInNat
<1>. QED
    BY <1>3, <1>5, <1>12, <1>13, <1>14 DEF minted, before, after

\* What is subtracted on both sides does not widen a gap.
LEMMA SurplusGap ==
    ASSUME NEW after \in Nat, NEW before \in Nat, NEW amount \in Nat, NEW deposited \in Nat,
           NEW rest \in Nat, NEW repaid \in Nat, after <= before + amount
    PROVE  LET q  == Surplus(Surplus(before, deposited) + rest, repaid)
               q1 == Surplus(Surplus(after, deposited + amount) + rest, repaid)
           IN  q \in Nat /\ q1 \in Nat /\ q1 <= q /\ q - q1 <= before + amount - after
    BY DEF Surplus

\* For any rates and amounts, a deposit never raises the quote and lowers it by no
\* more than the rounding of one share.
THEOREM DepositsAreNoInterest == Spec => DepositsKeepTheQuote
<1>. DEFINE Keeps == market'.deposited # market.deposited /\ market.supply > 0
                       => /\ Quote' <= Quote
                          /\ (Quote - Quote') * Wad < market'.factor + Wad
<1>1. IInv /\ [Next]_vars => Keeps
  <2>. SUFFICES ASSUME IInv, [Next]_vars,
                       market'.deposited # market.deposited, market.supply > 0
                PROVE  /\ Quote' <= Quote
                       /\ (Quote - Quote') * Wad < market'.factor + Wad
      OBVIOUS
  <2>1. PICK amount \in Amounts : Deposit(amount)
    <3>1. CASE Accrue \/ (\E amount \in Amounts : RepayInterest(amount))
               \/ CollectFees \/ Settle
        BY <3>1, Instructions DEF Instruction
    <3>2. CASE Tick \/ (\E fee \in FeeRates : SetFeeConfig(fee)) \/ UNCHANGED vars
        BY <3>2 DEF Tick, SetFeeConfig, vars
    <3>. QED
        BY <3>1, <3>2 DEF Next
  <2>. DEFINE f == Accrued.factor
              minted == CalculateScaledAmount(amount, f)
              before == CalculateNormalizedAmount(market.supply, f)
              after == CalculateNormalizedAmount(market.supply + minted, f)
              rest == Accrued.fees + collected
  <2>2. /\ Accruable /\ amount \in Nat /\ f \in Nat \ {0} /\ minted \in Nat /\ minted > 0
        /\ market.supply \in Nat /\ market.deposited \in Nat
        /\ market.interestRepaid \in Nat /\ Accrued.fees \in Nat /\ collected \in Nat
    <3>1. Accruable /\ amount \in Nat /\ minted > 0
        BY <2>1, ConstantsTyped DEF Deposit
    <3>2. f \in Nat \ {0}
        BY <3>1, AccruedTyped
    <3>3. minted \in Nat
        BY <3>1, <3>2, ScaledBounds
    <3>. QED
        BY <3>1, <3>2, <3>3, AccruedTyped, Zenon
  <2>3. before \in Nat /\ after \in Nat
    <3>1. market.supply + minted \in Nat /\ f \in Nat
        BY <2>2
    <3>. QED
        BY <2>2, <3>1, NormalizedBounds
  <2>4. after <= before + amount /\ (before + amount - after) * Wad < f + Wad
      BY <2>2, DepositRounds
  <2>5. Quote = Debt(Accrued, collected)
      BY <2>2, ProjectedQuote
  <2>6. Debt(Accrued, collected) =
            Surplus(Surplus(before, market.deposited) + Accrued.fees + collected,
                    market.interestRepaid)
      BY <2>2, AccruedTyped, Zenon DEF Debt
  <2>7. /\ MarketFits(market') /\ Elapsed(market', now) = 0
        /\ market'.settled = FALSE /\ market'.supply = market.supply + minted
        /\ market'.factor = f /\ market'.fees = Accrued.fees
        /\ market'.deposited = market.deposited + amount
        /\ market'.interestRepaid = market.interestRepaid
    <3>1. UpToNow(market')
        BY <2>1, DepositStep
    <3>2. MarketFits(market') /\ Elapsed(market', now) = 0
        BY <2>2, <3>1, UpToNowFits
    <3>. QED
        BY <2>1, <3>1, <3>2, DepositStep DEF UpToNow
  <2>8. Quote' = Debt(market', collected)
    <3>1. Quote' = TransformedRemainingInterest(market', collected, now, feeBps)
        BY <2>1 DEF Quote, Deposit
    <3>2. now \in Nat /\ feeBps \in Nat
        BY ConstantsTyped DEF IInv
    <3>3. market'.supply # 0
        BY <2>2, <2>7
    <3>. QED
        BY <2>2, <2>7, <3>1, <3>2, <3>3, CurrentQuote
  <2>9. Debt(market', collected) =
            Surplus(Surplus(after, market.deposited + amount) + Accrued.fees + collected,
                    market.interestRepaid)
      BY <2>7, Zenon DEF Debt
  <2>10. Surplus(before, market.deposited) \in Nat
         /\ Surplus(after, market.deposited + amount) \in Nat
    <3>1. market.deposited + amount \in Nat
        BY <2>2
    <3>. QED
        BY <2>2, <2>3, <3>1, SurplusFacts
  <2>. HIDE DEF f, minted, before, after
  <2>11. /\ rest \in Nat
         /\ Surplus(before, market.deposited) + Accrued.fees + collected
              = Surplus(before, market.deposited) + rest
         /\ Surplus(after, market.deposited + amount) + Accrued.fees + collected
              = Surplus(after, market.deposited + amount) + rest
      BY <2>2, <2>10
  <2>. HIDE DEF rest
  <2>12. /\ Quote \in Nat /\ Quote' \in Nat /\ Quote' <= Quote
         /\ Quote - Quote' <= before + amount - after
    <3>. DEFINE q == Surplus(Surplus(before, market.deposited) + rest, market.interestRepaid)
                q1 == Surplus(Surplus(after, market.deposited + amount) + rest,
                              market.interestRepaid)
    <3>1. q \in Nat /\ q1 \in Nat /\ q1 <= q /\ q - q1 <= before + amount - after
        BY <2>2, <2>3, <2>4, <2>11, SurplusGap
    <3>2. Quote = q /\ Quote' = q1
        BY <2>5, <2>6, <2>8, <2>9, <2>11, Zenon
    <3>. QED
        BY <3>1, <3>2, Zenon
  <2>. DEFINE gap == Quote - Quote'
              loss == before + amount - after
  <2>13. gap \in Nat /\ loss \in Nat /\ gap <= loss
    <3>1. \A a, b \in Nat : b <= a => a - b \in Nat
        OBVIOUS
    <3>2. gap \in Nat
        BY <2>12, <3>1, Zenon
    <3>3. before \in Nat /\ after \in Nat /\ amount \in Nat /\ after <= before + amount
        BY <2>2, <2>3, <2>4, Zenon
    <3>4. loss \in Nat
        BY <3>3
    <3>. QED
        BY <2>12, <3>2, <3>4, Zenon
  <2>14. loss * Wad < f + Wad
      BY <2>4
  <2>15. f \in Nat /\ Wad \in Nat /\ market'.factor = f
      BY <2>2, <2>7, ConstantsTyped
  <2>. HIDE DEF gap, loss
  <2>16. gap * Wad <= loss * Wad /\ gap * Wad \in Nat /\ loss * Wad \in Nat
      BY <2>13, <2>15, ProductMonotone, ProductInNat
  <2>17. gap * Wad < f + Wad
      BY <2>14, <2>15, <2>16
  <2>. QED
      BY <2>12, <2>15, <2>17, Zenon DEF gap
<1>. QED
    BY <1>1, InitInvariant, StepInvariant, PTL DEF Spec, DepositsKeepTheQuote

-----------------------------------------------------------------------------
(* Bounds on powers                                                        *)

\* A larger base has larger powers, and powers of a positive base are positive.
LEMMA RaisedMonotone ==
    ASSUME NEW x \in Nat, NEW y \in Nat, x <= y, NEW n \in Nat
    PROVE  Raised(x, n) <= Raised(y, n)
<1>. DEFINE T == {k \in Nat : Raised(x, k) <= Raised(y, k)}
<1>1. ASSUME NEW k \in Nat, k \in T PROVE k + 1 \in T
  <2>1. Raised(x, k) \in Nat /\ Raised(y, k) \in Nat
      BY RaisedUnfolds
  <2>2. x * Raised(x, k) <= y * Raised(y, k)
      BY <1>1, <2>1, ProductsMonotone
  <2>3. Raised(x, k + 1) = x * Raised(x, k) /\ Raised(y, k + 1) = y * Raised(y, k)
      BY RaisedUnfolds
  <2>. QED
      BY <2>2, <2>3
<1>2. 0 \in T
    BY RaisedUnfolds
<1>3. Nat \subseteq T
  <2>. HIDE DEF T
  <2>. QED
      BY <1>1, <1>2, SetInduction
<1>. QED
    BY <1>3

LEMMA RaisedPositive ==
    ASSUME NEW x \in Nat \ {0}, NEW n \in Nat
    PROVE  Raised(x, n) \in Nat \ {0}
<1>. DEFINE T == {k \in Nat : Raised(x, k) # 0}
<1>1. ASSUME NEW k \in Nat, k \in T PROVE k + 1 \in T
  <2>1. x \in Nat /\ Raised(x, k) \in Nat \ {0}
      BY <1>1, RaisedUnfolds
  <2>2. Raised(x, k + 1) = x * Raised(x, k)
      BY <2>1, RaisedUnfolds
  <2>. HIDE DEF T
  <2>3. x * Raised(x, k) # 0
      BY <2>1, SMT
  <2>. QED
      BY <2>2, <2>3 DEF T
<1>2. 0 \in T
    BY RaisedUnfolds
<1>3. Nat \subseteq T
  <2>. HIDE DEF T
  <2>. QED
      BY <1>1, <1>2, SetInduction
<1>4. Raised(x, n) # 0
    BY <1>3
<1>. QED
    BY <1>4, RaisedUnfolds

\* Bernoulli: (1 + 1/Wad) ^ n is at most 1 / (1 - n/Wad).
LEMMA Bernoulli ==
    ASSUME NEW n \in 0..Wad
    PROVE  Raised(Wad + 1, n) * (Wad - n) <= Raised(Wad, n) * Wad
<1>. DEFINE up == Wad + 1
            T == {k \in Nat : k <= Wad => Raised(up, k) * (Wad - k) <= Raised(Wad, k) * Wad}
<1>0. Wad \in Nat /\ up \in Nat
    BY ConstantsTyped
<1>1. ASSUME NEW k \in Nat, k \in T PROVE k + 1 \in T
  <2>. SUFFICES ASSUME k + 1 <= Wad
                PROVE  Raised(up, k + 1) * (Wad - (k + 1)) <= Raised(Wad, k + 1) * Wad
      OBVIOUS
  <2>. DEFINE a == Raised(up, k)
              w == Raised(Wad, k)
              l == Wad - (k + 1)
              r == Wad - k
  <2>1. a \in Nat /\ w \in Nat /\ Raised(up, k + 1) = up * a /\ Raised(Wad, k + 1) = Wad * w
      BY <1>0, RaisedUnfolds
  <2>2. l \in Nat /\ r \in Nat /\ r = l + 1 /\ l <= Wad
      BY <1>0
  <2>3. a * r <= w * Wad
      BY <1>0, <1>1
  <2>. HIDE DEF a, w, l, r
  <2>4. up * l <= r * Wad
    <3>1. up * l = Wad * l + l
        BY <1>0, <2>2, SMT
    <3>2. r * Wad = Wad * l + Wad
        BY <1>0, <2>2, SMT
    <3>. QED
        BY <1>0, <2>2, <3>1, <3>2, ProductInNat
  <2>5. a * (up * l) <= a * (r * Wad)
      BY <1>0, <2>1, <2>2, <2>4, ProductInNat, ProductMonotone
  <2>6. (a * r) * Wad <= (w * Wad) * Wad
      BY <1>0, <2>1, <2>2, <2>3, ProductInNat, ProductMonotone
  <2>7. a * (up * l) = (up * a) * l /\ a * (r * Wad) = (a * r) * Wad
        /\ (w * Wad) * Wad = (Wad * w) * Wad
      BY <1>0, <2>1, <2>2, SMT
  <2>8. (up * a) * l \in Nat /\ (a * r) * Wad \in Nat /\ (Wad * w) * Wad \in Nat
      BY <1>0, <2>1, <2>2, ProductInNat
  <2>9. (up * a) * l <= (Wad * w) * Wad
      BY <2>5, <2>6, <2>7, <2>8
  <2>. QED
      BY <2>1, <2>9 DEF l
<1>2. 0 \in T
  <2>1. Raised(up, 0) = 1 /\ Raised(Wad, 0) = 1
      BY <1>0, RaisedUnfolds
  <2>. QED
      BY <1>0, <2>1
<1>3. Nat \subseteq T
  <2>. HIDE DEF T
  <2>. QED
      BY <1>1, <1>2, SetInduction
<1>4. n \in Nat /\ n <= Wad
    BY <1>0
<1>. QED
    BY <1>3, <1>4

-----------------------------------------------------------------------------
(* powWad does not overflow while the exact power leaves room              *)

\* x is at most the exact power of base.
Within(x, base, n) == x \in Nat /\ x * Raised(Wad, n) <= Wad * Raised(base, n)

\* Room(base, e): every product on the way to the power e fits.
Room(base, e) == Wad * (Wad * Raised(base, e)) <= MaxU128 * Raised(Wad, e)

LEMMA WithinProduct ==
    ASSUME NEW base \in Nat, base >= Wad, NEW x, NEW y, NEW m \in Nat, NEW n \in Nat,
           Within(x, base, m), Within(y, base, n),
           NEW e \in Nat, m + n <= e, Room(base, e)
    PROVE  Within(MulWad(x, y), base, m + n)
<1>. DEFINE bm == Raised(base, m)
            bn == Raised(base, n)
            wm == Raised(Wad, m)
            wn == Raised(Wad, n)
            l == e - (m + n)
            bl == Raised(base, l)
            wl == Raised(Wad, l)
            be == Raised(base, e)
            we == Raised(Wad, e)
            bb == bm * bn
            ww == wm * wn
            p == x * y
<1>1. Wad \in Nat \ {0} /\ MaxU128 \in Nat /\ x \in Nat /\ y \in Nat
    BY ConstantsTyped DEF Within
<1>2. x * wm <= Wad * bm /\ y * wn <= Wad * bn
    BY DEF Within
<1>3. l \in Nat /\ m + n \in Nat /\ (m + n) + l = e
    OBVIOUS
<1>4. /\ bm \in Nat /\ bn \in Nat /\ bl \in Nat /\ be \in Nat
      /\ wm \in Nat \ {0} /\ wn \in Nat \ {0} /\ wl \in Nat \ {0} /\ we \in Nat \ {0}
    BY <1>1, <1>3, RaisedUnfolds, RaisedPositive
<1>5. Raised(base, m + n) = bb /\ Raised(Wad, m + n) = ww
    BY <1>1, RaisedSums
<1>6. be = bb * bl /\ we = ww * wl
  <2>1. Raised(base, (m + n) + l) = Raised(base, m + n) * bl
      BY <1>3, RaisedSums
  <2>2. Raised(Wad, (m + n) + l) = Raised(Wad, m + n) * wl
      BY <1>1, <1>3, RaisedSums
  <2>. QED
      BY <1>3, <1>5, <2>1, <2>2
<1>7. wl <= bl
    BY <1>1, <1>3, RaisedMonotone
<1>8. Wad * (Wad * be) <= MaxU128 * we
    BY DEF Room
<1>. HIDE DEF bm, bn, wm, wn, l, bl, wl, be, we
<1>9. bb \in Nat /\ ww \in Nat /\ p \in Nat
    BY <1>1, <1>4, ProductInNat
<1>10. p * ww <= Wad * (Wad * bb)
  <2>. DEFINE xw == x * wm
              yw == y * wn
              xb == Wad * bm
              yb == Wad * bn
  <2>1. xw \in Nat /\ yw \in Nat /\ xb \in Nat /\ yb \in Nat
      BY <1>1, <1>4, ProductInNat
  <2>2. p * ww = xw * yw
      BY <1>1, <1>4, SMT
  <2>3. xb * yb = Wad * (Wad * bb)
      BY <1>1, <1>4, SMT
  <2>. HIDE DEF xw, yw, xb, yb, bb, ww, p
  <2>4. xw * yw <= xb * yb
      BY <1>2, <2>1, ProductsMonotone DEF xw, yw, xb, yb
  <2>. QED
      BY <2>2, <2>3, <2>4
<1>. HIDE DEF bb, ww, p
<1>11. p <= MaxU128
  <2>. DEFINE c == Wad * (Wad * bb)
  <2>1. c \in Nat /\ p * ww \in Nat
      BY <1>1, <1>9, ProductInNat
  <2>2. Wad * (Wad * be) = c * bl
      BY <1>1, <1>4, <1>6, <1>9, SMT
  <2>. HIDE DEF c
  <2>3. (p * ww) * wl <= c * bl
      BY <1>4, <1>7, <1>10, <2>1, ProductsMonotone DEF c
  <2>4. p * we = (p * ww) * wl
      BY <1>4, <1>6, <1>9, SMT
  <2>5. p * we <= MaxU128 * we
    <3>1. p * we \in Nat /\ c * bl \in Nat /\ MaxU128 * we \in Nat
        BY <1>1, <1>4, <1>9, <2>1, ProductInNat
    <3>. QED
        BY <1>8, <2>2, <2>3, <2>4, <3>1
  <2>. QED
      BY <1>1, <1>4, <1>9, <2>5, Cancel
<1>12. MulWad(x, y) # Overflow
  <2>1. p \div Wad \in Nat
      BY <1>1, <1>9, FloorBounds
  <2>2. x # Overflow /\ y # Overflow /\ p \div Wad # Overflow
      BY <1>1, <2>1, ConstantsTyped
  <2>. QED
      BY <1>1, <1>9, <1>11, <2>2 DEF MulWad, p
<1>. DEFINE z == MulWad(x, y)
<1>13. z \in Nat /\ z * Wad <= p
    BY <1>1, <1>12, MulWadValue DEF p
<1>. HIDE DEF z
<1>14. z * ww <= Wad * bb
  <2>1. (z * ww) * Wad <= (Wad * bb) * Wad
    <3>1. z * Wad \in Nat /\ p * ww \in Nat /\ Wad * (Wad * bb) \in Nat /\ (z * Wad) * ww \in Nat
        BY <1>1, <1>9, <1>13, ProductInNat
    <3>2. (z * Wad) * ww <= p * ww
        BY <1>9, <1>13, <3>1, ProductMonotone
    <3>3. (z * ww) * Wad = (z * Wad) * ww /\ (Wad * bb) * Wad = Wad * (Wad * bb)
        BY <1>1, <1>9, <1>13, SMT
    <3>. QED
        BY <1>10, <3>1, <3>2, <3>3
  <2>2. z * ww \in Nat /\ Wad * bb \in Nat
      BY <1>1, <1>9, <1>13, ProductInNat
  <2>. QED
      BY <1>1, <2>1, <2>2, Cancel
<1>. QED
    BY <1>5, <1>13, <1>14 DEF Within, z

\* powWad does not overflow while Wad times the exact power fits.
THEOREM PowWadFits ==
    ASSUME NEW base \in Nat, base >= Wad, NEW e \in Nat, Room(base, e)
    PROVE  PowWad(base, e) # Overflow
<1>. DEFINE T == {n \in Nat : \A rr, bb \in Fixed, ee \in 0..n, jj \in Nat, kk \in Nat \ {0} :
                    Within(rr, base, jj) /\ Within(bb, base, kk) /\ jj + ee * kk <= e =>
                        PowLoop[<<rr, bb, ee>>] # Overflow}
<1>1. ASSUME NEW rr \in Fixed, NEW bb \in Fixed, NEW jj \in Nat, Within(rr, base, jj)
      PROVE  PowLoop[<<rr, bb, 0>>] # Overflow
    BY <1>1, PowLoopUnfolds, ConstantsTyped DEF Within
<1>2. 0 \in T
  <2>1. \A ee \in 0..0 : ee = 0
      OBVIOUS
  <2>. QED
      BY <1>1, <2>1
<1>3. ASSUME NEW n \in Nat, n \in T PROVE n + 1 \in T
  <2>1. ASSUME NEW rr \in Fixed, NEW bb \in Fixed, NEW ee \in 0..(n + 1),
               NEW jj \in Nat, NEW kk \in Nat \ {0},
               Within(rr, base, jj), Within(bb, base, kk), jj + ee * kk <= e
        PROVE  PowLoop[<<rr, bb, ee>>] # Overflow
    <3>1. CASE ee = 0
        BY <1>1, <2>1, <3>1
    <3>2. CASE ee # 0
      <4>. DEFINE h == ee \div 2
                  r1 == IF ee % 2 = 1 THEN MulWad(rr, bb) ELSE rr
                  b1 == IF ee > 1 THEN MulWad(bb, bb) ELSE bb
                  j1 == IF ee % 2 = 1 THEN jj + kk ELSE jj
                  k1 == IF ee > 1 THEN kk + kk ELSE kk
      <4>1. h \in 0..n /\ ee \in Nat /\ (ee % 2 = 1 => ee = 2 * h + 1)
            /\ (ee % 2 # 1 => ee = 2 * h) /\ (ee = 1 => h = 0)
          BY <3>2
      <4>2. PowLoop[<<rr, bb, ee>>] = PowLoop[<<r1, b1, h>>]
          BY <3>2, <4>1, PowLoopUnfolds DEF Turn
      <4>3. r1 \in Fixed /\ b1 \in Fixed
          BY MulWadTyped
      <4>4. j1 \in Nat /\ k1 \in Nat \ {0}
          OBVIOUS
      <4>5. j1 + h * k1 = jj + ee * kk
          BY <3>2, TurnExponents
      <4>6. kk <= ee * kk /\ (ee > 1 => kk + kk <= ee * kk) /\ ee * kk \in Nat /\ kk \in Nat
        <5>1. kk \in Nat /\ ee \in Nat /\ ee >= 1
            BY <3>2
        <5>2. 1 * kk <= ee * kk
            BY <5>1, ProductMonotone
        <5>3. ee > 1 => 2 * kk <= ee * kk
            BY <5>1, ProductMonotone
        <5>. QED
            BY <5>1, <5>2, <5>3, ProductInNat
      <4>7. Within(r1, base, j1)
        <5>1. CASE ee % 2 = 1
          <6>1. jj + kk <= e
              BY <2>1, <4>6
          <6>2. Within(MulWad(rr, bb), base, jj + kk)
              BY <2>1, <4>6, <6>1, WithinProduct
          <6>. QED
              BY <5>1, <6>2
        <5>2. CASE ee % 2 # 1
            BY <2>1, <5>2
        <5>. QED
            BY <5>1, <5>2
      <4>8. Within(b1, base, k1)
        <5>1. CASE ee > 1
          <6>1. kk + kk <= e
              BY <2>1, <4>6, <5>1
          <6>2. Within(MulWad(bb, bb), base, kk + kk)
              BY <2>1, <4>6, <6>1, WithinProduct
          <6>. QED
              BY <5>1, <6>2
        <5>2. CASE ~(ee > 1)
            BY <2>1, <5>2
        <5>. QED
            BY <5>1, <5>2
      <4>9. j1 + h * k1 <= e
          BY <2>1, <4>5
      <4>. HIDE DEF r1, b1, j1, k1, h
      <4>10. PowLoop[<<r1, b1, h>>] # Overflow
          BY <1>3, <4>1, <4>3, <4>4, <4>7, <4>8, <4>9
      <4>. QED
          BY <4>2, <4>10
    <3>. QED
        BY <3>1, <3>2
  <2>2. n + 1 \in Nat
      OBVIOUS
  <2>. QED
      BY <2>1, <2>2
<1>4. Nat \subseteq T
  <2>. HIDE DEF T
  <2>. QED
      BY <1>2, <1>3, SetInduction
<1>5. e \in T /\ e \in 0..e
    BY <1>4
<1>6. Within(Wad, base, 0) /\ Within(base, base, 1)
  <2>1. Wad \in Nat
      BY ConstantsTyped
  <2>2. /\ Raised(Wad, 0) = 1 /\ Raised(base, 0) = 1
        /\ Raised(Wad, 0 + 1) = Wad * Raised(Wad, 0)
        /\ Raised(base, 0 + 1) = base * Raised(base, 0)
      BY <2>1, RaisedUnfolds
  <2>3. Raised(Wad, 1) = Wad /\ Raised(base, 1) = base
      BY <2>1, <2>2
  <2>4. base * Wad <= Wad * base
      BY <2>1, SMT
  <2>. QED
      BY <2>1, <2>2, <2>3, <2>4 DEF Within
<1>7. Wad \in Fixed /\ base \in Fixed /\ 0 + e * 1 = e
    BY ConstantsTyped DEF Fixed
<1>8. PowLoop[<<Wad, base, e>>] # Overflow
    BY <1>5, <1>6, <1>7
<1>. QED
    BY <1>8 DEF PowWad

\* The whole days leave room for a day more: the power before q, and any s that is
\* behind base by the roundings of the days, multiply to no more than q.
LEMMA DayBefore ==
    ASSUME NEW base \in Nat, base >= Wad, NEW s \in Nat, s >= Wad, NEW d \in Nat,
           s * Raised(Wad + 1, d) <= base * Raised(Wad, d),
           PowWad(base, d + 1) # Overflow, PowWad(base, d + 1) * Wad <= MaxU128
    PROVE  /\ PowWad(base, d) # Overflow
           /\ PowWad(base, d) * s <= PowWad(base, d + 1) * Wad
<1>. DEFINE q == PowWad(base, d + 1)
            p == PowWad(base, d)
            bd == Raised(base, d)
            wd == Raised(Wad, d)
            ud == Raised(Wad + 1, d)
            c == ud * wd
<1>1. Wad \in Nat \ {0} /\ Wad + 1 \in Nat \ {0} /\ MaxU128 \in Nat /\ d + 1 \in Nat
    BY ConstantsTyped
<1>2. /\ bd \in Nat /\ wd \in Nat \ {0} /\ ud \in Nat \ {0}
      /\ Raised(base, d + 1) = base * bd
    BY <1>1, RaisedUnfolds, RaisedPositive
<1>3. q \in Nat /\ base * bd <= q * ud
  <2>1. Close(q, base, d + 1)
      BY <1>1, PowWadIsClose DEF CloseIfItFits
  <2>2. d + 1 > 0 /\ (d + 1) - 1 = d
      OBVIOUS
  <2>. QED
      BY <1>2, <2>1, <2>2 DEF Close
<1>4. s * ud <= base * wd /\ q * Wad <= MaxU128
    OBVIOUS
<1>. HIDE DEF q, bd, wd, ud
<1>5. c \in Nat \ {0}
    BY <1>2, SMT
\* The exact power, times s, is below q, scaled alike.
<1>6. (bd * s) * ud <= q * c
  <2>1. bd * (s * ud) <= bd * (base * wd)
      BY <1>1, <1>2, <1>4, ProductInNat, ProductMonotone
  <2>2. (base * bd) * wd <= (q * ud) * wd
      BY <1>1, <1>2, <1>3, ProductInNat, ProductMonotone
  <2>3. /\ bd * (s * ud) = (bd * s) * ud /\ bd * (base * wd) = (base * bd) * wd
        /\ (q * ud) * wd = q * c
      BY <1>1, <1>2, <1>3, SMT
  <2>4. (bd * s) * ud \in Nat /\ (base * bd) * wd \in Nat /\ q * c \in Nat
      BY <1>2, <1>3, <1>5, ProductInNat
  <2>. HIDE DEF c
  <2>. QED
      BY <2>1, <2>2, <2>3, <2>4
<1>. HIDE DEF c
<1>7. Wad * ((bd * s) * ud) <= Wad * (q * c) /\ Wad * (q * c) = (q * Wad) * c
  <2>1. (bd * s) * ud \in Nat /\ q * c \in Nat
      BY <1>2, <1>3, <1>5, ProductInNat
  <2>2. Wad * ((bd * s) * ud) <= Wad * (q * c)
      BY <1>1, <1>6, <2>1, ProductMonotone
  <2>3. Wad * (q * c) = (q * Wad) * c
      BY <1>1, <1>3, <1>5, SMT
  <2>. QED
      BY <2>2, <2>3
<1>8. Room(base, d)
  <2>. DEFINE big == Wad * bd
  <2>0. big \in Nat
      BY <1>1, <1>2, ProductInNat
  <2>1. (Wad * big) * ud <= (MaxU128 * wd) * ud
    <3>1. (Wad * big) * ud <= Wad * ((bd * s) * ud)
      <4>1. Wad * big <= s * big
          BY <1>1, <2>0, ProductMonotone
      <4>2. (Wad * big) * ud <= (s * big) * ud
          BY <1>1, <1>2, <2>0, <4>1, ProductInNat, ProductMonotone
      <4>3. (s * big) * ud = Wad * ((bd * s) * ud)
          BY <1>1, <1>2, SMT
      <4>. QED
          BY <4>2, <4>3
    <3>2. (q * Wad) * c <= MaxU128 * c
        BY <1>1, <1>3, <1>4, <1>5, ProductInNat, ProductMonotone
    <3>3. MaxU128 * c = (MaxU128 * wd) * ud
        BY <1>1, <1>2, SMT DEF c
    <3>4. /\ (Wad * big) * ud \in Nat /\ Wad * ((bd * s) * ud) \in Nat
          /\ (q * Wad) * c \in Nat /\ MaxU128 * c \in Nat
        BY <1>1, <1>2, <1>3, <1>5, <2>0, ProductInNat
    <3>. HIDE DEF big
    <3>. QED
        BY <1>7, <3>1, <3>2, <3>3, <3>4
  <2>2. Wad * big \in Nat /\ MaxU128 * wd \in Nat
      BY <1>1, <1>2, <2>0, ProductInNat
  <2>3. Wad * big <= MaxU128 * wd
      BY <1>2, <2>1, <2>2, Cancel
  <2>. QED
      BY <2>3 DEF Room, bd, wd
<1>9. p # Overflow
    BY <1>8, PowWadFits
<1>10. p \in Nat /\ p * wd <= Wad * bd
  <2>1. Close(p, base, d)
      BY <1>9, PowWadIsClose DEF CloseIfItFits
  <2>2. CASE d = 0
    <3>1. wd = 1 /\ bd = 1
        BY <1>1, <2>2, RaisedUnfolds DEF wd, bd
    <3>2. p = Wad
        BY <2>1, <2>2 DEF Close
    <3>. QED
        BY <1>1, <3>1, <3>2
  <2>3. CASE d # 0
    <3>. DEFINE w1 == Raised(Wad, d - 1)
    <3>1. d - 1 \in Nat /\ (d - 1) + 1 = d
        BY <2>3
    <3>2. w1 \in Nat /\ Raised(Wad, (d - 1) + 1) = Wad * w1
        BY <1>1, <3>1, RaisedUnfolds
    <3>3. wd = Wad * w1
        BY <3>1, <3>2 DEF wd
    <3>4. p \in Nat /\ p * w1 <= bd
        BY <2>1, <2>3 DEF Close, bd
    <3>. HIDE DEF w1, p
    <3>5. Wad * (p * w1) <= Wad * bd
        BY <1>1, <1>2, <3>2, <3>4, ProductInNat, ProductMonotone
    <3>6. p * (Wad * w1) = Wad * (p * w1)
        BY <1>1, <3>2, <3>4, SMT
    <3>. QED
        BY <3>3, <3>4, <3>5, <3>6
  <2>. QED
      BY <2>2, <2>3
<1>. HIDE DEF p
<1>11. (p * s) * c <= (q * Wad) * c
  <2>. DEFINE su == s * ud
  <2>1. su \in Nat /\ p * wd \in Nat /\ Wad * bd \in Nat
      BY <1>1, <1>2, <1>10, ProductInNat
  <2>2. (p * wd) * su <= (Wad * bd) * su
      BY <1>10, <2>1, ProductMonotone
  <2>3. (p * s) * c = (p * wd) * su
      BY <1>1, <1>2, <1>10, SMT DEF c
  <2>4. (Wad * bd) * su = Wad * ((bd * s) * ud)
      BY <1>1, <1>2, SMT
  <2>5. /\ (p * wd) * su \in Nat /\ (Wad * bd) * su \in Nat /\ (q * Wad) * c \in Nat
      BY <1>1, <1>3, <1>5, <2>1, ProductInNat
  <2>. HIDE DEF su
  <2>. QED
      BY <1>7, <2>2, <2>3, <2>4, <2>5
<1>12. p * s \in Nat /\ q * Wad \in Nat
    BY <1>1, <1>3, <1>10, ProductInNat
<1>13. p * s <= q * Wad
    BY <1>5, <1>11, <1>12, Cancel
<1>. QED
    BY <1>9, <1>13 DEF p, q

LEMMA RoundingsAreSmall ==
    ASSUME NEW base \in Nat, NEW s \in Nat, NEW d \in 0..Wad, base <= 2 * Wad, s + 2 * d <= base
    PROVE  s * Raised(Wad + 1, d) <= base * Raised(Wad, d)
<1>. DEFINE a == Raised(Wad + 1, d)
            b == Raised(Wad, d)
            l == Wad - d
<1>1. Wad \in Nat \ {0} /\ Wad + 1 \in Nat /\ d \in Nat /\ l \in Nat
    BY ConstantsTyped
<1>2. a \in Nat /\ b \in Nat
    BY <1>1, RaisedUnfolds
<1>3. a * l <= b * Wad
    BY Bernoulli
<1>4. s * Wad <= base * l
  <2>1. base * l = base * Wad - base * d
      BY <1>1, SMT
  <2>2. base * d <= (2 * Wad) * d
      BY <1>1, ProductMonotone
  <2>3. (s + 2 * d) * Wad <= base * Wad
      BY <1>1, ProductMonotone
  <2>4. (s + 2 * d) * Wad = s * Wad + (2 * Wad) * d
      BY <1>1, SMT
  <2>5. base * d \in Nat /\ base * Wad \in Nat /\ s * Wad \in Nat /\ (2 * Wad) * d \in Nat
      BY <1>1, ProductInNat
  <2>. QED
      BY <2>1, <2>2, <2>3, <2>4, <2>5
<1>. HIDE DEF a, b, l
<1>5. (s * a) * Wad <= (base * b) * Wad
  <2>1. (s * Wad) * a <= (base * l) * a
      BY <1>1, <1>2, <1>4, ProductInNat, ProductMonotone
  <2>2. base * (a * l) <= base * (b * Wad)
      BY <1>1, <1>2, <1>3, ProductInNat, ProductMonotone
  <2>3. /\ (s * Wad) * a = (s * a) * Wad /\ (base * l) * a = base * (a * l)
        /\ base * (b * Wad) = (base * b) * Wad
      BY <1>1, <1>2, SMT
  <2>4. (s * a) * Wad \in Nat /\ base * (a * l) \in Nat /\ (base * b) * Wad \in Nat
      BY <1>1, <1>2, ProductInNat
  <2>. QED
      BY <2>1, <2>2, <2>3, <2>4
<1>6. s * a \in Nat /\ base * b \in Nat
    BY <1>2, ProductInNat
<1>7. s * a <= base * b
    BY <1>1, <1>5, <1>6, Cancel
<1>. QED
    BY <1>7 DEF a, b

\* The powers of one are one.
LEMMA PowersOfOne ==
    ASSUME NEW d \in Nat
    PROVE  PowWad(Wad, d) = Wad
<1>. DEFINE p == PowWad(Wad, d)
            w == Raised(Wad, d)
<1>1. Wad \in Nat \ {0} /\ MaxU128 \in Nat /\ Wad * Wad <= MaxU128
    BY ConstantsTyped
<1>2. w \in Nat \ {0}
    BY <1>1, RaisedPositive
<1>3. Room(Wad, d)
  <2>. HIDE DEF w
  <2>1. (Wad * Wad) * w <= MaxU128 * w
      BY <1>1, <1>2, ProductInNat, ProductMonotone
  <2>2. (Wad * Wad) * w = Wad * (Wad * w)
      BY <1>1, <1>2, SMT
  <2>. QED
      BY <2>1, <2>2 DEF Room, w
<1>4. Close(p, Wad, d)
    BY <1>1, <1>3, PowWadFits, PowWadIsClose DEF CloseIfItFits
<1>5. CASE d = 0
    BY <1>4, <1>5 DEF Close
<1>6. CASE d # 0
  <2>. DEFINE w1 == Raised(Wad, d - 1)
  <2>1. d - 1 \in Nat /\ (d - 1) + 1 = d
      BY <1>6
  <2>2. w1 \in Nat \ {0} /\ Raised(Wad, (d - 1) + 1) = Wad * w1
      BY <1>1, <2>1, RaisedUnfolds, RaisedPositive
  <2>3. p \in Nat /\ p >= Wad /\ p * w1 <= w
      BY <1>4, <1>6 DEF Close
  <2>4. w = Wad * w1
      BY <2>1, <2>2
  <2>. HIDE DEF p, w, w1
  <2>5. p <= Wad
      BY <1>1, <2>2, <2>3, <2>4, Cancel
  <2>. QED
      BY <1>1, <2>3, <2>5 DEF p
<1>. QED
    BY <1>5, <1>6

-----------------------------------------------------------------------------
(* Interest grows with time                                                *)

\* a is at most b; what does not fit is the largest.
NoMore(a, b) == b = Overflow \/ (a \in Nat /\ b \in Nat /\ a <= b)

LEMMA MulWadMonotone ==
    ASSUME NEW a, NEW b, NEW c, NEW d, NoMore(a, b), NoMore(c, d)
    PROVE  NoMore(MulWad(a, c), MulWad(b, d))
<1>1. CASE b = Overflow \/ d = Overflow
    BY <1>1 DEF MulWad, NoMore
<1>2. CASE b # Overflow /\ d # Overflow
  <2>1. a \in Nat /\ b \in Nat /\ c \in Nat /\ d \in Nat /\ a <= b /\ c <= d
      BY <1>2 DEF NoMore
  <2>. DEFINE p == a * c
              q == b * d
  <2>2. p \in Nat /\ q \in Nat /\ p <= q
      BY <2>1, ProductInNat, ProductsMonotone
  <2>3. Wad \in Nat \ {0} /\ MaxU128 \in Nat /\ a # Overflow /\ c # Overflow
      BY <2>1, ConstantsTyped
  <2>4. MulWad(a, c) = IF p > MaxU128 THEN Overflow ELSE p \div Wad
      BY <2>3 DEF MulWad
  <2>5. MulWad(b, d) = IF q > MaxU128 THEN Overflow ELSE q \div Wad
      BY <1>2 DEF MulWad
  <2>. HIDE DEF p, q
  <2>6. p \div Wad \in Nat /\ q \div Wad \in Nat /\ p \div Wad <= q \div Wad
      BY <2>2, <2>3, QuotientMonotone, FloorBounds
  <2>7. CASE q > MaxU128
      BY <2>5, <2>7 DEF NoMore
  <2>8. CASE ~(q > MaxU128)
    <3>1. ~(p > MaxU128)
        BY <2>2, <2>3, <2>8
    <3>. QED
        BY <2>4, <2>5, <2>6, <2>8, <3>1 DEF NoMore
  <2>. QED
      BY <2>7, <2>8
<1>. QED
    BY <1>1, <1>2

\* A day's interest is the interest of all its seconds but the last, and more than
\* the roundings of the days before.
LEMMA LastSecondPays ==
    ASSUME NEW rate \in StoredRates, rate # 0, NEW days \in 0..(Maturity \div SecondsPerDay)
    PROVE  /\ SubDay(rate, SecondsPerDay - 1) + 2 * days <= DailyBase(rate)
           /\ DailyBase(rate) <= 2 * Wad
<1>. DEFINE year == DaysPerYear * Bps
            all == SecondsPerDay * DaysPerYear * Bps
            n == rate * Wad
            last == SecondsPerDay - 1
            m == rate * last * Wad
            x == n \div year
            y == m \div all
            k == 2 * days + 1
<1>1. /\ rate \in Nat /\ Wad \in Nat /\ last \in Nat /\ SecondsPerDay \in Nat
      /\ SecondsPerDay = last + 1
    BY ConstantsTyped, StoredRatesTyped
<1>2. year \in Nat \ {0} /\ all = SecondsPerDay * year
    BY ConstantsTyped, SMT
<1>3. all \in Nat \ {0}
    BY <1>2, ConstantsTyped, SMT
<1>4. n \in Nat /\ m = n * last
    BY <1>1, ProductInNat, SMT
<1>5. DailyBase(rate) = Wad + x /\ SubDay(rate, SecondsPerDay - 1) = Wad + y
    BY DEF DailyBase, SubDay
<1>6. Maturity \div SecondsPerDay \in Nat
    BY ConstantsTyped, FloorBounds
<1>7. DailyBase(rate) <= 2 * Wad
      /\ (2 * (Maturity \div SecondsPerDay) + 1) * all <= n
    BY RatesAssumption
<1>8. k \in Nat /\ k * all <= n
  <2>. DEFINE j == 2 * (Maturity \div SecondsPerDay) + 1
  <2>1. j \in Nat /\ k \in Nat /\ k <= j
      BY <1>6
  <2>2. j * all <= n
      BY <1>7
  <2>. HIDE DEF j, k, n, all
  <2>3. k * all <= j * all /\ k * all \in Nat /\ j * all \in Nat
      BY <1>3, <2>1, ProductInNat, ProductMonotone
  <2>. QED
      BY <1>4, <2>1, <2>2, <2>3
<1>. HIDE DEF year, all, n, last, m, k
<1>8a. m \in Nat
    BY <1>1, <1>4, ProductInNat
<1>9. x \in Nat /\ n < x * year + year
    BY <1>2, <1>4, FloorBounds
<1>10. y \in Nat /\ y * all <= m
    BY <1>3, <1>8a, FloorBounds
<1>. HIDE DEF x, y
<1>11. n * SecondsPerDay = m + n
    BY <1>1, <1>4, SMT
<1>12. n * SecondsPerDay < (x + 1) * all
  <2>1. (x + 1) * year = x * year + year
      BY <1>2, <1>9, SMT
  <2>2. n + 1 <= (x + 1) * year
      BY <1>2, <1>4, <1>9, <2>1, ProductInNat
  <2>3. (n + 1) * SecondsPerDay <= ((x + 1) * year) * SecondsPerDay
      BY <1>1, <1>2, <1>4, <1>9, <2>2, ProductInNat, ProductMonotone
  <2>4. ((x + 1) * year) * SecondsPerDay = (x + 1) * all
      BY <1>1, <1>2, <1>9, SMT
  <2>5. (n + 1) * SecondsPerDay = n * SecondsPerDay + SecondsPerDay
      BY <1>1, <1>4, SMT
  <2>6. n * SecondsPerDay \in Nat /\ (x + 1) * all \in Nat /\ SecondsPerDay > 0
      BY <1>1, <1>3, <1>4, <1>9, ProductInNat
  <2>. QED
      BY <1>1, <2>3, <2>4, <2>5, <2>6
<1>13. (y + k) * all < (x + 1) * all
  <2>1. (y + k) * all = y * all + k * all
      BY <1>3, <1>8, <1>10, SMT
  <2>2. y * all \in Nat /\ k * all \in Nat /\ (x + 1) * all \in Nat
      BY <1>3, <1>8, <1>9, <1>10, ProductInNat
  <2>. QED
      BY <1>4, <1>8, <1>8a, <1>10, <1>11, <1>12, <2>1, <2>2
<1>14. y + k < x + 1
  <2>1. y + k \in Nat /\ x + 1 \in Nat
      BY <1>8, <1>9, <1>10
  <2>2. SUFFICES ASSUME x + 1 <= y + k PROVE FALSE
      BY <2>1
  <2>3. (x + 1) * all <= (y + k) * all
      BY <1>3, <2>1, <2>2, ProductMonotone
  <2>4. (x + 1) * all \in Nat /\ (y + k) * all \in Nat
      BY <1>3, <2>1, ProductInNat
  <2>. QED
      BY <1>13, <2>3, <2>4
<1>15. y + 2 * days <= x
    BY <1>6, <1>9, <1>10, <1>14 DEF k
<1>. QED
    BY <1>1, <1>5, <1>6, <1>7, <1>9, <1>10, <1>15

LEMMA SubDayFacts ==
    ASSUME NEW rate \in Nat, NEW seconds \in Nat
    PROVE  /\ SubDay(rate, seconds) \in Nat /\ SubDay(rate, seconds) >= Wad
           /\ SubDay(rate, 0) = Wad
           /\ SubDay(0, seconds) = Wad
           /\ SubDay(rate, seconds) <= SubDay(rate, seconds + 1)
<1>. DEFINE all == SecondsPerDay * DaysPerYear * Bps
            n == rate * seconds * Wad
            n1 == rate * (seconds + 1) * Wad
<1>1. all \in Nat \ {0}
  <2>1. SecondsPerDay * DaysPerYear \in Nat \ {0}
      BY ConstantsTyped, SMT
  <2>. QED
      BY <2>1, ConstantsTyped, SMT
<1>2. n \in Nat /\ n1 \in Nat /\ n <= n1
  <2>. DEFINE a == rate * seconds
              b == rate * (seconds + 1)
  <2>1. a \in Nat /\ b \in Nat /\ a <= b
      BY ProductInNat, ProductMonotone
  <2>. HIDE DEF a, b
  <2>2. a * Wad \in Nat /\ b * Wad \in Nat /\ a * Wad <= b * Wad
      BY <2>1, ConstantsTyped, ProductInNat, ProductMonotone
  <2>. QED
      BY <2>2 DEF a, b
<1>3. /\ SubDay(rate, seconds) = Wad + n \div all
      /\ SubDay(rate, seconds + 1) = Wad + n1 \div all
      /\ SubDay(rate, 0) = Wad + 0 \div all /\ SubDay(0, seconds) = Wad + 0 \div all
  <2>1. rate * 0 * Wad = 0 /\ 0 * seconds * Wad = 0
      BY ConstantsTyped
  <2>. QED
      BY <2>1 DEF SubDay
<1>. HIDE DEF all, n, n1
<1>4. n \div all \in Nat /\ n1 \div all \in Nat /\ n \div all <= n1 \div all /\ 0 \div all = 0
    BY <1>1, <1>2, FloorBounds, QuotientMonotone, SMT
<1>. QED
    BY <1>3, <1>4, ConstantsTyped

LEMMA GrowthForm ==
    ASSUME NEW rate \in Nat, NEW elapsed \in Nat
    PROVE  GrowthFactorWad(rate, elapsed) =
              MulWad(PowWad(DailyBase(rate), elapsed \div SecondsPerDay),
                     SubDay(rate, elapsed % SecondsPerDay))
<1>1. CASE elapsed = 0
  <2>1. elapsed \div SecondsPerDay = 0 /\ elapsed % SecondsPerDay = 0
      BY <1>1, ConstantsTyped
  <2>2. PowWad(DailyBase(rate), 0) = Wad
    <3>1. DailyBase(rate) \in Fixed /\ Wad \in Fixed
        BY DailyBaseTyped, ConstantsTyped DEF Fixed
    <3>. QED
        BY <3>1, PowLoopUnfolds DEF PowWad
  <2>3. SubDay(rate, 0) = Wad
      BY SubDayFacts
  <2>4. MulWad(Wad, Wad) = Wad
      BY ConstantsTyped, MulWadFacts
  <2>. QED
      BY <1>1, <2>1, <2>2, <2>3, <2>4 DEF GrowthFactorWad
<1>2. CASE elapsed # 0
    BY <1>2 DEF GrowthFactorWad
<1>. QED
    BY <1>1, <1>2

\* One second more of interest is never less of it.
LEMMA GrowthGrows ==
    ASSUME NEW rate \in StoredRates, NEW elapsed \in Nat, elapsed + 1 <= Maturity
    PROVE  NoMore(GrowthFactorWad(rate, elapsed), GrowthFactorWad(rate, elapsed + 1))
<1>. DEFINE base == DailyBase(rate)
            days == elapsed \div SecondsPerDay
            rest == elapsed % SecondsPerDay
            days1 == (elapsed + 1) \div SecondsPerDay
            rest1 == (elapsed + 1) % SecondsPerDay
            now0 == MulWad(PowWad(base, days), SubDay(rate, rest))
            next == MulWad(PowWad(base, days1), SubDay(rate, rest1))
<1>1. rate \in Nat /\ base \in Nat /\ base >= Wad /\ Wad \in Nat \ {0} /\ MaxU128 \in Nat
    BY StoredRatesTyped, DailyBaseTyped, ConstantsTyped
<1>2. /\ days \in Nat /\ rest \in 0..(SecondsPerDay - 1) /\ days1 \in Nat /\ rest1 \in Nat
      /\ elapsed = days * SecondsPerDay + rest
      /\ elapsed + 1 = days1 * SecondsPerDay + rest1 /\ rest1 < SecondsPerDay
      /\ SecondsPerDay \in Nat \ {0}
  <2>1. SecondsPerDay \in Nat \ {0} /\ elapsed \in Nat /\ elapsed + 1 \in Nat
      BY ConstantsTyped
  <2>2. days \in Nat /\ rest \in 0..(SecondsPerDay - 1) /\ elapsed = days * SecondsPerDay + rest
      BY <2>1, DivisionParts
  <2>3. /\ days1 \in Nat /\ rest1 \in 0..(SecondsPerDay - 1)
        /\ elapsed + 1 = days1 * SecondsPerDay + rest1
      BY <2>1, DivisionParts
  <2>. HIDE DEF days, rest, days1, rest1
  <2>. QED
      BY <2>1, <2>2, <2>3
<1>3. GrowthFactorWad(rate, elapsed) = now0 /\ GrowthFactorWad(rate, elapsed + 1) = next
    BY <1>1, GrowthForm
<1>4. CASE rest + 1 < SecondsPerDay
  <2>1. days1 = days /\ rest1 = rest + 1
    <3>1. rest + 1 \in Nat /\ elapsed + 1 = days * SecondsPerDay + (rest + 1)
        BY <1>2, ProductInNat
    <3>. QED
        BY <1>2, <1>4, <3>1, DivisionUnique
  <2>2. NoMore(PowWad(base, days), PowWad(base, days))
      BY <1>1, <1>2, PowerTyped DEF NoMore
  <2>3. NoMore(SubDay(rate, rest), SubDay(rate, rest + 1))
    <3>1. rest \in Nat /\ rest + 1 \in Nat
        BY <1>2
    <3>. QED
        BY <1>1, <3>1, SubDayFacts DEF NoMore
  <2>4. NoMore(now0, next)
      BY <2>1, <2>2, <2>3, MulWadMonotone
  <2>. QED
      BY <1>3, <2>4
<1>5. CASE ~(rest + 1 < SecondsPerDay)
  <2>1. days1 = days + 1 /\ rest1 = 0 /\ rest = SecondsPerDay - 1
    <3>1. rest = SecondsPerDay - 1
        BY <1>2, <1>5
    <3>2. (days + 1) * SecondsPerDay = days * SecondsPerDay + SecondsPerDay
          /\ days * SecondsPerDay \in Nat
        BY <1>2, ProductInNat, SMT
    <3>3. elapsed + 1 = (days + 1) * SecondsPerDay + 0
        BY <1>2, <3>1, <3>2
    <3>4. days1 * SecondsPerDay + rest1 = (days + 1) * SecondsPerDay + 0
        BY <1>2, <3>3
    <3>5. days + 1 \in Nat /\ 0 < SecondsPerDay
        BY <1>2
    <3>. HIDE DEF days, days1, rest, rest1
    <3>. QED
        BY <1>2, <3>1, <3>4, <3>5, DivisionUnique
  <2>. DEFINE q == PowWad(base, days + 1)
              p == PowWad(base, days)
              s == SubDay(rate, SecondsPerDay - 1)
  <2>2. s \in Nat /\ s >= Wad /\ SubDay(rate, rest1) = Wad
    <3>1. SecondsPerDay - 1 \in Nat
        BY <1>2
    <3>. QED
        BY <1>1, <2>1, <3>1, SubDayFacts
  <2>3. next = MulWad(q, Wad) /\ now0 = MulWad(p, s)
      BY <2>1, <2>2
  <2>4. (q # Overflow => q \in Nat /\ q >= Wad) /\ (p # Overflow => p \in Nat)
    <3>1. days + 1 \in Nat
        BY <1>2
    <3>. QED
        BY <1>1, <1>2, <3>1, PowerTyped
  <2>5. CASE q = Overflow \/ q * Wad > MaxU128
    <3>1. next = Overflow
        BY <2>3, <2>5 DEF MulWad
    <3>. QED
        BY <1>3, <3>1 DEF NoMore
  <2>6. CASE q # Overflow /\ q * Wad <= MaxU128
    <3>1. next = q /\ q \in Nat
      <4>. HIDE DEF q
      <4>1. q \in Nat /\ Wad \in Nat /\ q * Wad <= MaxU128
          BY <1>1, <2>4, <2>6
      <4>2. MulWad(q, Wad) = q
          BY <4>1, MulWadFacts
      <4>. QED
          BY <2>3, <4>1, <4>2
    <3>2. p # Overflow /\ p * s <= q * Wad
      <4>1. CASE rate = 0
        <5>1. base = Wad
          <6>1. 0 * Wad = 0 /\ DaysPerYear * Bps \in Nat \ {0}
              BY ConstantsTyped, SMT
          <6>2. 0 \div (DaysPerYear * Bps) = 0
              BY <6>1, SMT
          <6>. QED
              BY <4>1, <6>1, <6>2, ConstantsTyped DEF DailyBase
        <5>2. p = Wad /\ q = Wad
            BY <1>2, <5>1, PowersOfOne
        <5>3. s = Wad
          <6>1. SecondsPerDay - 1 \in Nat
              BY <1>2
          <6>. QED
              BY <4>1, <6>1, SubDayFacts
        <5>. HIDE DEF p, q, s
        <5>. QED
            BY <1>1, <5>2, <5>3, ConstantsTyped, ProductInNat
      <4>2. CASE rate # 0
        <5>1. days + 1 <= Maturity \div SecondsPerDay /\ Maturity \div SecondsPerDay \in Nat
          <6>1. Maturity \in Nat
              BY ConstantsTyped
          <6>2. elapsed + 1 = (days + 1) * SecondsPerDay + 0
            <7>1. (days + 1) * SecondsPerDay + 0 = days1 * SecondsPerDay + rest1
                BY <2>1
            <7>. QED
                BY <1>2, <7>1
          <6>. QED
              BY <1>2, <6>1, <6>2, QuotientAtLeast
        <5>2. days \in 0..(Maturity \div SecondsPerDay)
            BY <1>2, <5>1
        <5>3. s + 2 * days <= base /\ base <= 2 * Wad
            BY <4>2, <5>2, LastSecondPays
        <5>. HIDE DEF s, base, p, q, days
        <5>4. days \in 0..Wad
            BY <1>1, <1>2, <2>2, <5>3
        <5>5. s * Raised(Wad + 1, days) <= base * Raised(Wad, days)
            BY <1>1, <2>2, <5>3, <5>4, RoundingsAreSmall
        <5>. QED
            BY <1>1, <1>2, <2>2, <2>6, <5>5, DayBefore DEF p, q
      <4>. QED
          BY <4>1, <4>2
    <3>3. now0 \in Nat /\ now0 <= q
      <4>1. p \in Nat
          BY <2>4, <3>2
      <4>. HIDE DEF p, q, s
      <4>2. p * s \in Nat /\ q * Wad \in Nat /\ s # Overflow
          BY <1>1, <2>2, <3>1, <4>1, ProductInNat, ConstantsTyped
      <4>3. now0 = (p * s) \div Wad
          BY <1>1, <2>3, <2>6, <3>2, <4>2 DEF MulWad
      <4>4. (p * s) \div Wad \in Nat /\ (p * s) \div Wad <= (q * Wad) \div Wad
          BY <1>1, <3>2, <4>2, FloorBounds, QuotientMonotone
      <4>5. (q * Wad) \div Wad = q
          BY <1>1, <3>1, SMT
      <4>. QED
          BY <4>3, <4>4, <4>5
    <3>. QED
        BY <1>3, <3>1, <3>3 DEF NoMore
  <2>. QED
      BY <2>4, <2>5, <2>6, <1>1, ProductInNat
<1>. QED
    BY <1>4, <1>5

LEMMA FeeGrows ==
    ASSUME NEW m \in Markets, NEW g \in Nat, NEW h \in Nat, g <= h, NEW fee \in Nat
    PROVE  FeeDelta(m, g, fee) <= FeeDelta(m, h, fee)
<1>. DEFINE base == CalculateNormalizedAmount(m.supply, m.factor)
            gx == Surplus(g, Wad)
            hx == Surplus(h, Wad)
            gr == (gx * fee) \div Bps
            hr == (hx * fee) \div Bps
<1>1. base \in Nat /\ Wad \in Nat \ {0} /\ Bps \in Nat \ {0}
    BY NormalizedTyped, ConstantsTyped
<1>2. gx \in Nat /\ hx \in Nat /\ gx <= hx
    BY <1>1 DEF Surplus
<1>3. FeeDelta(m, g, fee) = (base * gr) \div Wad /\ FeeDelta(m, h, fee) = (base * hr) \div Wad
    BY DEF FeeDelta
<1>. HIDE DEF base, gx, hx
<1>4. gx * fee \in Nat /\ hx * fee \in Nat /\ gx * fee <= hx * fee
    BY <1>2, ProductInNat, ProductMonotone
<1>5. gr \in Nat /\ hr \in Nat /\ gr <= hr
    BY <1>1, <1>4, FloorBounds, QuotientMonotone
<1>. HIDE DEF gr, hr
<1>6. base * gr \in Nat /\ base * hr \in Nat /\ base * gr <= base * hr
    BY <1>1, <1>5, ProductInNat, ProductMonotone
<1>. QED
    BY <1>1, <1>3, <1>6, QuotientMonotone

\* More interest is never less to pay.
LEMMA QuoteGrows ==
    ASSUME NEW m \in Markets, ~m.settled, NEW total \in Nat, NEW fee \in Nat,
           NEW t \in Nat, NEW u \in Nat,
           NoMore(GrowthFactorWad(m.rate, Elapsed(m, t)), GrowthFactorWad(m.rate, Elapsed(m, u)))
    PROVE  NoMore(TransformedRemainingInterest(m, total, t, fee),
                  TransformedRemainingInterest(m, total, u, fee))
<1>. DEFINE g == GrowthFactorWad(m.rate, Elapsed(m, t))
            h == GrowthFactorWad(m.rate, Elapsed(m, u))
            gf == MulWad(m.factor, g)
            hf == MulWad(m.factor, h)
            gn == CalculateNormalizedAmount(m.supply, gf)
            hn == CalculateNormalizedAmount(m.supply, hf)
            gg == Surplus(gn, m.deposited)
            hg == Surplus(hn, m.deposited)
            gd == FeeDelta(m, g, fee)
            hd == FeeDelta(m, h, fee)
<1>1. /\ m.factor \in Nat /\ m.supply \in Nat /\ m.deposited \in Nat
      /\ m.fees \in Nat /\ m.interestRepaid \in Nat
    BY DEF Markets
<1>2. NoMore(gf, hf)
    BY <1>1, MulWadMonotone DEF NoMore
<1>3. TransformedRemainingInterest(m, total, t, fee) =
         IF m.supply = 0 THEN 0 ELSE IF gf = Overflow THEN Overflow
         ELSE Surplus(gg + m.fees + total + gd, m.interestRepaid)
    BY DEF TransformedRemainingInterest
<1>4. TransformedRemainingInterest(m, total, u, fee) =
         IF m.supply = 0 THEN 0 ELSE IF hf = Overflow THEN Overflow
         ELSE Surplus(hg + m.fees + total + hd, m.interestRepaid)
    BY DEF TransformedRemainingInterest
<1>. HIDE DEF g, h
<1>5. CASE m.supply = 0
    BY <1>3, <1>4, <1>5 DEF NoMore
<1>6. CASE m.supply # 0 /\ hf = Overflow
    BY <1>4, <1>6 DEF NoMore
<1>7. CASE m.supply # 0 /\ hf # Overflow
  <2>1. gf \in Nat /\ hf \in Nat /\ gf <= hf /\ gf # Overflow
      BY <1>2, <1>7, ConstantsTyped DEF NoMore
  <2>2. g \in Nat /\ h \in Nat /\ g <= h
      BY <1>7 DEF MulWad, NoMore, g, h
  <2>3. gd \in Nat /\ hd \in Nat /\ gd <= hd
      BY <2>2, FeeDeltaTyped, FeeGrows
  <2>. HIDE DEF gf, hf, gd, hd
  <2>4. gn \in Nat /\ hn \in Nat /\ gn <= hn
    <3>1. /\ m.supply * gf \in Nat /\ m.supply * hf \in Nat
          /\ m.supply * gf <= m.supply * hf /\ Wad \in Nat \ {0}
        BY <1>1, <2>1, ProductInNat, ProductMonotone, ConstantsTyped
    <3>. QED
        BY <3>1, FloorBounds, QuotientMonotone DEF CalculateNormalizedAmount
  <2>. HIDE DEF gn, hn
  <2>5. gg \in Nat /\ hg \in Nat /\ gg <= hg
      BY <1>1, <2>4 DEF Surplus
  <2>. HIDE DEF gg, hg
  <2>. DEFINE gs == gg + m.fees + total + gd
              hs == hg + m.fees + total + hd
  <2>6. gs \in Nat /\ hs \in Nat /\ gs <= hs
      BY <1>1, <2>3, <2>5
  <2>. HIDE DEF gs, hs
  <2>7. /\ Surplus(gs, m.interestRepaid) \in Nat /\ Surplus(hs, m.interestRepaid) \in Nat
        /\ Surplus(gs, m.interestRepaid) <= Surplus(hs, m.interestRepaid)
      BY <1>1, <2>6 DEF Surplus
  <2>. QED
      BY <1>3, <1>4, <1>7, <2>1, <2>7 DEF NoMore, gs, hs
<1>. QED
    BY <1>5, <1>6, <1>7

\* For any rates, amounts and times: as time alone passes, the quote never falls, it
\* does not come back from an overflow, and after maturity it stays.
THEOREM TimeNeverLowersTheQuote == Spec => QuoteGrowsToMaturity
<1>. DEFINE Grows == now' # now /\ ~market.settled
                       => \/ Quote' = Quote
                          \/ now < Maturity /\ (Quote' = Overflow \/ Quote' > Quote)
<1>1. IInv /\ [Next]_vars => Grows
  <2>. SUFFICES ASSUME IInv, [Next]_vars, now' # now, ~market.settled
                PROVE  \/ Quote' = Quote
                       \/ now < Maturity /\ (Quote' = Overflow \/ Quote' > Quote)
      OBVIOUS
  <2>1. Tick
    <3>1. CASE Accrue \/ (\E amount \in Amounts : RepayInterest(amount))
               \/ CollectFees \/ Settle
        BY <3>1, Instructions DEF Instruction
    <3>2. CASE (\E amount \in Amounts : Deposit(amount))
               \/ (\E fee \in FeeRates : SetFeeConfig(fee)) \/ UNCHANGED vars
        BY <3>2 DEF Deposit, SetFeeConfig, vars
    <3>. QED
        BY <3>1, <3>2 DEF Next
  <2>2. /\ market' = market /\ feeBps' = feeBps /\ collected' = collected /\ now' = now + 1
      BY <2>1 DEF Tick
  <2>3. /\ market \in Markets /\ now \in Nat /\ collected \in Nat /\ feeBps \in Nat
        /\ now >= market.lastAccrual /\ Maturity \in Nat
      BY ConstantsTyped DEF IInv, MarketFits
  <2>4. Quote' = TransformedRemainingInterest(market, collected, now + 1, feeBps)
      BY <2>2 DEF Quote
  <2>5. CASE now >= Maturity
    <3>1. Elapsed(market, now + 1) = Elapsed(market, now)
        BY <2>3, <2>5 DEF Elapsed, AtMost
    <3>. QED
        BY <2>4, <3>1 DEF Quote, TransformedRemainingInterest
  <2>6. CASE now < Maturity
    <3>. DEFINE e == Elapsed(market, now)
    <3>1. e \in Nat /\ Elapsed(market, now + 1) = e + 1 /\ e + 1 <= Maturity
      <4>1. market.lastAccrual \in Nat
          BY <2>3 DEF Markets
      <4>. QED
          BY <2>3, <2>6, <4>1 DEF Elapsed, AtMost, Surplus
    <3>2. market.rate \in StoredRates /\ now + 1 \in Nat
        BY <2>3 DEF Markets
    <3>3. NoMore(GrowthFactorWad(market.rate, e), GrowthFactorWad(market.rate, e + 1))
        BY <3>1, <3>2, GrowthGrows
    <3>4. NoMore(Quote, Quote')
      <4>. HIDE DEF e
      <4>1. NoMore(GrowthFactorWad(market.rate, Elapsed(market, now)),
                   GrowthFactorWad(market.rate, Elapsed(market, now + 1)))
          BY <3>1, <3>3 DEF e
      <4>. QED
          BY <2>3, <2>4, <3>2, <4>1, QuoteGrows DEF Quote
    <3>5. Quote' = Overflow \/ (Quote \in Nat /\ Quote' \in Nat /\ Quote <= Quote')
        BY <3>4 DEF NoMore
    <3>6. Quote \in Nat /\ Quote' \in Nat /\ Quote <= Quote' => Quote' = Quote \/ Quote' > Quote
        OBVIOUS
    <3>. QED
        BY <2>6, <3>5, <3>6
  <2>. QED
      BY <2>3, <2>5, <2>6
<1>. QED
    BY <1>1, InitInvariant, StepInvariant, PTL DEF Spec, QuoteGrowsToMaturity
=============================================================================
