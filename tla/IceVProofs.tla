----------------------------- MODULE IceVProofs -----------------------------
(***************************************************************************)
(* Proofs about the Ice-V processor, for every program, every size of byte *)
(* and of address, every number of registers and every answer of the       *)
(* peripherals: its types, the cycles of its instructions, and that it     *)
(* implements RV32I.                                                       *)
(*                                                                         *)
(* Powers, gates and shifts are recursive functions.  Recursion proves     *)
(* once that such a definition has a solution, and Induction, from the     *)
(* least element of a set of naturals, what the solution is.               *)
(***************************************************************************)
EXTENDS IceV, TLAPS, WellFoundedInduction

---------------------------------------------------------------------------
(* Division, recursion on the naturals, and the powers of two.             *)

\* What a division gives, and that nothing else does.
LEMMA Division ==
  ASSUME NEW z \in Int, NEW d \in Nat \ {0}
  PROVE  /\ z \div d \in Int /\ z % d \in 0 .. d - 1
         /\ z = d * (z \div d) + (z % d)
  OBVIOUS

\* Quotient and remainder are the only ones that give back the number.
LEMMA Quotient ==
  ASSUME NEW d \in Nat \ {0}, NEW q \in Int, NEW r \in 0 .. d - 1
  PROVE  (d * q + r) \div d = q /\ (d * q + r) % d = r
<1> DEFINE z == d * q + r
           p == z \div d
           s == z % d
<1>1. z \in Int /\ p \in Int /\ s \in 0 .. d - 1 /\ z = d * p + s
  <2>1. z \in Int
    OBVIOUS
  <2> QED
    BY <2>1, Division
<1>2. d * (p - q) = r - s
  BY <1>1
<1>3. p = q
  <2>1. CASE p > q
    <3>1. d * (p - q) >= d
      BY <1>1, <2>1
    <3> QED
      BY <1>1, <1>2, <3>1
  <2>2. CASE p < q
    <3>1. d * (p - q) <= -d
      BY <1>1, <2>2
    <3> QED
      BY <1>1, <1>2, <3>1
  <2> QED
    BY <1>1, <2>1, <2>2
<1> QED
  BY <1>1, <1>3

\* The order of the naturals.
Below == {p \in Nat \X Nat : p[1] < p[2]}

\* A set of naturals that is not empty has a least element.
LEMMA Least ==
  ASSUME NEW T, T \subseteq Nat, T # {}
  PROVE  \E m \in T : \A n \in T : m <= n
<1>1. IsWellFoundedOn(Below, Nat)
  BY NatLessThanWellFounded DEF OpToRel, Below
<1>2. PICK m \in T : \A n \in T : <<n, m>> \notin Below
  BY <1>1, WFMin
<1>3. ASSUME NEW n \in T PROVE m <= n
  <2>1. <<n, m>> \in Nat \X Nat
    OBVIOUS
  <2>2. <<n, m>>[1] < <<n, m>>[2] => <<n, m>> \in Below
    BY <2>1, Zenon DEF Below
  <2> QED
    BY <1>2, <2>1, <2>2
<1> QED
  BY <1>3

\* A set with 0 that has the successor of all its elements has every natural.
LEMMA Induction ==
  ASSUME NEW S, 0 \in S, \A n \in Nat : n \in S => n + 1 \in S
  PROVE  Nat \subseteq S
<1> SUFFICES ASSUME Nat \ S # {} PROVE FALSE
  OBVIOUS
<1>1. PICK m \in Nat \ S : \A n \in Nat \ S : m <= n
  BY Least
<1>2. m # 0 /\ m - 1 \in Nat /\ m - 1 \in S
  BY <1>1
<1> QED
  BY <1>1, <1>2

\* What f satisfies up to m when it is defined by f[0] = z and f[n] = s[n][f[n - 1]].
Recursive(f, z, s, m) == \A n \in 0 .. m : f[n] = IF n = 0 THEN z ELSE s[n][f[n - 1]]

\* A definition by recursion has a solution up to every bound.
LEMMA Prefixes ==
  ASSUME NEW T, NEW z \in T, NEW s \in [Nat -> [T -> T]]
  PROVE  \A m \in Nat : \E f \in [0 .. m -> T] : Recursive(f, z, s, m)
<1> DEFINE S == {m \in Nat : \E f \in [0 .. m -> T] : Recursive(f, z, s, m)}
<1>1. 0 \in S
  <2> DEFINE g == [n \in 0 .. 0 |-> z]
  <2>1. g \in [0 .. 0 -> T] /\ Recursive(g, z, s, 0)
    BY DEF Recursive
  <2> QED
    BY <2>1
<1>2. ASSUME NEW m \in Nat, m \in S PROVE m + 1 \in S
  <2>1. PICK f \in [0 .. m -> T] : Recursive(f, z, s, m)
    BY <1>2
  <2> DEFINE g == [n \in 0 .. m + 1 |-> IF n = m + 1 THEN s[m + 1][f[m]] ELSE f[n]]
  <2>2. g \in [0 .. m + 1 -> T]
    BY <2>1
  <2>3. ASSUME NEW n \in 0 .. m + 1
        PROVE  g[n] = IF n = 0 THEN z ELSE s[n][g[n - 1]]
    <3>1. CASE n = m + 1
      BY <3>1, <2>1 DEF Recursive
    <3>2. CASE n # m + 1
      BY <3>2, <2>1 DEF Recursive
    <3> QED
      BY <3>1, <3>2
  <2> HIDE DEF g
  <2>4. Recursive(g, z, s, m + 1)
    BY <2>3 DEF Recursive
  <2> QED
    BY <2>2, <2>4
<1> HIDE DEF S
<1>3. Nat \subseteq S
  BY <1>1, <1>2, Induction
<1> QED
  BY <1>3 DEF S

\* Two solutions agree as far as they go.
LEMMA SamePrefix ==
  ASSUME NEW m \in Nat, NEW k \in Nat, m <= k, NEW z, NEW s, NEW f, NEW g,
         Recursive(f, z, s, m), Recursive(g, z, s, k)
  PROVE  \A n \in 0 .. m : f[n] = g[n]
<1> DEFINE S == {n \in Nat : n <= m => f[n] = g[n]}
<1>1. 0 \in S
  BY DEF Recursive
<1>2. ASSUME NEW n \in Nat, n \in S PROVE n + 1 \in S
  BY <1>2 DEF Recursive
<1> HIDE DEF S
<1>3. Nat \subseteq S
  BY <1>1, <1>2, Induction
<1> QED
  BY <1>3 DEF S

\* A definition by recursion on the naturals, or up to a bound, defines a function.
LEMMA Recursion ==
  ASSUME NEW T, NEW z \in T, NEW s \in [Nat -> [T -> T]]
  PROVE  \E f \in [Nat -> T] : \A n \in Nat : f[n] = IF n = 0 THEN z ELSE s[n][f[n - 1]]
<1> DEFINE F(m) == CHOOSE f \in [0 .. m -> T] : Recursive(f, z, s, m)
<1>1. \A m \in Nat : F(m) \in [0 .. m -> T] /\ Recursive(F(m), z, s, m)
  BY Prefixes
<1> DEFINE h == [n \in Nat |-> F(n)[n]]
<1> HIDE DEF F
<1>2. h \in [Nat -> T]
  BY <1>1
<1>3. ASSUME NEW n \in Nat PROVE h[n] = IF n = 0 THEN z ELSE s[n][h[n - 1]]
  <2>1. CASE n = 0
    BY <2>1, <1>1 DEF Recursive
  <2>2. CASE n # 0
    <3>1. n - 1 \in Nat /\ n - 1 <= n
      BY <2>2
    <3>2. F(n)[n] = s[n][F(n)[n - 1]]
      BY <2>2, <1>1 DEF Recursive
    <3>3. F(n)[n - 1] = F(n - 1)[n - 1]
      BY <3>1, <1>1, SamePrefix
    <3> QED
      BY <3>1, <3>2, <3>3, <2>2
  <2> QED
    BY <2>1, <2>2
<1> HIDE DEF h
<1> QED
  BY <1>2, <1>3

\* Pow2, the powers of two, is what its definition says.
LEMMA PowStep ==
  /\ Pow2 \in [Nat -> Nat]
  /\ Pow2[0] = 1
  /\ \A n \in Nat : Pow2[n + 1] = 2 * Pow2[n]
<1> DEFINE T == Nat
           z == 1
           s == [n \in Nat |-> [v \in T |-> 2 * v]]
<1>1. z \in T /\ s \in [Nat -> [T -> T]]
  OBVIOUS
<1>2. \A n \in Nat, v \in T : s[n][v] = 2 * v
  OBVIOUS
<1> HIDE DEF s, z, T
<1>3. PICK f \in [Nat -> T] : \A n \in Nat : f[n] = IF n = 0 THEN z ELSE s[n][f[n - 1]]
  BY <1>1, Recursion
<1> USE DEF T, z
<1>4. ASSUME NEW n \in Nat PROVE f[n] = IF n = 0 THEN 1 ELSE 2 * f[n - 1]
  <2>1. CASE n = 0
    BY <2>1, <1>3
  <2>2. CASE n # 0
    <3>1. n - 1 \in Nat
      BY <2>2
    <3> QED
      BY <3>1, <2>2, <1>2, <1>3
  <2> QED
    BY <2>1, <2>2
<1>5. f = [n \in Nat |-> IF n = 0 THEN 1 ELSE 2 * f[n - 1]]
  BY <1>4
<1>6. \E g : g = [n \in Nat |-> IF n = 0 THEN 1 ELSE 2 * g[n - 1]]
  BY <1>5
<1>7. Pow2 = [n \in Nat |-> IF n = 0 THEN 1 ELSE 2 * Pow2[n - 1]]
  BY <1>6, Zenon DEF Pow2
<1>8. \A n \in Nat : Pow2[n] = IF n = 0 THEN 1 ELSE 2 * Pow2[n - 1]
  BY <1>7
<1> DEFINE S == {n \in Nat : Pow2[n] \in Nat}
<1>9. 0 \in S /\ \A n \in Nat : n \in S => n + 1 \in S
  BY <1>8
<1>10. Nat \subseteq S
  <2> HIDE DEF S
  <2> QED
    BY <1>9, Induction
<1>11. \A n \in Nat : Pow2[n] \in Nat
  BY <1>10
<1>12. Pow2 \in [Nat -> Nat]
  <2> DEFINE P(n) == IF n = 0 THEN 1 ELSE 2 * Pow2[n - 1]
  <2>1. Pow2 = [n \in Nat |-> P(n)]
    BY <1>7
  <2>2. \A n \in Nat : P(n) \in Nat
    BY <1>8, <1>11
  <2> HIDE DEF P
  <2> QED
    BY <2>1, <2>2
<1> QED
  BY <1>8, <1>12

\* A power of two is not 0.
LEMMA PowPositive == \A n \in Nat : Pow2[n] \in Nat \ {0}
<1> DEFINE S == {n \in Nat : Pow2[n] # 0}
<1>1. 0 \in S /\ \A n \in Nat : n \in S => n + 1 \in S
  BY PowStep
<1>2. Nat \subseteq S
  <2> HIDE DEF S
  <2> QED
    BY <1>1, Induction
<1> QED
  BY <1>2, PowStep

\* A sum of exponents is a product of powers.
LEMMA PowSum == \A m \in Nat, n \in Nat : Pow2[m + n] = Pow2[m] * Pow2[n]
<1> SUFFICES ASSUME NEW m \in Nat
             PROVE  \A n \in Nat : Pow2[m + n] = Pow2[m] * Pow2[n]
  OBVIOUS
<1> DEFINE S == {n \in Nat : Pow2[m + n] = Pow2[m] * Pow2[n]}
<1>1. 0 \in S
  BY PowStep
<1>2. ASSUME NEW n \in Nat, n \in S PROVE n + 1 \in S
  <2>1. Pow2[(m + n) + 1] = 2 * Pow2[m + n] /\ Pow2[n + 1] = 2 * Pow2[n]
    BY PowStep
  <2>2. m + (n + 1) = (m + n) + 1
    OBVIOUS
  <2>3. Pow2[m] \in Nat /\ Pow2[n] \in Nat
    BY PowStep
  <2>4. Pow2[m] * (2 * Pow2[n]) = 2 * (Pow2[m] * Pow2[n])
    BY <2>3
  <2> QED
    BY <1>2, <2>1, <2>2, <2>4
<1>3. Nat \subseteq S
  <2> HIDE DEF S
  <2> QED
    BY <1>1, <1>2, Induction
<1> QED
  BY <1>3

\* Powers of two grow with the exponent.
LEMMA PowMonotonic == \A m \in Nat, n \in Nat : m <= n => Pow2[m] <= Pow2[n]
<1> SUFFICES ASSUME NEW m \in Nat, NEW n \in Nat, m <= n PROVE Pow2[m] <= Pow2[n]
  OBVIOUS
<1>1. n - m \in Nat /\ m + (n - m) = n
  OBVIOUS
<1>2. Pow2[n] = Pow2[m] * Pow2[n - m]
  BY <1>1, PowSum
<1>3. Pow2[m] \in Nat /\ Pow2[n - m] \in Nat \ {0}
  BY <1>1, PowPositive
<1> QED
  BY <1>2, <1>3

---------------------------------------------------------------------------
(* Words and addresses.                                                    *)

\* Below the divisor, and below its double.
LEMMA SmallDividend ==
  ASSUME NEW d \in Nat \ {0}, NEW r \in 0 .. d - 1
  PROVE  /\ r \div d = 0 /\ r % d = r
         /\ (d + r) \div d = 1 /\ (d + r) % d = r
<1>1. (d * 0 + r) \div d = 0 /\ (d * 0 + r) % d = r
  BY Quotient
<1>2. (d * 1 + r) \div d = 1 /\ (d * 1 + r) % d = r
  BY Quotient
<1> QED
  BY <1>1, <1>2

\* Two divisions are one, by the product.
LEMMA NestedQuotient ==
  ASSUME NEW z \in Int, NEW c \in Nat \ {0}, NEW d \in Nat \ {0}
  PROVE  (z \div c) \div d = z \div (c * d)
<1> DEFINE q == z \div c
           r == z % c
           p == q \div d
           s == q % d
<1>1. q \in Int /\ r \in 0 .. c - 1 /\ z = c * q + r
  BY Division
<1>2. p \in Int /\ s \in 0 .. d - 1 /\ q = d * p + s
  BY <1>1, Division
<1> HIDE DEF q, r, p, s
<1>3. z = (c * d) * p + (c * s + r)
  BY <1>1, <1>2
<1>4. c * d \in Nat \ {0}
  OBVIOUS
<1>5. c * s + r \in 0 .. (c * d) - 1
  <2>1. c * s \in Nat /\ c * s <= c * (d - 1)
    BY <1>2
  <2>2. c * (d - 1) = (c * d) - c
    OBVIOUS
  <2> QED
    BY <2>1, <2>2, <1>1
<1>6. z \div (c * d) = p
  BY <1>2, <1>3, <1>4, <1>5, Quotient
<1> QED
  BY <1>6 DEF p, q

\* A remainder does not see the multiples of the divisor.
LEMMA SameRemainder ==
  ASSUME NEW y \in Int, NEW k \in Int, NEW d \in Nat \ {0}
  PROVE  (y + d * k) % d = y % d
<1> DEFINE q == y \div d
           r == y % d
<1>1. q \in Int /\ r \in 0 .. d - 1 /\ y = d * q + r
  BY Division
<1> HIDE DEF q, r
<1>2. y + d * k = d * (q + k) + r
  BY <1>1
<1>3. (d * (q + k) + r) % d = r
  BY <1>1, Quotient
<1> QED
  BY <1>2, <1>3 DEF r

\* Half of the words, the negative ones.
Half == Pow2[XLEN - 1]

\* The sizes of words, from the assumptions on the constants.
LEMMA Sizes ==
  /\ BYTE \in Nat \ {0} /\ XLEN = 4 * BYTE /\ XLEN \in Nat /\ XLEN >= 4 /\ NREGS \in Nat \ {0}
  /\ addrW \in Nat /\ addrW >= 2 /\ addrW <= XLEN - 2
  /\ Half \in Nat /\ Half >= 8 /\ Pow2[XLEN] = 2 * Half /\ Pow2[XLEN + 1] = 4 * Half
  /\ Word = 0 .. 2 * Half - 1
  /\ 0 \in Word /\ 1 \in Word
<1>1. BYTE \in Nat \ {0} /\ XLEN = 4 * BYTE /\ XLEN \in Nat /\ XLEN >= 4
      /\ NREGS \in Nat \ {0}
  BY Rv32Assumption DEF XLEN
<1>2. addrW \in Nat /\ addrW >= 2 /\ addrW <= XLEN - 2
  BY <1>1, Rv32Assumption
<1>3. XLEN - 1 \in Nat /\ (XLEN - 1) + 1 = XLEN
  BY <1>1
<1>4. Pow2[XLEN] = 2 * Pow2[XLEN - 1] /\ Pow2[XLEN + 1] = 2 * Pow2[XLEN]
  BY <1>1, <1>3, PowStep
<1>5. Half >= 8 /\ Half \in Nat
  <2>1. Pow2[0 + 1] = 2 * 1 /\ Pow2[1 + 1] = 2 * Pow2[0 + 1] /\ Pow2[2 + 1] = 2 * Pow2[1 + 1]
    BY PowStep
  <2>2. Pow2[3] = 8
    BY <2>1
  <2>3. Pow2[3] <= Pow2[XLEN - 1] /\ Pow2[XLEN - 1] \in Nat
    BY <1>1, <1>3, PowMonotonic, PowPositive
  <2> QED
    BY <2>2, <2>3 DEF Half
<1> QED
  BY <1>1, <1>2, <1>4, <1>5 DEF Half, Word

\* The sizes of addresses: words of the memory, of the bus, bytes of the bus.
LEMMA Addresses ==
  /\ Pow2[addrW - 2] \in Nat \ {0}
  /\ Pow2[addrW - 1] = 2 * Pow2[addrW - 2]
  /\ Pow2[addrW] = 4 * Pow2[addrW - 2]
  /\ Pow2[addrW + 2] = 16 * Pow2[addrW - 2]
  /\ 16 * Pow2[addrW - 2] <= 2 * Half
  /\ Ram = 0 .. 2 * Pow2[addrW - 2] - 1
<1>1. /\ addrW \in Nat /\ {addrW - 2, addrW - 1, addrW + 1, addrW + 2} \subseteq Nat
      /\ addrW + 2 <= XLEN /\ XLEN \in Nat
  BY Sizes
<1>2. /\ Pow2[(addrW - 2) + 1] = 2 * Pow2[addrW - 2]
      /\ Pow2[(addrW - 1) + 1] = 2 * Pow2[addrW - 1]
      /\ Pow2[addrW + 1] = 2 * Pow2[addrW]
      /\ Pow2[(addrW + 1) + 1] = 2 * Pow2[addrW + 1]
  BY <1>1, PowStep
<1>3. /\ (addrW - 2) + 1 = addrW - 1 /\ (addrW - 1) + 1 = addrW
      /\ (addrW + 1) + 1 = addrW + 2
  BY <1>1
<1>4. Pow2[addrW - 2] \in Nat \ {0}
  BY <1>1, PowPositive
<1>5. Pow2[addrW - 1] = 2 * Pow2[addrW - 2]
  BY <1>2, <1>3
<1>6. Pow2[addrW] = 4 * Pow2[addrW - 2]
  BY <1>2, <1>3, <1>4
<1>7. Pow2[addrW + 2] = 16 * Pow2[addrW - 2]
  BY <1>2, <1>3, <1>4, <1>6
<1>8. Pow2[addrW + 2] <= Pow2[XLEN]
  BY <1>1, PowMonotonic
<1> QED
  BY <1>4, <1>5, <1>6, <1>7, <1>8, Sizes DEF Ram

\* Cut to XLEN bits, every integer is a word.
LEMMA WrapInWord == \A z \in Int : Wrap(z) \in Word
  BY Sizes DEF Wrap

\* A word has nothing to cut.
LEMMA WrapWord == \A w \in Word : Wrap(w) = w
<1> SUFFICES ASSUME NEW w \in Word PROVE Wrap(w) = w
  OBVIOUS
<1>1. (2 * Half) * 0 + w = w /\ w \in 0 .. 2 * Half - 1 /\ 2 * Half \in Nat \ {0}
  BY Sizes
<1>2. ((2 * Half) * 0 + w) % (2 * Half) = w
  BY <1>1, Quotient
<1> QED
  BY <1>1, <1>2, Sizes DEF Wrap

\* The negative numbers of a word.
LEMMA WrapNegative == \A z \in Int : -(2 * Half) <= z /\ z < 0 => Wrap(z) = z + 2 * Half
<1> SUFFICES ASSUME NEW z \in Int, -(2 * Half) <= z, z < 0 PROVE Wrap(z) = z + 2 * Half
  OBVIOUS
<1>1. z = (2 * Half) * (-1) + (z + 2 * Half) /\ z + 2 * Half \in 0 .. 2 * Half - 1
      /\ 2 * Half \in Nat \ {0}
  BY Sizes
<1>2. ((2 * Half) * (-1) + (z + 2 * Half)) % (2 * Half) = z + 2 * Half
  BY <1>1, Quotient
<1> QED
  BY <1>1, <1>2, Sizes DEF Wrap

\* The highest bit of a word tells the words above the half.
LEMMA TopBit == \A w \in Word : Bit(w, XLEN - 1) = IF w < Half THEN 0 ELSE 1
<1> SUFFICES ASSUME NEW w \in Word
             PROVE  Bit(w, XLEN - 1) = IF w < Half THEN 0 ELSE 1
  OBVIOUS
<1>1. Half \in Nat \ {0} /\ w \in 0 .. 2 * Half - 1
  BY Sizes
<1>2. CASE w < Half
  <2>1. w = Half * 0 + w /\ w \in 0 .. Half - 1
    BY <1>1, <1>2
  <2>2. (Half * 0 + w) \div Half = 0
    BY <1>1, <2>1, Quotient
  <2> QED
    BY <1>2, <2>1, <2>2 DEF Bit, Half
<1>3. CASE w >= Half
  <2>1. w = Half * 1 + (w - Half) /\ w - Half \in 0 .. Half - 1
    BY <1>1, <1>3
  <2>2. (Half * 1 + (w - Half)) \div Half = 1
    BY <1>1, <2>1, Quotient
  <2> QED
    BY <1>1, <1>3, <2>1, <2>2 DEF Bit, Half
<1> QED
  BY <1>1, <1>2, <1>3

---------------------------------------------------------------------------
(* The subtraction, the comparisons, and one bit of the shifter.           *)

\* The subtraction of the ALU, on one bit more than a word.
Difference(v, w) == (Pow2[XLEN + 1] + v - w) % Pow2[XLEN + 1]

\* The difference has 2^(XLEN + 1) more when it is negative.
LEMMA DifferenceIs ==
  ASSUME NEW v \in Word, NEW w \in Word
  PROVE  Difference(v, w) = IF v < w THEN 4 * Half + v - w ELSE v - w
<1> DEFINE D == 4 * Half
<1>1. /\ D \in Nat \ {0} /\ v \in 0 .. D - 1 /\ w \in 0 .. D - 1
      /\ Pow2[XLEN + 1] = D
  BY Sizes
<1> HIDE DEF D
<1>2. CASE v < w
  <2>1. D + v - w \in 0 .. D - 1
    BY <1>1, <1>2
  <2>2. (D + v - w) % D = D + v - w
    BY <1>1, <2>1, SmallDividend
  <2> QED
    BY <1>1, <1>2, <2>2 DEF Difference, D
<1>3. CASE v >= w
  <2>1. D + v - w = D * 1 + (v - w) /\ v - w \in 0 .. D - 1
    BY <1>1, <1>3
  <2>2. (D * 1 + (v - w)) % D = v - w
    BY <1>1, <2>1, Quotient
  <2> QED
    BY <1>1, <1>3, <2>1, <2>2 DEF Difference
<1> QED
  BY <1>1, <1>2, <1>3

\* a_lt_b_u: the bit above the word tells that the difference is negative.
LEMMA Borrow ==
  ASSUME NEW v \in Word, NEW w \in Word
  PROVE  Bit(Difference(v, w), XLEN) = IF v < w THEN 1 ELSE 0
<1> DEFINE M == 2 * Half
           d == Difference(v, w)
<1>1. M \in Nat /\ M >= 16 /\ v \in 0 .. M - 1 /\ w \in 0 .. M - 1 /\ Pow2[XLEN] = M
  BY Sizes
<1>2. d = IF v < w THEN 2 * M + v - w ELSE v - w
  BY DifferenceIs, Sizes
<1> HIDE DEF M, d
<1>3. CASE v < w
  <2>1. d = M * 1 + (M + v - w) /\ M + v - w \in 0 .. M - 1
    BY <1>1, <1>2, <1>3
  <2>2. (M * 1 + (M + v - w)) \div M = 1
    BY <1>1, <2>1, Quotient
  <2>3. Bit(d, XLEN) = 1
    BY <1>1, <2>1, <2>2 DEF Bit
  <2> QED
    BY <1>3, <2>3 DEF d
<1>4. CASE v >= w
  <2>1. d = M * 0 + (v - w) /\ v - w \in 0 .. M - 1
    BY <1>1, <1>2, <1>4
  <2>2. (M * 0 + (v - w)) \div M = 0
    BY <1>1, <2>1, Quotient
  <2>3. Bit(d, XLEN) = 0
    BY <1>1, <2>1, <2>2 DEF Bit
  <2> QED
    BY <1>1, <1>4, <2>3 DEF d
<1> QED
  BY <1>1, <1>3, <1>4

\* Its low bits are the difference of the words, 0 when they are equal (a_eq_b).
LEMMA WrapDifference ==
  ASSUME NEW v \in Word, NEW w \in Word
  PROVE  /\ Wrap(Difference(v, w)) = Wrap(v - w)
         /\ Wrap(v - w) = 0 <=> v = w
<1> DEFINE M == 2 * Half
<1>1. /\ M \in Nat \ {0} /\ v \in 0 .. M - 1 /\ w \in 0 .. M - 1
      /\ Word = 0 .. M - 1 /\ Pow2[XLEN] = M
  BY Sizes
<1>2. CASE v < w
  <2>1. Wrap(v - w) = v - w + M
    BY <1>1, <1>2, WrapNegative
  <2>2. Difference(v, w) = 2 * M + v - w
    BY <1>2, DifferenceIs, Sizes
  <2> HIDE DEF M
  <2>3. 2 * M + v - w = M + (v - w + M) /\ v - w + M \in 0 .. M - 1
    BY <1>1, <1>2
  <2>4. (M + (v - w + M)) % M = v - w + M
    BY <1>1, <2>3, SmallDividend
  <2>5. Wrap(Difference(v, w)) = v - w + M
    BY <1>1, <2>2, <2>3, <2>4 DEF Wrap
  <2> QED
    BY <1>1, <1>2, <2>1, <2>5
<1>3. CASE v >= w
  <2>1. v - w \in Word
    BY <1>1, <1>3
  <2>2. Wrap(v - w) = v - w
    BY <2>1, WrapWord
  <2>3. Difference(v, w) = v - w
    BY <1>1, <1>3, DifferenceIs
  <2> QED
    BY <1>1, <1>3, <2>2, <2>3
<1> QED
  BY <1>1, <1>2, <1>3

\* a_lt_b: the signs when they differ, else the borrow, compare signed words.
LEMMA SignedLess ==
  ASSUME NEW v \in Word, NEW w \in Word
  PROVE  (IF Bit(v, XLEN - 1) # Bit(w, XLEN - 1) THEN Bit(v, XLEN - 1)
                                                 ELSE Bit(Difference(v, w), XLEN))
         = IF Signed(v) < Signed(w) THEN 1 ELSE 0
<1>1. Half \in Nat /\ Half >= 8 /\ v \in 0 .. 2 * Half - 1 /\ w \in 0 .. 2 * Half - 1
      /\ Pow2[XLEN] = 2 * Half /\ Pow2[XLEN - 1] = Half
  BY Sizes DEF Half
<1>2. /\ Bit(v, XLEN - 1) = IF v < Half THEN 0 ELSE 1
      /\ Bit(w, XLEN - 1) = IF w < Half THEN 0 ELSE 1
      /\ Bit(Difference(v, w), XLEN) = IF v < w THEN 1 ELSE 0
  BY TopBit, Borrow
<1>3. /\ Signed(v) = IF v < Half THEN v ELSE v - 2 * Half
      /\ Signed(w) = IF w < Half THEN w ELSE w - 2 * Half
  BY <1>1 DEF Signed
<1> QED
  BY <1>1, <1>2, <1>3

\* One bit of the shifter, and several, for the instruction ins.
Once(ins, w) == IF ins.op \div 4 = 1
                THEN w \div 2 + ins.sign * Bit(w, XLEN - 1) * Pow2[XLEN - 1]
                ELSE Wrap(2 * w)

Many(ins, w, n) == LET bits[k \in 0 .. XLEN] == IF k = 0 THEN w ELSE Once(ins, bits[k - 1])
                   IN  bits[n]

\* The register of the shifter stays a word.
LEMMA OnceInWord == \A ins \in Instr, w \in Word : Once(ins, w) \in Word
<1> SUFFICES ASSUME NEW ins \in Instr, NEW w \in Word PROVE Once(ins, w) \in Word
  OBVIOUS
<1>1. Half \in Nat /\ Half >= 8 /\ w \in 0 .. 2 * Half - 1 /\ Word = 0 .. 2 * Half - 1
      /\ Pow2[XLEN - 1] = Half
  BY Sizes DEF Half
<1>2. w \div 2 \in 0 .. Half - 1
  BY <1>1
<1>3. ins.sign \in 0 .. 1
  BY DEF Instr
<1>4. ins.sign * Bit(w, XLEN - 1) * Pow2[XLEN - 1] \in {0, Half}
  <2>1. Bit(w, XLEN - 1) \in {0, 1}
    BY TopBit
  <2> QED
    BY <1>1, <1>3, <2>1
<1>5. Wrap(2 * w) \in Word
  BY <1>1, WrapInWord
<1> QED
  BY <1>1, <1>2, <1>4, <1>5 DEF Once

\* One more bit is one more step of the shifter.
LEMMA ManyStep ==
  ASSUME NEW ins \in Instr, NEW w \in Word
  PROVE  /\ Many(ins, w, 0) = w
         /\ \A n \in 0 .. XLEN - 1 : /\ Many(ins, w, n) \in Word
                                     /\ Many(ins, w, n + 1) = Once(ins, Many(ins, w, n))
<1> DEFINE s == [n \in Nat |-> [v \in Word |-> Once(ins, v)]]
           bits == CHOOSE f : f = [k \in 0 .. XLEN |-> IF k = 0 THEN w ELSE Once(ins, f[k - 1])]
<1>0. XLEN \in Nat /\ XLEN >= 4
  BY Sizes
<1>1. s \in [Nat -> [Word -> Word]] /\ \A n \in Nat, v \in Word : s[n][v] = Once(ins, v)
  BY OnceInWord
<1> HIDE DEF s
<1>2. PICK f \in [0 .. XLEN -> Word] : Recursive(f, w, s, XLEN)
  BY <1>0, <1>1, Prefixes
<1>3. ASSUME NEW k \in 0 .. XLEN
      PROVE  f[k] = IF k = 0 THEN w ELSE Once(ins, f[k - 1])
  <2>1. CASE k = 0
    BY <2>1, <1>2 DEF Recursive
  <2>2. CASE k # 0
    <3>1. k \in Nat /\ f[k - 1] \in Word /\ f[k] = s[k][f[k - 1]]
      BY <1>0, <1>2, <2>2 DEF Recursive
    <3> QED
      BY <3>1, <2>2, <1>1
  <2> QED
    BY <2>1, <2>2
<1>4. f = [k \in 0 .. XLEN |-> IF k = 0 THEN w ELSE Once(ins, f[k - 1])]
  BY <1>2, <1>3
<1>5. bits = [k \in 0 .. XLEN |-> IF k = 0 THEN w ELSE Once(ins, bits[k - 1])]
  BY <1>4, Zenon
<1>6. \A n : Many(ins, w, n) = bits[n]
  BY Zenon DEF Many
<1> HIDE DEF bits
<1>7. \A k \in 0 .. XLEN : bits[k] = IF k = 0 THEN w ELSE Once(ins, bits[k - 1])
  BY <1>5
<1>8. \A n \in 0 .. XLEN - 1 : bits[n + 1] = Once(ins, bits[n])
  BY <1>0, <1>7
<1> DEFINE S == {n \in Nat : n <= XLEN => bits[n] \in Word}
<1>9. 0 \in S
  BY <1>0, <1>7
<1>10. ASSUME NEW n \in Nat, n \in S PROVE n + 1 \in S
  BY <1>0, <1>8, <1>10, OnceInWord
<1>11. Nat \subseteq S
  <2> HIDE DEF S
  <2> QED
    BY <1>9, <1>10, Induction
<1>12. \A n \in 0 .. XLEN - 1 : bits[n] \in Word
  BY <1>0, <1>11
<1> HIDE DEF S
<1>13. bits[0] = w
  BY <1>0, <1>7
<1> QED
  BY <1>6, <1>8, <1>12, <1>13

\* The next bits of a shift may be counted from the first one.
LEMMA ManyAfterOnce ==
  ASSUME NEW ins \in Instr, NEW w \in Word
  PROVE  \A n \in 0 .. XLEN - 1 : Many(ins, w, n + 1) = Many(ins, Once(ins, w), n)
<1>0. XLEN \in Nat /\ XLEN >= 4 /\ Once(ins, w) \in Word
  BY Sizes, OnceInWord
<1> DEFINE S == {n \in Nat : n <= XLEN - 1 => Many(ins, w, n + 1) = Many(ins, Once(ins, w), n)}
<1>1. 0 \in S
  <2>1. Many(ins, w, 0 + 1) = Once(ins, Many(ins, w, 0)) /\ Many(ins, w, 0) = w
    BY <1>0, ManyStep
  <2>2. Many(ins, Once(ins, w), 0) = Once(ins, w)
    BY <1>0, ManyStep
  <2> QED
    BY <2>1, <2>2
<1>2. ASSUME NEW n \in Nat, n \in S PROVE n + 1 \in S
  <2> SUFFICES ASSUME n + 1 <= XLEN - 1
               PROVE  Many(ins, w, (n + 1) + 1) = Many(ins, Once(ins, w), n + 1)
    OBVIOUS
  <2>1. n + 1 \in 0 .. XLEN - 1 /\ n \in 0 .. XLEN - 1
    BY <1>0
  <2>2. Many(ins, w, (n + 1) + 1) = Once(ins, Many(ins, w, n + 1))
    BY <2>1, ManyStep
  <2>3. Many(ins, Once(ins, w), n + 1) = Once(ins, Many(ins, Once(ins, w), n))
    BY <1>0, <2>1, ManyStep
  <2> QED
    BY <1>0, <1>2, <2>2, <2>3
<1>3. Nat \subseteq S
  <2> HIDE DEF S
  <2> QED
    BY <1>1, <1>2, Induction
<1> QED
  BY <1>0, <1>3

---------------------------------------------------------------------------
(* Many bits of the shifter.                                               *)

\* Dividing brings a number closer to 0 (or to -1).
LEMMA QuotientBounds ==
  ASSUME NEW z \in Int, NEW h \in Nat, NEW d \in Nat \ {0}, -h <= z, z < h
  PROVE  z \div d \in Int /\ -h <= z \div d /\ z \div d < h
<1> DEFINE q == z \div d
           r == z % d
<1>1. q \in Int /\ r \in 0 .. d - 1 /\ z = d * q + r
  BY Division
<1> HIDE DEF q, r
<1>2. ASSUME q >= h PROVE FALSE
  <2>1. d * q >= q
    BY <1>1, <1>2
  <2> QED
    BY <1>1, <1>2, <2>1
<1>3. ASSUME q < -h PROVE FALSE
  <2>1. d * (q + 1) <= q + 1
    BY <1>1, <1>3
  <2>2. d * (q + 1) = d * q + d
    BY <1>1
  <2> QED
    BY <1>1, <1>3, <2>1, <2>2
<1> QED
  BY <1>1, <1>2, <1>3 DEF q

\* What goes out of the word at the left does not come back.
LEMMA DoubleWrap == \A z \in Int : Wrap(2 * Wrap(z)) = Wrap(2 * z)
<1> SUFFICES ASSUME NEW z \in Int PROVE Wrap(2 * Wrap(z)) = Wrap(2 * z)
  OBVIOUS
<1> DEFINE M == Pow2[XLEN]
           q == z \div M
           r == z % M
<1>1. M \in Nat \ {0}
  BY Sizes
<1>2. q \in Int /\ r \in Int /\ z = M * q + r
  <2> HIDE DEF M
  <2> QED
    BY <1>1, Division
<1>3. Wrap(z) = r
  BY DEF Wrap
<1> HIDE DEF q, r, M
<1>4. 2 * q \in Int /\ 2 * r \in Int /\ 2 * z = 2 * r + M * (2 * q)
  BY <1>1, <1>2
<1>5. (2 * r + M * (2 * q)) % M = (2 * r) % M
  BY <1>1, <1>4, SameRemainder
<1> QED
  BY <1>3, <1>4, <1>5 DEF Wrap, M

Operand(ins, w) == IF ins.sign = 1 THEN Signed(w) ELSE w

\* One bit to the right, of a number that the register holds.
LEMMA OnceRight ==
  ASSUME NEW ins \in Instr, ins.op = 5, NEW u \in Int,
         IF ins.sign = 1 THEN -Half <= u /\ u < Half ELSE 0 <= u /\ u < 2 * Half
  PROVE  Once(ins, Wrap(u)) = Wrap(u \div 2)
<1>1. Half \in Nat /\ Half >= 8 /\ Word = 0 .. 2 * Half - 1 /\ Pow2[XLEN - 1] = Half
  BY Sizes DEF Half
<1>2. ins.op \div 4 = 1
  OBVIOUS
<1>3. ins.sign \in {0, 1}
  BY DEF Instr
<1>4. u \div 2 \in Int
  OBVIOUS
<1>5. CASE u >= 0
  <2>1. u \in Word /\ u \div 2 \in Word
    BY <1>1, <1>3, <1>5
  <2>2. Wrap(u) = u /\ Wrap(u \div 2) = u \div 2
    BY <2>1, WrapWord
  <2>3. ins.sign * Bit(u, XLEN - 1) = 0
    <3>1. Bit(u, XLEN - 1) = IF u < Half THEN 0 ELSE 1
      BY <2>1, TopBit
    <3> QED
      BY <1>1, <1>3, <3>1
  <2>4. Once(ins, u) = u \div 2 + ins.sign * Bit(u, XLEN - 1) * Pow2[XLEN - 1]
    BY <1>2 DEF Once
  <2>5. ins.sign * Bit(u, XLEN - 1) * Pow2[XLEN - 1] = 0
    BY <1>1, <2>3
  <2> QED
    BY <1>4, <2>2, <2>4, <2>5
<1>6. CASE u < 0
  <2>1. ins.sign = 1 /\ -(2 * Half) <= u /\ -(2 * Half) <= u \div 2 /\ u \div 2 < 0
    BY <1>1, <1>3, <1>6
  <2>2. Wrap(u) = u + 2 * Half /\ Wrap(u \div 2) = (u \div 2) + 2 * Half
    BY <1>4, <1>6, <2>1, WrapNegative
  <2>3. u + 2 * Half \in Word /\ u + 2 * Half >= Half
    BY <1>1, <1>6, <2>1
  <2>4. Bit(u + 2 * Half, XLEN - 1) = 1
    BY <1>1, <2>3, TopBit
  <2>5. Once(ins, u + 2 * Half)
          = (u + 2 * Half) \div 2 + ins.sign * Bit(u + 2 * Half, XLEN - 1) * Pow2[XLEN - 1]
    BY <1>2 DEF Once
  <2>6. (u + 2 * Half) \div 2 = (u \div 2) + Half
    BY <1>1
  <2>7. ins.sign * Bit(u + 2 * Half, XLEN - 1) * Pow2[XLEN - 1] = Half
    BY <1>1, <2>1, <2>4
  <2>8. Once(ins, u + 2 * Half) = (u \div 2) + Half + Half
    BY <2>5, <2>6, <2>7
  <2> QED
    BY <1>1, <1>4, <2>2, <2>8
<1> QED
  BY <1>5, <1>6

\* n steps to the left multiply by 2^n, modulo the word (sll).
LEMMA ManyLeft ==
  ASSUME NEW ins \in Instr, ins.op = 1, NEW w \in Word
  PROVE  \A n \in 0 .. XLEN - 1 : Many(ins, w, n) = Wrap(w * Pow2[n])
<1>0. XLEN \in Nat /\ XLEN >= 4 /\ w \in Int
  BY Sizes
<1> DEFINE S == {n \in Nat : n <= XLEN - 1 => Many(ins, w, n) = Wrap(w * Pow2[n])}
<1>1. 0 \in S
  <2>1. Many(ins, w, 0) = w /\ Wrap(w) = w
    BY ManyStep, WrapWord
  <2>2. w * Pow2[0] = w
    BY <1>0, PowStep
  <2> QED
    BY <2>1, <2>2
<1>2. ASSUME NEW n \in Nat, n \in S PROVE n + 1 \in S
  <2> SUFFICES ASSUME n + 1 <= XLEN - 1
               PROVE  Many(ins, w, n + 1) = Wrap(w * Pow2[n + 1])
    OBVIOUS
  <2>1. Many(ins, w, n + 1) = Once(ins, Wrap(w * Pow2[n]))
    BY <1>0, <1>2, ManyStep
  <2>2. ins.op \div 4 # 1
    OBVIOUS
  <2>3. w * Pow2[n] \in Int /\ Pow2[n] \in Nat
    BY <1>0, PowStep
  <2>4. Once(ins, Wrap(w * Pow2[n])) = Wrap(2 * Wrap(w * Pow2[n]))
    BY <2>2 DEF Once
  <2>5. 2 * (w * Pow2[n]) = w * Pow2[n + 1]
    <3>1. Pow2[n + 1] = 2 * Pow2[n]
      BY PowStep
    <3> QED
      BY <1>0, <2>3, <3>1
  <2> QED
    BY <2>1, <2>3, <2>4, <2>5, DoubleWrap
<1>3. Nat \subseteq S
  <2> HIDE DEF S
  <2> QED
    BY <1>1, <1>2, Induction
<1> QED
  BY <1>0, <1>3

\* n steps to the right divide by 2^n (srl), the signed number for sra.
LEMMA ManyRight ==
  ASSUME NEW ins \in Instr, ins.op = 5, NEW w \in Word
  PROVE  \A n \in 0 .. XLEN - 1 : Many(ins, w, n) = Wrap(Operand(ins, w) \div Pow2[n])
<1> DEFINE z == Operand(ins, w)
<1>0. XLEN \in Nat /\ XLEN >= 4 /\ w \in Int /\ Half \in Nat /\ Half >= 8
      /\ Pow2[XLEN - 1] = Half /\ Pow2[XLEN] = 2 * Half /\ w >= 0 /\ w < 2 * Half
  BY Sizes DEF Half
<1>1. z \in Int /\ IF ins.sign = 1 THEN -Half <= z /\ z < Half ELSE 0 <= z /\ z < 2 * Half
  BY <1>0 DEF Operand, Signed
<1>2. Wrap(z) = w
  <2>1. CASE z = w
    BY <2>1, WrapWord
  <2>2. CASE z # w
    <3>1. z = w - 2 * Half /\ -(2 * Half) <= z /\ z < 0
      BY <1>0, <1>1, <2>2 DEF Operand, Signed
    <3> QED
      BY <1>0, <1>1, <3>1, WrapNegative
  <2> QED
    BY <2>1, <2>2
<1> HIDE DEF z
<1> DEFINE S == {n \in Nat : n <= XLEN - 1 => Many(ins, w, n) = Wrap(z \div Pow2[n])}
<1>3. 0 \in S
  <2>1. Many(ins, w, 0) = w
    BY ManyStep
  <2>2. z \div Pow2[0] = z
    BY <1>1, PowStep
  <2> QED
    BY <1>2, <2>1, <2>2
<1>4. ASSUME NEW n \in Nat, n \in S PROVE n + 1 \in S
  <2> SUFFICES ASSUME n + 1 <= XLEN - 1
               PROVE  Many(ins, w, n + 1) = Wrap(z \div Pow2[n + 1])
    OBVIOUS
  <2> DEFINE u == z \div Pow2[n]
  <2>1. Many(ins, w, n + 1) = Once(ins, Wrap(u))
    BY <1>0, <1>4, ManyStep
  <2>2. Pow2[n] \in Nat \ {0} /\ Pow2[n + 1] = Pow2[n] * 2
    BY PowStep, PowPositive
  <2>3. u \in Int /\ IF ins.sign = 1 THEN -Half <= u /\ u < Half ELSE 0 <= u /\ u < 2 * Half
    <3>1. CASE ins.sign = 1
      BY <1>0, <1>1, <2>2, <3>1, QuotientBounds
    <3>2. CASE ins.sign # 1
      <4> DEFINE h == 2 * Half
      <4>0. h \in Nat /\ -h <= z /\ z < h
        BY <1>0, <1>1, <3>2
      <4>1. u \in Int /\ u < 2 * Half
        <5>1. \A e \in Nat : -e <= z /\ z < e => u \in Int /\ u < e
          BY <1>1, <2>2, QuotientBounds
        <5> QED
          BY <4>0, <5>1
      <4>2. u >= 0
        BY <1>1, <2>2, <3>2
      <4> QED
        BY <3>2, <4>1, <4>2
    <3> QED
      BY <3>1, <3>2
  <2>4. u \div 2 = z \div Pow2[n + 1]
    BY <1>1, <2>2, NestedQuotient
  <2> HIDE DEF u
  <2> QED
    BY <2>1, <2>3, <2>4, OnceRight
<1>5. Nat \subseteq S
  <2> HIDE DEF S
  <2> QED
    BY <1>3, <1>4, Induction
<1> QED
  BY <1>0, <1>5 DEF z

---------------------------------------------------------------------------
(* The gates; fields of bits.                                              *)

\* A gate makes a bit of two bits.
LEMMA GateOfBits ==
  ASSUME NEW gate \in {And, Or, Xor}, NEW p \in 0 .. 1, NEW q \in 0 .. 1
  PROVE  gate[p][q] \in 0 .. 1
<1>1. CASE gate = And
  BY <1>1 DEF And
<1>2. CASE gate = Or
  BY <1>2 DEF Or
<1>3. CASE gate = Xor
  BY <1>3 DEF Xor
<1> QED
  BY <1>1, <1>2, <1>3

\* A gate on each bit of two words makes a word.
LEMMA BitwiseInWord ==
  ASSUME NEW gate \in {And, Or, Xor}, NEW v \in Word, NEW w \in Word
  PROVE  Bitwise(gate, v, w) \in Word
<1> DEFINE bit(k) == gate[Bit(v, k - 1)][Bit(w, k - 1)] * Pow2[k - 1]
           T == Nat
           z == 0
           s == [k \in Nat |-> [x \in T |-> IF k = 0 THEN x ELSE x + bit(k)]]
           low == CHOOSE f : f = [k \in Nat |-> IF k = 0 THEN 0 ELSE f[k - 1] + bit(k)]
<1>1. ASSUME NEW k \in Nat, k # 0 PROVE bit(k) \in Nat /\ bit(k) <= Pow2[k - 1]
  <2>1. k - 1 \in Nat /\ Pow2[k - 1] \in Nat \ {0} /\ v \in Int /\ w \in Int
    BY <1>1, PowPositive, Sizes
  <2>2. Bit(v, k - 1) \in 0 .. 1 /\ Bit(w, k - 1) \in 0 .. 1
    BY <2>1 DEF Bit
  <2>3. gate[Bit(v, k - 1)][Bit(w, k - 1)] \in 0 .. 1
    BY <2>2, GateOfBits
  <2> QED
    BY <2>1, <2>3
<1> HIDE DEF bit
<1>2. z \in T /\ s \in [Nat -> [T -> T]]
  BY <1>1
<1>3. \A k \in Nat, x \in T : s[k][x] = IF k = 0 THEN x ELSE x + bit(k)
  OBVIOUS
<1> HIDE DEF s, z, T
<1>4. PICK f \in [Nat -> T] : \A n \in Nat : f[n] = IF n = 0 THEN z ELSE s[n][f[n - 1]]
  BY <1>2, Recursion
<1> USE DEF T, z
<1>5. ASSUME NEW n \in Nat PROVE f[n] = IF n = 0 THEN 0 ELSE f[n - 1] + bit(n)
  <2>1. CASE n = 0
    BY <2>1, <1>4
  <2>2. CASE n # 0
    <3>1. n - 1 \in Nat
      BY <2>2
    <3> QED
      BY <3>1, <2>2, <1>3, <1>4
  <2> QED
    BY <2>1, <2>2
<1>6. f = [k \in Nat |-> IF k = 0 THEN 0 ELSE f[k - 1] + bit(k)]
  BY <1>5
<1>7. low = [k \in Nat |-> IF k = 0 THEN 0 ELSE low[k - 1] + bit(k)]
  BY <1>6, Zenon
<1>8. Bitwise(gate, v, w) = low[XLEN]
  BY Zenon DEF Bitwise, bit
<1> HIDE DEF low
<1>9. \A k \in Nat : low[k] = IF k = 0 THEN 0 ELSE low[k - 1] + bit(k)
  BY <1>7
<1> DEFINE S == {k \in Nat : low[k] \in Nat /\ low[k] < Pow2[k]}
<1>10. 0 \in S
  BY <1>9, PowStep
<1>11. ASSUME NEW k \in Nat, k \in S PROVE k + 1 \in S
  <2>1. low[k + 1] = low[k] + bit(k + 1)
    BY <1>9
  <2>2. bit(k + 1) \in Nat /\ bit(k + 1) <= Pow2[k]
    BY <1>1
  <2>3. Pow2[k + 1] = 2 * Pow2[k] /\ Pow2[k] \in Nat
    BY PowStep
  <2> QED
    BY <1>11, <2>1, <2>2, <2>3
<1>12. Nat \subseteq S
  <2> HIDE DEF S
  <2> QED
    BY <1>10, <1>11, Induction
<1>13. XLEN \in Nat /\ \A x \in Nat : x < Pow2[XLEN] => x \in Word
  BY Sizes
<1>14. low[XLEN] \in Nat /\ low[XLEN] < Pow2[XLEN]
  BY <1>12, <1>13
<1> HIDE DEF S
<1>15. low[XLEN] \in Word
  BY <1>13, <1>14
<1> QED
  BY <1>8, <1>15, Zenon

\* A multiple of the divisor goes through the quotient.
LEMMA QuotientOfSum ==
  ASSUME NEW y \in Int, NEW k \in Int, NEW d \in Nat \ {0}
  PROVE  (y + d * k) \div d = (y \div d) + k
<1> DEFINE q == y \div d
           r == y % d
<1>1. q \in Int /\ r \in 0 .. d - 1 /\ y = d * q + r
  BY Division
<1> HIDE DEF q, r
<1>2. y + d * k = d * (q + k) + r /\ q + k \in Int
  BY <1>1
<1>3. (d * (q + k) + r) \div d = q + k
  BY <1>1, <1>2, Quotient
<1> QED
  BY <1>2, <1>3 DEF q

\* A field of bits does not depend on the bits above it.
LEMMA Field ==
  ASSUME NEW z \in Int, NEW t \in Nat, NEW p \in Nat, NEW q \in Nat, p + q <= t
  PROVE  ((z % Pow2[t]) \div Pow2[p]) % Pow2[q] = (z \div Pow2[p]) % Pow2[q]
<1> DEFINE P == Pow2[p]
           Q == Pow2[q]
           R == Pow2[t - (p + q)]
           k == z \div Pow2[t]
           r == z % Pow2[t]
<1>1. t - (p + q) \in Nat /\ (p + q) + (t - (p + q)) = t /\ p + q \in Nat
  OBVIOUS
<1>2. P \in Nat \ {0} /\ Q \in Nat \ {0} /\ R \in Nat \ {0} /\ Pow2[t] \in Nat \ {0}
  BY <1>1, PowPositive
<1>3. Pow2[t] = (P * Q) * R
  BY <1>1, PowSum
<1>4. k \in Int /\ r \in Int /\ z = Pow2[t] * k + r
  <2>1. \A d \in Nat \ {0} : z \div d \in Int /\ z % d \in Int /\ z = d * (z \div d) + (z % d)
    BY Division
  <2> QED
    BY <1>2, <2>1
<1> HIDE DEF P, Q, R, k, r
<1>5. Q * (R * k) \in Int /\ R * k \in Int /\ z = r + P * (Q * (R * k))
  <2>1. Q * (R * k) \in Int /\ R * k \in Int
    BY <1>2, <1>4
  <2>2. ((P * Q) * R) * k = P * (Q * (R * k))
    BY <1>2, <1>4
  <2>3. z = ((P * Q) * R) * k + r
    BY <1>3, <1>4
  <2>4. \A x, y \in Int : x + y = y + x
    OBVIOUS
  <2> HIDE DEF P
  <2>5. P * (Q * (R * k)) \in Int
    BY <1>2, <2>1
  <2> QED
    BY <1>4, <2>1, <2>2, <2>3, <2>4, <2>5
<1>6. z \div P = (r \div P) + Q * (R * k) /\ r \div P \in Int
  <2>1. \A x \in Int : (r + P * x) \div P = (r \div P) + x
    BY <1>2, <1>4, QuotientOfSum
  <2>2. r \div P \in Int
    BY <1>2, <1>4
  <2> QED
    BY <1>5, <2>1, <2>2
<1>7. ((r \div P) + Q * (R * k)) % Q = (r \div P) % Q
  BY <1>2, <1>5, <1>6, SameRemainder
<1> QED
  BY <1>6, <1>7 DEF P, Q, r

\* A shift to the left undone by a longer one to the right.
LEMMA ShiftBack ==
  ASSUME NEW z \in Int, NEW m \in Nat, NEW n \in Nat
  PROVE  (z * Pow2[m]) \div Pow2[m + n] = z \div Pow2[n]
<1> DEFINE P == Pow2[m]
           N == Pow2[n]
<1>1. P \in Nat \ {0} /\ N \in Nat \ {0} /\ Pow2[m + n] = P * N
  BY PowPositive, PowSum
<1> HIDE DEF P, N
<1>2. z * P = P * z + 0 /\ z * P \in Int
  BY <1>1
<1>3. \A x \in 0 .. P - 1 : (P * z + x) \div P = z
  BY <1>1, Quotient
<1>4. 0 \in 0 .. P - 1
  BY <1>1
<1>5. (z * P) \div P = z
  <2>1. (P * z + 0) \div P = z
    BY <1>3, <1>4
  <2> QED
    BY <1>2, <2>1
<1>6. ((z * P) \div P) \div N = (z * P) \div (P * N)
  BY <1>1, <1>2, NestedQuotient
<1> QED
  BY <1>1, <1>5, <1>6 DEF P, N

---------------------------------------------------------------------------
(* Words and their bytes: stores.                                          *)

\* The values of a byte.
B == Pow2[BYTE]

\* The powers of the positions of bytes.
LEMMA ByteSizes ==
  /\ B \in Nat \ {0}
  /\ Pow2[BYTE * 0] = 1 /\ Pow2[BYTE * 1] = B
  /\ Pow2[BYTE * 2] = B * B /\ Pow2[BYTE * 3] = B * (B * B)
  /\ Pow2[2 * BYTE] = B * B /\ Pow2[3 * BYTE] = B * (B * B)
  /\ Pow2[XLEN] = B * (B * (B * B))
<1>1. /\ BYTE \in Nat /\ 2 * BYTE \in Nat /\ 3 * BYTE \in Nat
      /\ BYTE * 0 = 0 /\ BYTE * 1 = BYTE /\ BYTE * 2 = 2 * BYTE /\ BYTE * 3 = 3 * BYTE
      /\ BYTE + BYTE = 2 * BYTE /\ BYTE + 2 * BYTE = 3 * BYTE /\ BYTE + 3 * BYTE = XLEN
  BY Sizes
<1>2. B \in Nat \ {0}
  BY <1>1, PowPositive DEF B
<1>3. Pow2[2 * BYTE] = B * B
  BY <1>1, PowSum DEF B
<1>4. Pow2[3 * BYTE] = B * (B * B)
  BY <1>1, <1>3, PowSum DEF B
<1>5. Pow2[XLEN] = B * (B * (B * B))
  BY <1>1, <1>4, PowSum DEF B
<1> QED
  BY <1>1, <1>2, <1>3, <1>4, <1>5, PowStep DEF B

\* The four bytes of a word, by divisions.
LEMMA ByteOfIs ==
  ASSUME NEW w \in Int
  PROVE  /\ \A k \in Lanes : ByteOf(w, k) \in 0 .. B - 1
         /\ ByteOf(w, 0) = w % B
         /\ ByteOf(w, 1) = (w \div B) % B
         /\ ByteOf(w, 2) = ((w \div B) \div B) % B
         /\ ByteOf(w, 3) = (((w \div B) \div B) \div B) % B
<1>0. B \in Nat \ {0}
  BY ByteSizes
<1>1. w \div 1 = w
  OBVIOUS
<1>2. w \div (B * B) = (w \div B) \div B
  BY <1>0, NestedQuotient
<1>3. w \div (B * (B * B)) = ((w \div B) \div B) \div B
  <2> DEFINE C == B * B
             q == w \div B
  <2>1. C \in Nat \ {0} /\ q \in Int
    BY <1>0
  <2>2. q \div C = (q \div B) \div B
    <3> HIDE DEF q
    <3> QED
      BY <1>0, <2>1, NestedQuotient
  <2> HIDE DEF C
  <2>3. w \div (B * C) = (w \div B) \div C
    BY <1>0, <2>1, NestedQuotient
  <2> QED
    BY <2>2, <2>3 DEF C
<1>4. /\ ByteOf(w, 0) = w % B
      /\ ByteOf(w, 1) = (w \div B) % B
      /\ ByteOf(w, 2) = ((w \div B) \div B) % B
      /\ ByteOf(w, 3) = (((w \div B) \div B) \div B) % B
  BY <1>1, <1>2, <1>3, ByteSizes DEF ByteOf, B
<1>5. \A z \in Int : z % B \in 0 .. B - 1
  BY <1>0
<1>6. /\ w \div B \in Int /\ (w \div B) \div B \in Int
      /\ ((w \div B) \div B) \div B \in Int
  BY <1>0
<1>7. /\ ByteOf(w, 0) \in 0 .. B - 1 /\ ByteOf(w, 1) \in 0 .. B - 1
      /\ ByteOf(w, 2) \in 0 .. B - 1 /\ ByteOf(w, 3) \in 0 .. B - 1
  BY <1>4, <1>5, <1>6
<1> QED
  BY <1>4, <1>7 DEF Lanes

\* Four bytes make a word.
LEMMA WordOfBytes ==
  ASSUME NEW b0 \in 0 .. B - 1, NEW b1 \in 0 .. B - 1, NEW b2 \in 0 .. B - 1,
         NEW b3 \in 0 .. B - 1
  PROVE  b0 + b1 * B + b2 * (B * B) + b3 * (B * (B * B)) \in Word
<1>0. B \in Nat \ {0}
  BY ByteSizes
<1>1. ASSUME NEW x \in 0 .. B - 1, NEW P \in Nat \ {0}, NEW y \in 0 .. P - 1
      PROVE  x + B * y \in 0 .. (B * P) - 1
  <2>1. B * y \in Nat /\ B * y <= B * (P - 1)
    BY <1>0
  <2>2. B * (P - 1) = (B * P) - B
    BY <1>0
  <2> QED
    BY <1>0, <2>1, <2>2
<1> DEFINE C == B * B
           D == B * C
           y2 == b2 + B * b3
           y1 == b1 + B * y2
           y0 == b0 + B * y1
<1>2. C \in Nat \ {0} /\ D \in Nat \ {0}
  BY <1>0
<1>3. y2 \in 0 .. C - 1
  BY <1>0, <1>1
<1> HIDE DEF C, y2
<1>4. y1 \in 0 .. D - 1
  BY <1>1, <1>2, <1>3
<1> HIDE DEF D, y1
<1>5. y0 \in 0 .. (B * D) - 1
  BY <1>1, <1>2, <1>4
<1>6. y0 = b0 + b1 * B + b2 * (B * B) + b3 * (B * (B * B))
  <2>1. B * b3 \in Int /\ y2 = b2 + B * b3 /\ y2 \in Int
    BY <1>0 DEF y2
  <2>2. B * y2 = b2 * B + B * (B * b3)
    BY <1>0, <2>1
  <2>3. y1 = b1 + b2 * B + B * (B * b3) /\ y1 \in Int
    BY <1>0, <2>2 DEF y1
  <2>4. B * y1 = b1 * B + b2 * (B * B) + B * (B * (B * b3))
    BY <1>0, <2>3
  <2>5. B * (B * (B * b3)) = b3 * (B * (B * B))
    BY <1>0
  <2> QED
    BY <1>0, <2>4, <2>5
<1>7. Word = 0 .. (B * D) - 1
  BY Sizes, ByteSizes DEF Word, C, D
<1> QED
  BY <1>5, <1>6, <1>7

\* WordOf makes a word of four bytes.
LEMMA WordOfType ==
  ASSUME NEW f, \A k \in Lanes : f[k] \in 0 .. B - 1
  PROVE  WordOf(f) \in Word
<1>1. /\ f[0] \in 0 .. B - 1 /\ f[1] \in 0 .. B - 1
      /\ f[2] \in 0 .. B - 1 /\ f[3] \in 0 .. B - 1
  BY DEF Lanes
<1>2. f[0] + f[1] * B + f[2] * (B * B) + f[3] * (B * (B * B)) \in Word
  BY <1>1, WordOfBytes
<1> QED
  BY <1>2, ByteSizes DEF WordOf, B

\* A word is made of its bytes: a write without lanes changes nothing.
LEMMA Reassembled ==
  ASSUME NEW w \in Word
  PROVE  WordOf([k \in Lanes |-> ByteOf(w, k)]) = w
<1>0. B \in Nat \ {0} /\ w \in Int /\ w >= 0 /\ w < B * (B * (B * B))
  BY Sizes, ByteSizes
<1> DEFINE f == [k \in Lanes |-> ByteOf(w, k)]
           q1 == w \div B
           q2 == q1 \div B
           q3 == q2 \div B
<1>1. q1 \in Int /\ w = B * q1 + (w % B) /\ w % B \in 0 .. B - 1
  BY <1>0, Division
<1>2. /\ f[0] = w % B /\ f[1] = q1 % B /\ f[2] = q2 % B /\ f[3] = q3 % B
  <2>1. /\ ByteOf(w, 0) = w % B /\ ByteOf(w, 1) = q1 % B
        /\ ByteOf(w, 2) = q2 % B /\ ByteOf(w, 3) = q3 % B
    BY <1>0, ByteOfIs
  <2>2. \A k \in Lanes : f[k] = ByteOf(w, k)
    OBVIOUS
  <2> HIDE DEF f, q1, q2, q3
  <2> QED
    BY <2>1, <2>2 DEF Lanes
<1> HIDE DEF q1
<1>3. q2 \in Int /\ q1 = B * q2 + (q1 % B) /\ q1 % B \in 0 .. B - 1
  BY <1>0, <1>1, Division
<1> HIDE DEF q2
<1>4. q3 \in Int /\ q2 = B * q3 + (q2 % B) /\ q2 % B \in 0 .. B - 1
  BY <1>0, <1>3, Division
<1> HIDE DEF q3
<1>5. q1 >= 0 /\ q1 < B * (B * B)
  <2> DEFINE D == B * (B * B)
  <2>1. D \in Nat
    BY <1>0
  <2> HIDE DEF D
  <2>2. B * q1 >= 0 - (B - 1) /\ B * q1 < B * D
    BY <1>0, <1>1, <2>1 DEF D
  <2>3. q1 < 0 => B * q1 <= -B
    BY <1>0, <1>1
  <2>4. q1 >= D => B * q1 >= B * D
    BY <1>0, <1>1, <2>1
  <2> QED
    BY <1>0, <1>1, <2>1, <2>2, <2>3, <2>4 DEF D
<1>6. q2 >= 0 /\ q2 < B * B
  <2> DEFINE D == B * B
  <2>1. D \in Nat
    BY <1>0
  <2> HIDE DEF D
  <2>2. B * q2 >= 0 - (B - 1) /\ B * q2 < B * D
    BY <1>0, <1>3, <1>5, <2>1 DEF D
  <2>3. q2 < 0 => B * q2 <= -B
    BY <1>0, <1>3
  <2>4. q2 >= D => B * q2 >= B * D
    BY <1>0, <1>3, <2>1
  <2> QED
    BY <1>0, <1>3, <2>1, <2>2, <2>3, <2>4 DEF D
<1>7. q3 >= 0 /\ q3 < B
  <2>2. B * q3 >= 0 - (B - 1) /\ B * q3 < B * B
    BY <1>0, <1>4, <1>6
  <2>3. q3 < 0 => B * q3 <= -B
    BY <1>0, <1>4
  <2>4. q3 >= B => B * q3 >= B * B
    BY <1>0, <1>4
  <2> QED
    BY <1>0, <1>4, <2>2, <2>3, <2>4
<1>8. q3 % B = q3
  <2>1. \A r \in 0 .. B - 1 : r % B = r
    BY <1>0, SmallDividend
  <2>2. q3 \in 0 .. B - 1
    BY <1>0, <1>4, <1>7
  <2> QED
    BY <2>1, <2>2
<1> DEFINE r0 == w % B
           r1 == q1 % B
           r2 == q2 % B
<1>9. r0 \in Int /\ r1 \in Int /\ r2 \in Int
  BY <1>1, <1>3, <1>4
<1>10. w = B * q1 + r0 /\ q1 = B * q2 + r1 /\ q2 = B * q3 + r2
  BY <1>1, <1>3, <1>4
<1> HIDE DEF r0, r1, r2
<1>11. w = r0 + r1 * B + r2 * (B * B) + q3 * (B * (B * B))
  <2>1. q1 = r1 + r2 * B + B * (B * q3)
    BY <1>0, <1>4, <1>9, <1>10
  <2>2. w = r0 + r1 * B + r2 * (B * B) + B * (B * (B * q3))
    BY <1>0, <1>4, <1>9, <1>10, <2>1
  <2>3. B * (B * (B * q3)) = q3 * (B * (B * B))
    BY <1>0, <1>4
  <2> QED
    BY <2>2, <2>3
<1>12. WordOf(f) = r0 + r1 * B + r2 * (B * B) + q3 * (B * (B * B))
  <2>1. f[0] = r0 /\ f[1] = r1 /\ f[2] = r2 /\ f[3] = q3
    BY <1>2, <1>8 DEF r0, r1, r2
  <2> HIDE DEF f
  <2> QED
    BY <2>1, ByteSizes DEF WordOf, B
<1> QED
  BY <1>11, <1>12

\* The bytes of a register that a store puts on the lanes of a word.
LEMMA StoreLane ==
  ASSUME NEW w \in Word, NEW o \in 0 .. 3, NEW k \in 0 .. 3, o <= k
  PROVE  ByteOf(Wrap(w * Pow2[BYTE * o]), k) = ByteOf(w, k - o)
<1>1. /\ BYTE \in Nat /\ BYTE * o \in Nat /\ BYTE * k \in Nat /\ BYTE * (k - o) \in Nat
      /\ BYTE * o + BYTE * (k - o) = BYTE * k /\ XLEN \in Nat
      /\ BYTE * k + BYTE <= XLEN
  <2>1. BYTE \in Nat /\ XLEN = 4 * BYTE
    BY Sizes
  <2>2. k \in {0, 1, 2, 3} /\ o \in {0, 1, 2, 3}
    OBVIOUS
  <2> QED
    BY <2>1, <2>2
<1> DEFINE z == w * Pow2[BYTE * o]
<1>2. w \in Int /\ z \in Int
  <2>1. w \in Int /\ Pow2[BYTE * o] \in Nat
    <3> DEFINE m == BYTE * o
    <3>1. m \in Nat
      BY <1>1
    <3> HIDE DEF m
    <3>2. Pow2[m] \in Nat
      BY <3>1, PowPositive
    <3> QED
      BY <3>2, Sizes DEF m
  <2> QED
    BY <2>1
<1>3. z \div Pow2[BYTE * k] = w \div Pow2[BYTE * (k - o)]
  <2>1. \A m \in Nat, n \in Nat : (w * Pow2[m]) \div Pow2[m + n] = w \div Pow2[n]
    BY <1>2, ShiftBack
  <2>2. (w * Pow2[BYTE * o]) \div Pow2[BYTE * o + BYTE * (k - o)] = w \div Pow2[BYTE * (k - o)]
    BY <1>1, <2>1
  <2> QED
    BY <1>1, <2>2
<1> HIDE DEF z
<1>4. ((z % Pow2[XLEN]) \div Pow2[BYTE * k]) % Pow2[BYTE]
        = (z \div Pow2[BYTE * k]) % Pow2[BYTE]
  BY <1>1, <1>2, Field
<1> QED
  BY <1>3, <1>4 DEF ByteOf, Wrap, z

---------------------------------------------------------------------------
(* Loads.                                                                  *)

\* What a load makes of a word: in the processor, and as RV32I tells it.
Aligned(op, o, w) ==
  LET aligned == w \div Pow2[BYTE * o]
      bits == BYTE * Pow2[op % 4]
      high == IF op \div 4 = 0 /\ Bit(aligned, bits - 1) = 1
              THEN Pow2[XLEN] - Pow2[bits] ELSE 0 IN
  IF bits = XLEN THEN aligned ELSE high + (aligned % Pow2[bits])

Extension(op, o, w) ==
  LET bytes == Pow2[op % 4]
      v == (w \div Pow2[BYTE * o]) % Pow2[BYTE * bytes] IN
  IF op < 4 /\ Bit(v, BYTE * bytes - 1) = 1 THEN Wrap(v - Pow2[BYTE * bytes]) ELSE v

\* The sizes of the accesses: a byte, two, four.
LEMMA SmallPowers == Pow2[0] = 1 /\ Pow2[1] = 2 /\ Pow2[2] = 4
<1>1. Pow2[0] = 1 /\ Pow2[0 + 1] = 2 * Pow2[0] /\ Pow2[1 + 1] = 2 * Pow2[1]
  BY PowStep
<1> QED
  BY <1>1

\* The sign extension of a part of a word.
LEMMA PartExtended ==
  ASSUME NEW x \in Nat, NEW bits \in Nat \ {0}, bits < XLEN
  PROVE  LET v == x % Pow2[bits] IN
         /\ v \in Word /\ Bit(v, bits - 1) = Bit(x, bits - 1)
         /\ Wrap(v - Pow2[bits]) = (Pow2[XLEN] - Pow2[bits]) + v
<1> DEFINE P == Pow2[bits]
           v == x % P
<1>1. P \in Nat \ {0} /\ P <= 2 * Half /\ Pow2[XLEN] = 2 * Half /\ XLEN \in Nat
      /\ Half \in Nat /\ Word = 0 .. 2 * Half - 1
  BY PowPositive, PowMonotonic, Sizes
<1>2. Bit(v, bits - 1) = Bit(x, bits - 1)
  <2>1. bits - 1 \in Nat /\ (bits - 1) + 1 <= bits
    OBVIOUS
  <2>2. ((x % Pow2[bits]) \div Pow2[bits - 1]) % Pow2[1] = (x \div Pow2[bits - 1]) % Pow2[1]
    BY <2>1, Field
  <2> QED
    BY <2>2, SmallPowers DEF Bit
<1>3. v \in 0 .. P - 1
  BY <1>1
<1> HIDE DEF v, P
<1>4. v \in Word /\ v - P \in Int /\ -(2 * Half) <= v - P /\ v - P < 0
  BY <1>1, <1>3
<1>5. Wrap(v - P) = (v - P) + 2 * Half
  BY <1>4, WrapNegative
<1>6. Wrap(v - P) = (Pow2[XLEN] - P) + v
  BY <1>1, <1>3, <1>5
<1> QED
  BY <1>2, <1>4, <1>6 DEF v, P

\* What a load makes of a word in the processor is what RV32I tells.
LEMMA LoadIs ==
  ASSUME NEW op \in {0, 1, 2, 4, 5}, NEW o \in 0 .. 3, op = 2 => o = 0, NEW w \in Word
  PROVE  Aligned(op, o, w) = Extension(op, o, w) /\ Aligned(op, o, w) \in Word
<1> DEFINE x == w \div Pow2[BYTE * o]
           bits == BYTE * Pow2[op % 4]
<1>0. BYTE \in Nat \ {0} /\ XLEN = 4 * BYTE /\ Half \in Nat /\ Half >= 8 /\ w \in Nat
      /\ Word = 0 .. 2 * Half - 1 /\ Pow2[XLEN] = 2 * Half
  BY Sizes
<1>1. Pow2[BYTE * o] \in Nat \ {0}
  <2> DEFINE m == BYTE * o
  <2>1. m \in Nat
    BY <1>0
  <2> HIDE DEF m
  <2>2. Pow2[m] \in Nat \ {0}
    BY <2>1, PowPositive
  <2> QED
    BY <2>2 DEF m
<1>2. x \in Nat
  BY <1>0, <1>1
<1>3. CASE op = 2
  <2>1. bits = XLEN /\ x = w
    <3>1. bits = BYTE * 4 /\ o = 0 /\ BYTE * 0 = 0
      BY <1>0, <1>3, SmallPowers
    <3> QED
      BY <1>0, <3>1, SmallPowers
  <2>2. Aligned(op, o, w) = w
    BY <2>1 DEF Aligned
  <2>3. x % Pow2[XLEN] = w
    BY <2>1, WrapWord DEF Wrap
  <2>4. Extension(op, o, w) = IF Bit(w, XLEN - 1) = 1 THEN Wrap(w - Pow2[XLEN]) ELSE w
    <3> HIDE DEF x
    <3> QED
      BY <1>3, <2>1, <2>3 DEF Extension, x
  <2>5. CASE Bit(w, XLEN - 1) = 1
    <3>1. w - Pow2[XLEN] \in Int /\ -(2 * Half) <= w - Pow2[XLEN] /\ w - Pow2[XLEN] < 0
      BY <1>0
    <3>2. Wrap(w - Pow2[XLEN]) = (w - Pow2[XLEN]) + 2 * Half
      BY <3>1, WrapNegative
    <3> QED
      BY <1>0, <2>2, <2>4, <2>5, <3>2
  <2> QED
    BY <2>2, <2>4, <2>5
<1>4. CASE op # 2
  <2> DEFINE v == x % Pow2[bits]
  <2>1. bits \in Nat \ {0} /\ bits < XLEN /\ op \in Nat
    <3>1. op % 4 \in {0, 1} /\ op \in Nat
      BY <1>4
    <3>2. Pow2[op % 4] \in {1, 2}
      BY <3>1, SmallPowers
    <3> QED
      BY <1>0, <3>1, <3>2
  <2>2. /\ v \in Word /\ Bit(v, bits - 1) = Bit(x, bits - 1)
        /\ Wrap(v - Pow2[bits]) = (Pow2[XLEN] - Pow2[bits]) + v
    <3> HIDE DEF bits, x
    <3> QED
      BY <1>2, <2>1, PartExtended
  <2>3. op < 4 <=> op \div 4 = 0
    BY <2>1
  <2>4. Aligned(op, o, w) = (IF op \div 4 = 0 /\ Bit(x, bits - 1) = 1
                             THEN Pow2[XLEN] - Pow2[bits] ELSE 0) + v
    <3>1. bits # XLEN
      BY <1>0, <2>1
    <3> QED
      BY <3>1, Zenon DEF Aligned
  <2>5. Extension(op, o, w) = IF op < 4 /\ Bit(v, bits - 1) = 1
                              THEN Wrap(v - Pow2[bits]) ELSE v
    BY Zenon DEF Extension
  <2> HIDE DEF v, bits, x
  <2>6. CASE op < 4 /\ Bit(x, bits - 1) = 1
    <3>1. Wrap(v - Pow2[bits]) \in Word
      <4>1. Pow2[bits] \in Nat
        BY <2>1, PowPositive
      <4>2. v \in Int
        BY <1>0, <2>2
      <4>3. v - Pow2[bits] \in Int
        BY <4>1, <4>2
      <4> QED
        BY <4>3, WrapInWord
    <3> QED
      BY <2>2, <2>3, <2>4, <2>5, <2>6, <3>1
  <2>7. CASE ~(op < 4 /\ Bit(x, bits - 1) = 1)
    <3>1. 0 + v = v
      BY <1>0, <2>2
    <3> QED
      BY <2>2, <2>3, <2>4, <2>5, <2>7, <3>1
  <2> QED
    BY <2>6, <2>7
<1> QED
  BY <1>3, <1>4

---------------------------------------------------------------------------
(* What the units of the processor give in a cycle.                        *)

MemoryOp == i.opcode \in {"load", "store"}

\* What the outputs of execute tell of the instruction alone.
Decoded ==
  /\ exec.op = i.op /\ exec.write_rd = i.rd
  /\ exec.no_rd <=> i.opcode \in {"branch", "store"} \/ i.rd = 0
  /\ exec.load <=> i.opcode = "load"
  /\ exec.store <=> i.opcode = "store"
  /\ exec.storeVal <=> i.opcode \in {"LUI", "Cycles"}
  /\ exec.storeAddr <=> i.opcode = "AUIPC"
  /\ exec.intop <=> i.opcode \in {"IntImm", "IntReg"}
  /\ i.opcode \notin {"JAL", "JALR", "branch"} => ~exec.jump

\* The outputs of execute, one by one.
LEMMA ExecuteGives ==
  ASSUME NEW trigger, Execute(trigger)
  PROVE  /\ instr' = instr => Decoded'
         /\ exec'.op = i.op /\ exec'.write_rd = i.rd
         /\ exec'.jump <=> \/ i.opcode \in {"JAL", "JALR"}
                           \/ i.opcode = "branch" /\ Compared # i.op % 2
         /\ exec'.val = IF i.opcode = "LUI" THEN i.imm ELSE cycle
         /\ exec'.n = Wrap(addr_a + addr_imm)
         /\ exec'.r = AluResult
         /\ exec'.working <=> Shamt(trigger) # 0
         /\ shamt' = Shamt(trigger) /\ cycle' = Wrap(cycle + 1)
<1>1. exec' = Outputs(trigger) /\ shamt' = Shamt(trigger) /\ cycle' = Wrap(cycle + 1)
  BY DEF Execute
<1>2. instr' = instr => i' = i
  BY DEF i
<1>3. /\ exec'.jump <=> \/ i.opcode \in {"JAL", "JALR"}
                        \/ i.opcode = "branch" /\ Compared # i.op % 2
      /\ exec'.val = IF i.opcode = "LUI" THEN i.imm ELSE cycle
      /\ exec'.n = Wrap(addr_a + addr_imm)
      /\ exec'.r = AluResult
      /\ exec'.working <=> Shamt(trigger) # 0
  BY <1>1, Zenon DEF Outputs
<1>4. /\ exec'.op = i.op /\ exec'.write_rd = i.rd
      /\ exec'.no_rd <=> i.opcode \in {"branch", "store"} \/ i.rd = 0
      /\ exec'.load <=> i.opcode = "load"
      /\ exec'.store <=> i.opcode = "store"
      /\ exec'.storeVal <=> i.opcode \in {"LUI", "Cycles"}
      /\ exec'.storeAddr <=> i.opcode = "AUIPC"
      /\ exec'.intop <=> i.opcode \in {"IntImm", "IntReg"}
  BY <1>1, Zenon DEF Outputs
<1>5. i.opcode \notin {"JAL", "JALR", "branch"} => ~exec'.jump
  BY <1>3
<1>6. instr' = instr => Decoded'
  BY <1>2, <1>4, <1>5, Zenon DEF Decoded
<1> QED
  BY <1>1, <1>3, <1>4, <1>6

\* The words that the bus addresses.
BusAddress == 0 .. Pow2[addrW] - 1

\* The widths of the signals, the shifter at work when shamt is not 0, the bus as prev keeps it.
Types ==
  /\ phase \in {"fetch", "read", "exec", "wait"}
  /\ instr \in Word /\ xa \in Word /\ xb \in Word /\ cycle \in Word /\ rdata \in Word
  /\ pc \in BusAddress /\ addr \in BusAddress /\ prev.addr = addr
  /\ xregs \in [Reg -> Word] /\ ram \in [Ram -> Word]
  /\ exec.op \in 0 .. 7 /\ exec.write_rd \in Reg
  /\ exec.r \in Word /\ exec.n \in Word /\ exec.val \in Word
  /\ shamt \in 0 .. XLEN - 1 /\ (exec.working <=> shamt # 0)

\* The fields of the instruction at work are in their types.
LEMMA Fields ==
  ASSUME Types
  PROVE  /\ i \in Instr /\ i.opcode \in Opcodes /\ i.op \in 0 .. 7 /\ i.sign \in 0 .. 1
         /\ i.rd \in Reg /\ i.rs1 \in Reg /\ i.rs2 \in Reg /\ i.imm \in Word
         /\ b \in Word
<1>1. i \in Instr
  BY Rv32Assumption DEF Types, i
<1>2. /\ i.opcode \in Opcodes /\ i.op \in 0 .. 7 /\ i.sign \in 0 .. 1
      /\ i.rd \in Reg /\ i.rs1 \in Reg /\ i.rs2 \in Reg /\ i.imm \in Word
  BY <1>1 DEF Instr
<1> QED
  BY <1>1, <1>2 DEF Types, b

\* The shifter counts down, or loads at the trigger, and stays below XLEN.
LEMMA ShamtIs ==
  ASSUME Types, NEW trigger \in BOOLEAN
  PROVE  /\ Shamt(trigger) \in 0 .. XLEN - 1
         /\ exec.working => Shamt(trigger) = shamt - 1
         /\ ~exec.working => Shamt(trigger) = IF aluShift /\ trigger THEN b % XLEN ELSE 0
<1>1. b \in Int /\ XLEN \in Nat /\ XLEN >= 4
  BY Fields, Sizes
<1>2. b % XLEN \in 0 .. XLEN - 1
  BY <1>1
<1>3. CASE exec.working
  BY <1>1, <1>3 DEF Types, Shamt
<1>4. CASE ~exec.working
  BY <1>1, <1>2, <1>4 DEF Types, Shamt
<1> QED
  BY <1>3, <1>4

\* The ALU computes what the instruction names, on words.
LEMMA AluResultIs ==
  ASSUME Types
  PROVE  /\ i.op = 0 =>
               AluResult = Wrap(IF i.opcode = "IntReg" /\ i.sign = 1 THEN xa - b ELSE xa + b)
         /\ i.op \in {1, 5} => AluResult = IF exec.working THEN Once(i, exec.r) ELSE xa
         /\ i.op = 2 => AluResult = IF Signed(xa) < Signed(b) THEN 1 ELSE 0
         /\ i.op = 3 => AluResult = IF xa < b THEN 1 ELSE 0
         /\ i.op = 4 => AluResult = Bitwise(Xor, xa, b)
         /\ i.op = 6 => AluResult = Bitwise(Or, xa, b)
         /\ i.op = 7 => AluResult = Bitwise(And, xa, b)
         /\ AluResult \in Word
<1>1. xa \in Word /\ b \in Word /\ exec.r \in Word /\ i \in Instr /\ i.op \in 0 .. 7
  BY Fields DEF Types
<1>2. a_minus_b = Difference(xa, b)
  BY DEF a_minus_b, Difference
<1>3. a_lt_b = IF Signed(xa) < Signed(b) THEN 1 ELSE 0
  BY <1>1, <1>2, SignedLess DEF a_lt_b
<1>4. a_lt_b_u = IF xa < b THEN 1 ELSE 0
  BY <1>1, <1>2, Borrow DEF a_lt_b_u
<1>5. i.op = 0 => AluResult = Wrap(IF i.opcode = "IntReg" /\ i.sign = 1 THEN xa - b ELSE xa + b)
  <2>1. i.op = 0 =>
          AluResult = Wrap(IF i.opcode = "IntReg" /\ i.sign = 1 THEN a_minus_b ELSE xa + b)
    BY DEF AluResult
  <2>2. Wrap(a_minus_b) = Wrap(xa - b)
    BY <1>1, <1>2, WrapDifference
  <2> QED
    BY <2>1, <2>2
<1>6. i.op = 2 => AluResult = IF Signed(xa) < Signed(b) THEN 1 ELSE 0
  BY <1>3 DEF AluResult
<1>7. i.op = 3 => AluResult = IF xa < b THEN 1 ELSE 0
  BY <1>4 DEF AluResult
<1>8. /\ i.op = 4 => AluResult = Bitwise(Xor, xa, b)
      /\ i.op = 6 => AluResult = Bitwise(Or, xa, b)
      /\ i.op = 7 => AluResult = Bitwise(And, xa, b)
  BY DEF AluResult
<1>9. i.op \in {1, 5} => AluResult = IF exec.working THEN Once(i, exec.r) ELSE xa
  BY DEF AluResult, shifted, OneBit, Once
<1>10. AluResult \in Word
  <2>1. i.op \in {0, 1, 2, 3, 4, 5, 6, 7}
    BY <1>1
  <2>2. CASE i.op = 0
    <3>1. xa - b \in Int /\ xa + b \in Int
      BY <1>1, Sizes
    <3> QED
      BY <1>5, <2>2, <3>1, WrapInWord
  <2>3. CASE i.op \in {1, 5}
    BY <1>1, <1>9, <2>3, OnceInWord
  <2>4. CASE i.op \in {2, 3}
    BY <1>6, <1>7, <2>4, Sizes
  <2>5. CASE i.op \in {4, 6, 7}
    BY <1>1, <1>8, <2>5, BitwiseInWord
  <2> QED
    BY <2>1, <2>2, <2>3, <2>4, <2>5
<1> QED
  BY <1>5, <1>6, <1>7, <1>8, <1>9, <1>10

\* The comparator and the lowest bit of op give the conditions of the branches.
LEMMA ComparedIs ==
  ASSUME Types, i.op \in {0, 1, 4, 5, 6, 7}
  PROVE  /\ i.op = 0 => (Compared # i.op % 2 <=> xa = b)
         /\ i.op = 1 => (Compared # i.op % 2 <=> xa # b)
         /\ i.op = 4 => (Compared # i.op % 2 <=> Signed(xa) < Signed(b))
         /\ i.op = 5 => (Compared # i.op % 2 <=> Signed(xa) >= Signed(b))
         /\ i.op = 6 => (Compared # i.op % 2 <=> xa < b)
         /\ i.op = 7 => (Compared # i.op % 2 <=> xa >= b)
<1>1. xa \in Word /\ b \in Word /\ Signed(xa) \in Int /\ Signed(b) \in Int
      /\ xa \in Int /\ b \in Int
  BY Fields, Sizes DEF Types, Signed
<1>2. a_minus_b = Difference(xa, b)
  BY DEF a_minus_b, Difference
<1>3. a_lt_b = IF Signed(xa) < Signed(b) THEN 1 ELSE 0
  BY <1>1, <1>2, SignedLess DEF a_lt_b
<1>4. a_lt_b_u = IF xa < b THEN 1 ELSE 0
  BY <1>1, <1>2, Borrow DEF a_lt_b_u
<1>5. a_eq_b = IF xa = b THEN 1 ELSE 0
  BY <1>1, <1>2, WrapDifference DEF a_eq_b
<1>6. CASE i.op \in {0, 1}
  <2>1. i.op \div 2 = 0
    BY <1>6
  <2>2. Compared = a_eq_b
    BY <2>1 DEF Compared
  <2> QED
    BY <1>5, <1>6, <2>2
<1>7. CASE i.op \in {4, 5}
  <2>1. i.op \div 2 = 2
    BY <1>7
  <2>2. Compared = a_lt_b
    BY <2>1 DEF Compared
  <2> QED
    BY <1>1, <1>3, <1>7, <2>2
<1>8. CASE i.op \in {6, 7}
  <2>1. i.op \div 2 = 3
    BY <1>8
  <2>2. Compared = a_lt_b_u
    BY <2>1 DEF Compared
  <2> QED
    BY <1>1, <1>4, <1>8, <2>2
<1> QED
  BY <1>6, <1>7, <1>8

\* The memory only sees the low bits of an address.
LEMMA CellInRam == \A address \in BusAddress : address % Pow2[addrW - 1] \in Ram
<1>1. Pow2[addrW - 1] \in Nat \ {0} /\ Ram = 0 .. Pow2[addrW - 1] - 1
  BY Addresses DEF Ram
<1>2. \A address \in BusAddress : address \in Int
  BY Addresses DEF BusAddress
<1> QED
  BY <1>1, <1>2

\* One cycle of the bus.
LEMMA BusGives ==
  ASSUME Types, NEW address \in BusAddress, NEW lanes, Bus(address, lanes)
  PROVE  /\ addr' = address /\ addr' \in BusAddress
         /\ prev' = [addr |-> address, lanes |-> lanes, wdata |-> Wrap(xb * Pow2[BYTE * Off])]
         /\ rdata' = ram[address % Pow2[addrW - 1]] /\ rdata' \in Word
         /\ ram' \in [Ram -> Word]
         /\ lanes = {} => ram' = ram
<1> DEFINE cell == address % Pow2[addrW - 1]
           wdata == Wrap(xb * Pow2[BYTE * Off])
           f == [k \in Lanes |-> IF k \in lanes THEN ByteOf(wdata, k) ELSE ByteOf(ram[cell], k)]
<1>1. cell \in Ram /\ ram[cell] \in Word /\ ram \in [Ram -> Word]
  BY CellInRam DEF Types
<1>2. addr' = address /\ prev' = [addr |-> address, lanes |-> lanes, wdata |-> wdata]
      /\ rdata' = ram[cell]
      /\ ram' = IF IsPeripheral(address) THEN ram ELSE [ram EXCEPT ![cell] = WordOf(f)]
  BY Zenon DEF Bus
<1>3. wdata \in Int
  <2>1. Off \in 0 .. 3
    BY Sizes DEF Off, Types
  <2> DEFINE m == BYTE * Off
  <2>2. m \in Nat
    BY <2>1, Sizes
  <2> HIDE DEF m
  <2>3. Pow2[m] \in Nat /\ xb \in Int
    BY <2>2, PowPositive, Sizes DEF Types
  <2>4. xb * Pow2[m] \in Int
    BY <2>3
  <2>5. \A z \in Int : Wrap(z) \in Int
    BY WrapInWord, Sizes
  <2>6. Wrap(xb * Pow2[m]) \in Int
    BY <2>4, <2>5
  <2> QED
    BY <2>6 DEF m
<1> HIDE DEF wdata, cell
<1>4. WordOf(f) \in Word
  <2>1. ram[cell] \in Int
    BY <1>1, Sizes
  <2>2. \A k \in Lanes : ByteOf(wdata, k) \in 0 .. B - 1 /\ ByteOf(ram[cell], k) \in 0 .. B - 1
    BY <1>3, <2>1, ByteOfIs
  <2>3. \A k \in Lanes : f[k] \in 0 .. B - 1
    BY <2>2
  <2> HIDE DEF f
  <2> QED
    BY <2>3, WordOfType
<1>5. ram' \in [Ram -> Word]
  <2> HIDE DEF f
  <2> QED
    BY <1>1, <1>2, <1>4
<1>6. ASSUME lanes = {} PROVE ram' = ram
  <2>1. f = [k \in Lanes |-> ByteOf(ram[cell], k)]
    BY <1>6
  <2> HIDE DEF f
  <2>2. WordOf(f) = ram[cell]
    BY <1>1, <2>1, Reassembled
  <2> QED
    BY <1>1, <1>2, <2>2
<1> QED
  BY <1>1, <1>2, <1>5, <1>6 DEF cell, wdata

\* What write_back selects, by instruction.
LEMMA WriteBackIs ==
  ASSUME Types, Decoded, NEW w
  PROVE  /\ exec.jump => write_back(w) = 4 * next_pc
         /\ i.opcode = "AUIPC" => write_back(w) = exec.n % Pow2[addrW + 2]
         /\ i.opcode \in {"LUI", "Cycles"} => write_back(w) = exec.val
         /\ i.opcode = "load" => write_back(w) = Aligned(exec.op, Off, w)
         /\ i.opcode \in {"IntImm", "IntReg"} => write_back(w) = exec.r
<1>1. CASE exec.jump
  <2>1. i.opcode \in {"JAL", "JALR", "branch"}
    BY <1>1 DEF Decoded
  <2>2. ~exec.storeAddr /\ ~exec.storeVal /\ ~exec.load /\ ~exec.intop
    BY <2>1 DEF Decoded
  <2>3. write_back(w) = 4 * next_pc
    BY <1>1, <2>2 DEF write_back
  <2> QED
    BY <2>1, <2>3
<1>2. CASE ~exec.jump
  <2>1. CASE i.opcode = "AUIPC"
    <3>1. exec.storeAddr /\ ~exec.storeVal /\ ~exec.load /\ ~exec.intop
      BY <2>1 DEF Decoded
    <3>2. write_back(w) = exec.n % Pow2[addrW + 2]
      BY <1>2, <3>1 DEF write_back
    <3> QED
      BY <1>2, <2>1, <3>2
  <2>2. CASE i.opcode \in {"LUI", "Cycles"}
    <3>1. ~exec.storeAddr /\ exec.storeVal /\ ~exec.load /\ ~exec.intop
      BY <2>2 DEF Decoded
    <3>2. write_back(w) = exec.val
      BY <1>2, <3>1 DEF write_back
    <3> QED
      BY <1>2, <2>2, <3>2
  <2>3. CASE i.opcode = "load"
    <3>1. ~exec.storeAddr /\ ~exec.storeVal /\ exec.load /\ ~exec.intop
      BY <2>3 DEF Decoded
    <3>2. write_back(w) = Loaded(w)
      BY <1>2, <3>1 DEF write_back
    <3>3. Loaded(w) = Aligned(exec.op, Off, w)
      BY Zenon DEF Loaded, Aligned
    <3> QED
      BY <1>2, <2>3, <3>2, <3>3
  <2>4. CASE i.opcode \in {"IntImm", "IntReg"}
    <3>1. ~exec.storeAddr /\ ~exec.storeVal /\ ~exec.load /\ exec.intop
      BY <2>4 DEF Decoded
    <3>2. write_back(w) = exec.r
      BY <1>2, <3>1 DEF write_back
    <3> QED
      BY <1>2, <2>4, <3>2
  <2> QED
    BY <1>2, <2>1, <2>2, <2>3, <2>4
<1> QED
  BY <1>1, <1>2

\* next_pc is the next word of the code, and 4 * next_pc fits a word.
LEMMA NextPcIs ==
  ASSUME Types
  PROVE  /\ next_pc \in BusAddress
         /\ 4 * next_pc \in Word
         /\ pc < CODE => next_pc = pc + 1 /\ next_pc \in Ram
<1> DEFINE A == Pow2[addrW - 2]
<1>1. /\ A \in Nat \ {0} /\ Pow2[addrW] = 4 * A /\ Ram = 0 .. 2 * A - 1 /\ 16 * A <= 2 * Half
      /\ pc \in 0 .. 4 * A - 1 /\ CODE \in Ram /\ BusAddress = 0 .. 4 * A - 1
      /\ Word = 0 .. 2 * Half - 1 /\ Half \in Nat
  BY Addresses, Sizes, IceVAssumption DEF Types, BusAddress
<1> DEFINE D == 4 * A
<1>2. next_pc = (pc + 1) % D /\ D \in Nat \ {0}
  BY <1>1 DEF next_pc
<1>3. next_pc \in 0 .. D - 1
  <2> HIDE DEF D
  <2> QED
    BY <1>1, <1>2
<1>4. ASSUME pc < CODE PROVE next_pc = pc + 1 /\ next_pc \in Ram
  <2>1. pc + 1 \in 0 .. D - 1 /\ pc + 1 \in Ram
    BY <1>1, <1>4
  <2> HIDE DEF D
  <2>2. \A r \in 0 .. D - 1 : r % D = r
    BY <1>2, SmallDividend
  <2> QED
    BY <1>2, <2>1, <2>2
<1> QED
  BY <1>1, <1>3, <1>4

\* What is written to a register is a word.
LEMMA WriteBackType ==
  ASSUME Types, Decoded, NEW w \in Word, ~exec.no_rd,
         i.opcode = "load" => exec.op \in {0, 1, 2, 4, 5} /\ (exec.op = 2 => Off = 0)
  PROVE  write_back(w) \in Word
<1>1. i.opcode \in Opcodes /\ i.opcode \notin {"branch", "store"}
  BY Fields DEF Decoded
<1>2. CASE exec.jump
  BY <1>2, WriteBackIs, NextPcIs
<1>3. CASE i.opcode = "AUIPC"
  <2> DEFINE D == Pow2[addrW + 2]
  <2>1. D \in Nat \ {0} /\ D <= 2 * Half /\ exec.n \in Int /\ Word = 0 .. 2 * Half - 1
        /\ Half \in Nat
    <3>1. Pow2[addrW - 2] \in Nat \ {0} /\ D = 16 * Pow2[addrW - 2]
          /\ 16 * Pow2[addrW - 2] <= 2 * Half
      BY Addresses
    <3>2. D \in Nat \ {0} /\ D <= 2 * Half
      BY <3>1
    <3> QED
      BY <3>2, Sizes DEF Types
  <2>2. write_back(w) = exec.n % D
    BY <1>3, WriteBackIs
  <2> HIDE DEF D
  <2>3. exec.n % D \in 0 .. D - 1
    BY <2>1
  <2> QED
    BY <2>1, <2>2, <2>3
<1>4. CASE i.opcode \in {"LUI", "Cycles"}
  BY <1>4, WriteBackIs DEF Types
<1>5. CASE i.opcode = "load"
  <2>1. Off \in 0 .. 3
    BY Sizes DEF Off, Types
  <2> QED
    BY <1>5, <2>1, WriteBackIs, LoadIs
<1>6. CASE i.opcode \in {"IntImm", "IntReg"}
  BY <1>6, WriteBackIs DEF Types
<1>7. CASE ~exec.jump /\ i.opcode \in {"JAL", "JALR"}
  <2>1. ~exec.storeAddr /\ ~exec.storeVal /\ ~exec.load /\ ~exec.intop
    BY <1>7 DEF Decoded
  <2>2. write_back(w) = 0
    BY <1>7, <2>1 DEF write_back
  <2> QED
    BY <2>2, Sizes
<1> QED
  BY <1>1, <1>2, <1>3, <1>4, <1>5, <1>6, <1>7 DEF Opcodes

---------------------------------------------------------------------------
(* The invariant.                                                          *)

\* The shifter works for a shift, once it has been triggered.
Shifter == shamt # 0 => phase = "exec" /\ aluShift

\* Registers that have been read are not written before they have been used.
Operands == phase \in {"read", "wait"} \/ (phase = "exec" /\ MemoryOp)
            => xa = xregs[i.rs1] /\ xb = xregs[i.rs2]

\* What Legal left of the instruction in progress.
InProgress ==
  phase \in {"exec", "wait"} =>
    /\ Decoded /\ pc < CODE
    /\ i.opcode = "load" => i.op \in {0, 1, 2, 4, 5}
    /\ i.opcode = "store" => i.op \in {0, 1, 2}
    /\ MemoryOp => exec.n = Wrap(xa + i.imm) /\ exec.n % Pow2[i.op % 4] = 0

\* The bus of the processor, in the cycle after an access and in the others.
OnBus ==
  IF phase = "wait"
  THEN /\ MemoryOp /\ addr = (exec.n \div 4) % Pow2[addrW]
       /\ prev.lanes = StoreLanes
       /\ i.opcode = "load" => rdata = ram[addr % Pow2[addrW - 1]]
  ELSE prev.lanes = {}

ZeroRegister == xregs[0] = 0

TimeLeft == left = CASE phase \in {"fetch", "read"} -> 0
                     [] phase = "wait" -> 1
                     [] OTHER -> IF MemoryOp THEN 2 ELSE 1 + shamt

IInv == Types /\ Shifter /\ Operands /\ InProgress /\ OnBus /\ ZeroRegister /\ TimeLeft

\* A cycle of execute and of the bus keeps the types.
LEMMA TypesStep ==
  ASSUME Types, NEW trigger \in BOOLEAN, Execute(trigger),
         NEW address \in BusAddress, NEW lanes, Bus(address, lanes),
         phase' \in {"fetch", "read", "exec", "wait"}, instr' \in Word, pc' \in BusAddress,
         xa' \in Word, xb' \in Word, xregs' \in [Reg -> Word]
  PROVE  Types'
<1>1. /\ exec'.op = i.op /\ exec'.write_rd = i.rd
      /\ exec'.val = IF i.opcode = "LUI" THEN i.imm ELSE cycle
      /\ exec'.n = Wrap(addr_a + addr_imm)
      /\ exec'.r = AluResult
      /\ exec'.working <=> Shamt(trigger) # 0
      /\ shamt' = Shamt(trigger) /\ cycle' = Wrap(cycle + 1)
  BY ExecuteGives
<1>2. exec'.op \in 0 .. 7 /\ exec'.write_rd \in Reg /\ exec'.val \in Word
  BY <1>1, Fields DEF Types
<1>3. exec'.r \in Word
  BY <1>1, AluResultIs
<1>4. exec'.n \in Word
  <2>1. addr_a \in Int /\ addr_imm \in Int
    <3>1. xa \in Int /\ i.imm \in Int /\ 0 \in Int
      BY Fields, Sizes DEF Types
    <3> DEFINE A == Pow2[addrW - 2]
    <3>2. A \in Nat \ {0} /\ pc \in Int
      BY Addresses DEF Types, BusAddress
    <3> HIDE DEF A
    <3>3. pc % A \in Int
      BY <3>2
    <3>4. 4 * (pc % A) \in Int
      BY <3>3
    <3> QED
      BY <3>1, <3>4 DEF addr_a, addr_imm, A
  <2>2. addr_a + addr_imm \in Int
    BY <2>1
  <2> QED
    BY <1>1, <2>2, WrapInWord
<1>5. cycle' \in Word
  <2>1. cycle + 1 \in Int
    BY Sizes DEF Types
  <2> QED
    BY <1>1, <2>1, WrapInWord
<1>6. shamt' \in 0 .. XLEN - 1 /\ (exec'.working <=> shamt' # 0)
  BY <1>1, ShamtIs
<1>7. addr' \in BusAddress /\ prev'.addr = addr' /\ rdata' \in Word /\ ram' \in [Ram -> Word]
  BY BusGives
<1> QED
  BY <1>2, <1>3, <1>4, <1>5, <1>6, <1>7 DEF Types

\* Without wenable, the banks read the registers of the instruction.
LEMMA ReadRegisters ==
  ASSUME Types, NEW ins \in Word, NEW w, Registers(FALSE, w, ins)
  PROVE  /\ xa' = xregs[Decode[ins].rs1] /\ xb' = xregs[Decode[ins].rs2] /\ xregs' = xregs
         /\ xa' \in Word /\ xb' \in Word /\ xregs' \in [Reg -> Word]
<1>1. Decode[ins].rs1 \in Reg /\ Decode[ins].rs2 \in Reg
  BY Rv32Assumption DEF Instr
<1>2. xa' = xregs[Decode[ins].rs1] /\ xb' = xregs[Decode[ins].rs2] /\ xregs' = xregs
  BY DEF Registers
<1> QED
  BY <1>1, <1>2 DEF Types

\* With wenable, one register is written, never register 0.
LEMMA WriteRegisters ==
  ASSUME Types, ZeroRegister, Decoded, NEW w \in Word, Registers(~exec.no_rd, w, instr),
         i.opcode = "load" => exec.op \in {0, 1, 2, 4, 5} /\ (exec.op = 2 => Off = 0)
  PROVE  /\ xregs' = IF exec.no_rd THEN xregs
                     ELSE [xregs EXCEPT ![exec.write_rd] = write_back(w)]
         /\ xa' \in Word /\ xb' \in Word /\ xregs' \in [Reg -> Word]
         /\ ZeroRegister'
<1>1. CASE exec.no_rd
  <2>1. Registers(FALSE, w, instr)
    BY <1>1 DEF Registers
  <2>2. instr \in Word
    BY DEF Types
  <2> QED
    BY <1>1, <2>1, <2>2, ReadRegisters DEF ZeroRegister
<1>2. CASE ~exec.no_rd
  <2>1. /\ xa' = xregs[exec.write_rd] /\ xb' = xregs[exec.write_rd]
        /\ xregs' = [xregs EXCEPT ![exec.write_rd] = write_back(w)]
    BY <1>2 DEF Registers
  <2>2. write_back(w) \in Word
    BY <1>2, WriteBackType
  <2>3. exec.write_rd \in Reg /\ xregs \in [Reg -> Word]
    BY DEF Types
  <2>4. exec.write_rd # 0
    BY <1>2 DEF Decoded
  <2>5. 0 \in Reg
    BY Sizes DEF Reg
  <2> QED
    BY <1>2, <2>1, <2>2, <2>3, <2>4, <2>5 DEF ZeroRegister
<1> QED
  BY <1>1, <1>2

\* The processor reads words.
LEMMA AnswersInWord == Types => Answers \subseteq Word
  BY Rv32Assumption DEF Types, Answers

\* Off, from the alignment of an access to a whole word.
LEMMA WordAligned ==
  ASSUME Types, InProgress, phase \in {"exec", "wait"}, MemoryOp
  PROVE  exec.op = i.op /\ (exec.op = 2 => Off = 0)
<1>1. exec.op = i.op /\ exec.n % Pow2[i.op % 4] = 0
  BY DEF InProgress, Decoded
<1>2. ASSUME exec.op = 2 PROVE Off = 0
  <2>1. i.op % 4 = 2
    BY <1>1, <1>2
  <2> QED
    BY <1>1, <2>1, SmallPowers DEF Off
<1> QED
  BY <1>1, <1>2

\* In a cycle without a shift at work nothing is left in the shifter, unless one starts.
LEMMA ShifterAtRest ==
  ASSUME Types, Shifter, NEW trigger \in BOOLEAN, Execute(trigger), ~exec.working
  PROVE  shamt' = IF aluShift /\ trigger THEN b % XLEN ELSE 0
  BY ShamtIs, ExecuteGives

\* The address of a load or of a store.
LEMMA AddressOfMemoryOp == MemoryOp => addr_a + addr_imm = xa + i.imm
  BY DEF MemoryOp, addr_a, addr_imm

\* An address of bytes gives one of words.
LEMMA TargetInRange == \A n \in Word : (n \div 4) % Pow2[addrW] \in BusAddress
<1> DEFINE D == Pow2[addrW]
<1>1. D \in Nat \ {0} /\ BusAddress = 0 .. D - 1
  BY Sizes, PowPositive DEF BusAddress
<1> HIDE DEF D
<1>2. \A z \in Int : z % D \in 0 .. D - 1
  BY <1>1
<1>3. \A n \in Word : n \div 4 \in Int
  BY Sizes
<1> QED
  BY <1>1, <1>2, <1>3 DEF D

\* Fetch keeps the invariant: the shifter is at rest, the bus reads.
LEMMA FetchStep == IInv /\ Fetch => IInv'
<1> SUFFICES ASSUME IInv, Fetch PROVE IInv'
  OBVIOUS
<1> USE DEF IInv
<1>1. phase = "fetch" /\ phase' = "read" /\ instr' \in Word /\ pc' = addr /\ left' = left
      /\ Registers(FALSE, 0, instr') /\ Bus(addr, {}) /\ Execute(FALSE)
  BY AnswersInWord DEF Fetch
<1>2. ~exec.working
  BY <1>1 DEF Types, Shifter
<1>3. /\ xa' = xregs[Decode[instr'].rs1] /\ xb' = xregs[Decode[instr'].rs2] /\ xregs' = xregs
      /\ xa' \in Word /\ xb' \in Word /\ xregs' \in [Reg -> Word]
  BY <1>1, ReadRegisters
<1>4. addr \in BusAddress
  BY DEF Types
<1>5. Types'
  BY <1>1, <1>3, <1>4, TypesStep
<1>6. shamt' = 0
  BY <1>1, <1>2, ShifterAtRest
<1>7. Shifter'
  BY <1>6 DEF Shifter
<1>8. Operands'
  BY <1>3 DEF Operands, i
<1>9. InProgress'
  BY <1>1 DEF InProgress
<1>10. OnBus'
  <2>1. prev'.lanes = {}
    BY <1>1, <1>4, BusGives
  <2> QED
    BY <1>1, <2>1 DEF OnBus
<1>11. ZeroRegister' /\ TimeLeft'
  BY <1>1, <1>3 DEF ZeroRegister, TimeLeft
<1> QED
  BY <1>5, <1>7, <1>8, <1>9, <1>10, <1>11

\* Read keeps the invariant: it loads the shifter and left with the same count.
LEMMA ReadStep == IInv /\ Read => IInv'
<1> SUFFICES ASSUME IInv, Read PROVE IInv'
  OBVIOUS
<1>0. Types /\ Shifter /\ Operands /\ ZeroRegister
  BY DEF IInv
<1>1. /\ phase = "read" /\ phase' = "exec" /\ instr' = instr /\ pc' = pc /\ left' = Promised - 2
      /\ Registers(FALSE, 0, instr) /\ Bus(addr, {}) /\ Execute(TRUE)
  BY DEF Read
<1>2. ~exec.working
  BY <1>0, <1>1 DEF Types, Shifter
<1>3. /\ xa' = xregs[i.rs1] /\ xb' = xregs[i.rs2] /\ xregs' = xregs
      /\ xa' \in Word /\ xb' \in Word /\ xregs' \in [Reg -> Word]
  BY <1>0, <1>1, ReadRegisters DEF Types, i
<1>4. addr \in BusAddress /\ pc \in BusAddress /\ instr \in Word
  BY <1>0 DEF Types
<1>5. Types'
  BY <1>0, <1>1, <1>3, <1>4, TypesStep
<1>6. shamt' = IF aluShift THEN b % XLEN ELSE 0
  BY <1>0, <1>1, <1>2, ShifterAtRest
<1>7. i' = i /\ (MemoryOp' <=> MemoryOp) /\ (aluShift' <=> aluShift)
  BY <1>1 DEF i, MemoryOp, aluShift
<1>8. Shifter'
  BY <1>1, <1>6, <1>7 DEF Shifter
<1>9. Operands'
  BY <1>3, <1>7 DEF Operands
<1>10. xa' = xa
  BY <1>0, <1>1, <1>3 DEF Operands
<1>11. InProgress'
  <2>1. Decoded'
    BY <1>1, ExecuteGives
  <2>2. pc < CODE
    BY DEF Read, Legal
  <2>3. /\ i.opcode = "load" => i.op \in {0, 1, 2, 4, 5}
        /\ i.opcode = "store" => i.op \in {0, 1, 2}
        /\ MemoryOp => Wrap(xa + i.imm) % Pow2[i.op % 4] = 0
    BY DEF Read, Legal, MemoryOp
  <2>4. MemoryOp => exec'.n = Wrap(xa + i.imm)
    BY <1>1, ExecuteGives, AddressOfMemoryOp
  <2> QED
    BY <1>1, <1>7, <1>10, <2>1, <2>2, <2>3, <2>4 DEF InProgress
<1>12. OnBus'
  <2>1. prev'.lanes = {}
    BY <1>0, <1>1, <1>4, BusGives
  <2> QED
    BY <1>1, <2>1 DEF OnBus
<1>13. ZeroRegister'
  BY <1>0, <1>3 DEF ZeroRegister
<1>14. TimeLeft'
  <2>1. left' = IF MemoryOp THEN 2 ELSE 1 + shamt'
    <3>1. CASE MemoryOp
      BY <1>1, <3>1 DEF Promised, MemoryOp
    <3>2. CASE ~MemoryOp /\ aluShift
      <4>1. b % XLEN \in Int
        BY <1>0, Fields, Sizes
      <4>2. Promised = 3 + (b % XLEN)
        BY <3>2 DEF Promised, MemoryOp
      <4> QED
        BY <1>1, <1>6, <3>2, <4>1, <4>2
    <3>3. CASE ~MemoryOp /\ ~aluShift
      BY <1>1, <1>6, <3>3 DEF Promised, MemoryOp
    <3> QED
      BY <3>1, <3>2, <3>3
  <2> QED
    BY <1>1, <1>7, <2>1 DEF TimeLeft
<1> QED
  BY <1>5, <1>8, <1>9, <1>11, <1>12, <1>13, <1>14 DEF IInv

\* Access keeps the invariant: the operands are read again.
LEMMA AccessStep == IInv /\ Access => IInv'
<1> SUFFICES ASSUME IInv, Access PROVE IInv'
  OBVIOUS
<1> DEFINE target == (exec.n \div 4) % Pow2[addrW]
<1>0. Types /\ Shifter /\ Operands /\ ZeroRegister /\ InProgress /\ TimeLeft
  BY DEF IInv
<1>1. /\ phase = "exec" /\ phase' = "wait" /\ instr' = instr /\ pc' = pc /\ left' = left - 1
      /\ Registers(FALSE, 0, instr) /\ Bus(target, StoreLanes) /\ Execute(FALSE)
  BY DEF Access
<1>2. MemoryOp /\ Decoded
  BY <1>0, <1>1 DEF Access, InProgress, Decoded, MemoryOp
<1>3. ~aluShift /\ shamt = 0 /\ ~exec.working
  BY <1>0, <1>2 DEF Types, Shifter, aluShift, MemoryOp
<1>4. /\ xa' = xregs[i.rs1] /\ xb' = xregs[i.rs2] /\ xregs' = xregs
      /\ xa' \in Word /\ xb' \in Word /\ xregs' \in [Reg -> Word]
  BY <1>0, <1>1, ReadRegisters DEF Types, i
<1>5. target \in BusAddress /\ pc \in BusAddress /\ instr \in Word
  BY <1>0, TargetInRange DEF Types
<1> HIDE DEF target
<1>6. Types'
  BY <1>0, <1>1, <1>4, <1>5, TypesStep
<1>7. shamt' = 0
  BY <1>0, <1>1, <1>3, ShifterAtRest
<1>8. i' = i /\ (MemoryOp' <=> MemoryOp)
  BY <1>1 DEF i, MemoryOp
<1>9. Shifter' /\ Operands'
  BY <1>4, <1>7, <1>8 DEF Shifter, Operands
<1>10. xa' = xa
  BY <1>0, <1>1, <1>2, <1>4 DEF Operands
<1>11. Decoded' /\ exec'.n = exec.n
  BY <1>0, <1>1, <1>2, ExecuteGives, AddressOfMemoryOp DEF InProgress
<1>12. InProgress'
  BY <1>0, <1>1, <1>8, <1>10, <1>11 DEF InProgress
<1>13. OnBus'
  <2>1. /\ addr' = target /\ prev'.lanes = StoreLanes
        /\ rdata' = ram[target % Pow2[addrW - 1]]
        /\ StoreLanes = {} => ram' = ram
    BY <1>0, <1>1, <1>5, BusGives
  <2>2. StoreLanes' = StoreLanes
    <3>1. exec'.op = exec.op /\ (exec'.store <=> exec.store)
      BY <1>2, <1>8, <1>11 DEF Decoded
    <3>2. Off' = Off
      BY <1>11 DEF Off
    <3> QED
      BY <3>1, <3>2 DEF StoreLanes
  <2>3. i.opcode = "load" => StoreLanes = {}
    BY <1>2 DEF StoreLanes, Decoded
  <2>4. i.opcode = "load" => rdata' = ram'[addr' % Pow2[addrW - 1]]
    BY <2>1, <2>3
  <2>5. addr' = (exec'.n \div 4) % Pow2[addrW]
    BY <1>11, <2>1 DEF target
  <2> QED
    BY <1>1, <1>2, <1>8, <2>1, <2>2, <2>4, <2>5 DEF OnBus
<1>14. ZeroRegister' /\ TimeLeft'
  BY <1>0, <1>1, <1>2, <1>4 DEF ZeroRegister, TimeLeft
<1> QED
  BY <1>6, <1>9, <1>12, <1>13, <1>14 DEF IInv

\* Transaction keeps the invariant: what is written is the word of the address.
LEMMA TransactionStep == IInv /\ Transaction => IInv'
<1> SUFFICES ASSUME IInv, Transaction PROVE IInv'
  OBVIOUS
<1>0. Types /\ Shifter /\ Operands /\ ZeroRegister /\ InProgress /\ OnBus /\ TimeLeft
  BY DEF IInv
<1>1. /\ phase = "wait" /\ phase' = "fetch" /\ instr' = instr /\ pc' = pc /\ left' = left - 1
      /\ Bus(next_pc, {}) /\ Execute(FALSE)
  BY DEF Transaction
<1>2. PICK w \in Word : Registers(~exec.no_rd, w, instr)
  BY <1>0, AnswersInWord DEF Transaction
<1>3. MemoryOp /\ Decoded /\ shamt = 0 /\ ~exec.working
  BY <1>0, <1>1 DEF OnBus, InProgress, Types, Shifter
<1>4. i.opcode = "load" => exec.op \in {0, 1, 2, 4, 5} /\ (exec.op = 2 => Off = 0)
  BY <1>0, <1>1, <1>3, WordAligned DEF InProgress
<1>5. xa' \in Word /\ xb' \in Word /\ xregs' \in [Reg -> Word] /\ ZeroRegister'
  BY <1>0, <1>2, <1>3, <1>4, WriteRegisters
<1>6. next_pc \in BusAddress /\ pc \in BusAddress /\ instr \in Word
  BY <1>0, NextPcIs DEF Types
<1>7. Types'
  BY <1>0, <1>1, <1>5, <1>6, TypesStep
<1>8. shamt' = 0
  BY <1>0, <1>1, <1>3, ShifterAtRest
<1>9. Shifter' /\ Operands' /\ InProgress'
  BY <1>1, <1>8 DEF Shifter, Operands, InProgress
<1>10. OnBus'
  <2>1. prev'.lanes = {}
    BY <1>0, <1>1, <1>6, BusGives
  <2> QED
    BY <1>1, <2>1 DEF OnBus
<1>11. TimeLeft'
  BY <1>0, <1>1 DEF TimeLeft
<1> QED
  BY <1>5, <1>7, <1>9, <1>10, <1>11 DEF IInv

\* Commit keeps the invariant: each cycle of a shift takes one off shamt and left.
LEMMA CommitStep == IInv /\ Commit => IInv'
<1> SUFFICES ASSUME IInv, Commit PROVE IInv'
  OBVIOUS
<1> DEFINE target == IF exec.jump THEN (exec.n \div 4) % Pow2[addrW] ELSE next_pc
<1>0. Types /\ Shifter /\ Operands /\ ZeroRegister /\ InProgress /\ TimeLeft
  BY DEF IInv
<1>1. /\ phase = "exec" /\ ~(exec.load \/ exec.store)
      /\ phase' = IF exec.working THEN "exec" ELSE "fetch"
      /\ instr' = instr /\ pc' = pc /\ left' = left - 1
      /\ Bus(target, {}) /\ Execute(FALSE)
  BY DEF Commit
<1>2. PICK w \in Word : Registers(~exec.no_rd, w, instr)
  BY <1>0, AnswersInWord DEF Commit
<1>3. Decoded /\ ~MemoryOp /\ i.opcode # "load"
  BY <1>0, <1>1 DEF InProgress, Decoded, MemoryOp
<1>4. xa' \in Word /\ xb' \in Word /\ xregs' \in [Reg -> Word] /\ ZeroRegister'
  BY <1>0, <1>2, <1>3, WriteRegisters
<1>5. target \in BusAddress /\ pc \in BusAddress /\ instr \in Word
  BY <1>0, NextPcIs, TargetInRange DEF Types
<1> HIDE DEF target
<1>6. Types'
  BY <1>0, <1>1, <1>4, <1>5, TypesStep
<1>7. i' = i /\ (MemoryOp' <=> MemoryOp) /\ (aluShift' <=> aluShift)
  BY <1>1 DEF i, MemoryOp, aluShift
<1>8. shamt' = IF exec.working THEN shamt - 1 ELSE 0
  BY <1>0, <1>1, ShamtIs, ExecuteGives
<1>9. Shifter'
  BY <1>0, <1>1, <1>7, <1>8 DEF Shifter, Types
<1>10. Operands'
  BY <1>1, <1>3, <1>7 DEF Operands
<1>11. InProgress'
  <2>1. Decoded'
    BY <1>1, ExecuteGives
  <2> QED
    BY <1>0, <1>1, <1>3, <1>7, <2>1 DEF InProgress, MemoryOp
<1>12. OnBus'
  <2>1. prev'.lanes = {}
    BY <1>0, <1>1, <1>5, BusGives
  <2> QED
    BY <1>1, <2>1 DEF OnBus
<1>13. TimeLeft'
  <2>1. shamt \in Int /\ (exec.working <=> shamt # 0) /\ left = 1 + shamt
    BY <1>0, <1>1, <1>3, Sizes DEF Types, TimeLeft
  <2> QED
    BY <1>1, <1>3, <1>7, <1>8, <2>1 DEF TimeLeft
<1> QED
  BY <1>4, <1>6, <1>9, <1>10, <1>11, <1>12, <1>13 DEF IInv

\* The start.
LEMMA InitIInv == Init => IInv
<1> SUFFICES ASSUME Init PROVE IInv
  OBVIOUS
<1> DEFINE A == Pow2[addrW - 2]
<1>1. A \in Nat \ {0} /\ BusAddress = 0 .. 4 * A - 1 /\ Ram = 0 .. 2 * A - 1
  BY Addresses DEF BusAddress
<1>2. 0 \in BusAddress /\ 0 \in Ram
  BY <1>1
<1>3. 0 \in Word /\ XLEN \in Nat /\ XLEN >= 4 /\ NREGS \in Nat \ {0}
  BY Sizes
<1>4. 0 \in Reg /\ 0 \in 0 .. XLEN - 1
  BY <1>3 DEF Reg
<1>5. ram \in [Ram -> Word]
  BY IceVAssumption DEF Init
<1>6. /\ phase = "fetch" /\ instr = ram[0] /\ pc = 0 /\ addr = 0 /\ rdata = ram[0]
      /\ xregs = [x \in Reg |-> 0] /\ xa = 0 /\ xb = 0 /\ exec = NoOutputs
      /\ shamt = 0 /\ cycle = 0 /\ prev = [addr |-> 0, lanes |-> {}, wdata |-> 0] /\ left = 0
  BY DEF Init
<1>7. /\ exec.op = 0 /\ exec.write_rd = 0 /\ exec.r = 0 /\ exec.n = 0 /\ exec.val = 0
      /\ ~exec.working
  BY <1>6 DEF NoOutputs
<1>8. Types
  BY <1>2, <1>3, <1>4, <1>5, <1>6, <1>7 DEF Types
<1> QED
  BY <1>4, <1>6, <1>8
     DEF IInv, Shifter, Operands, InProgress, OnBus, ZeroRegister, TimeLeft

\* Every step keeps the invariant.
LEMMA StepIInv == IInv /\ [Next]_vars => IInv'
<1>1. IInv /\ UNCHANGED vars => IInv'
  <2> SUFFICES ASSUME IInv, UNCHANGED vars PROVE IInv'
    OBVIOUS
  <2>1. /\ phase' = phase /\ instr' = instr /\ pc' = pc /\ xregs' = xregs /\ xa' = xa /\ xb' = xb
        /\ exec' = exec /\ shamt' = shamt /\ cycle' = cycle /\ addr' = addr /\ ram' = ram
        /\ rdata' = rdata /\ prev' = prev /\ left' = left
    BY DEF vars
  <2>2. i' = i
    BY <2>1 DEF i
  <2>3. Types' /\ Shifter' /\ Operands' /\ ZeroRegister' /\ TimeLeft'
    BY <2>1, <2>2 DEF IInv, Types, Shifter, Operands, ZeroRegister, TimeLeft, MemoryOp, aluShift
  <2>4. InProgress'
    BY <2>1, <2>2 DEF IInv, InProgress, Decoded, MemoryOp
  <2>5. OnBus'
    BY <2>1, <2>2 DEF IInv, OnBus, MemoryOp, StoreLanes, Off
  <2> QED
    BY <2>3, <2>4, <2>5 DEF IInv
<1> QED
  BY <1>1, FetchStep, ReadStep, AccessStep, TransactionStep, CommitStep DEF Next

\* Every signal of the processor keeps its width (ice-v.si, rv32i_cpu): the type
\* invariant, for every program, size of byte and of address.
THEOREM TypeCorrect == Spec => []TypeOK
<1>1. IInv => TypeOK
  BY DEF IInv, Types, TypeOK, BusAddress
<1> QED
  BY <1>1, InitIInv, StepIInv, PTL DEF Spec

\* README.md of the processor: 3 cycles, 4 for loads and stores, one more per bit of a
\* shift. No instruction takes more or fewer, for every program and size of word.
THEOREM EveryInstructionTimed == Spec => []Timed
<1>1. IInv => Timed
  <2> SUFFICES ASSUME IInv PROVE Timed
    OBVIOUS
  <2>1. shamt \in Nat /\ phase \in {"fetch", "read", "exec", "wait"}
    BY Sizes DEF IInv, Types
  <2>2. left = CASE phase \in {"fetch", "read"} -> 0
                 [] phase = "wait" -> 1
                 [] OTHER -> IF MemoryOp THEN 2 ELSE 1 + shamt
    BY DEF IInv, TimeLeft
  <2> QED
    BY <2>1, <2>2 DEF Timed
<1> QED
  BY <1>1, InitIInv, StepIInv, PTL DEF Spec

---------------------------------------------------------------------------
(* The refinement: what the code and the memory are to each other.         *)

\* Both modules compute with the same words.
LEMMA SameArithmetic ==
  /\ RV!Pow2 = Pow2 /\ RV!XLEN = XLEN /\ RV!Word = Word /\ RV!Reg = Reg
  /\ \A z : RV!Wrap(z) = Wrap(z)
  /\ \A w : RV!Signed(w) = Signed(w)
  /\ \A w, k : RV!Bit(w, k) = Bit(w, k)
  /\ \A w, k : RV!ByteOf(w, k) = ByteOf(w, k)
  /\ \A f : RV!WordOf(f) = WordOf(f)
  /\ \A c : RV!IsPeripheral(c) <=> IsPeripheral(c)
  /\ \A v, w : RV!Bitwise(RV!And, v, w) = Bitwise(And, v, w)
  /\ \A v, w : RV!Bitwise(RV!Or, v, w) = Bitwise(Or, v, w)
  /\ \A v, w : RV!Bitwise(RV!Xor, v, w) = Bitwise(Xor, v, w)
<1>1. RV!Pow2 = Pow2
  BY Zenon DEF RV!Pow2, Pow2
<1>2. RV!XLEN = XLEN
  BY Zenon DEF RV!XLEN, XLEN
<1>3. RV!Word = Word /\ RV!Reg = Reg
  BY <1>1, <1>2 DEF RV!Word, Word, RV!Reg, Reg
<1>4. \A z : RV!Wrap(z) = Wrap(z)
  BY <1>1, <1>2 DEF RV!Wrap, Wrap
<1>5. \A w : RV!Signed(w) = Signed(w)
  BY <1>1, <1>2 DEF RV!Signed, Signed
<1>6. \A w, k : RV!Bit(w, k) = Bit(w, k)
  BY <1>1, <1>2 DEF RV!Bit, Bit
<1>7. \A w, k : RV!ByteOf(w, k) = ByteOf(w, k)
  BY <1>1 DEF RV!ByteOf, ByteOf
<1>8. \A f : RV!WordOf(f) = WordOf(f)
  BY <1>1 DEF RV!WordOf, WordOf
<1>9. \A c : RV!IsPeripheral(c) <=> IsPeripheral(c)
  BY <1>1 DEF RV!IsPeripheral, IsPeripheral
<1>10. \A v, w : RV!Bitwise(RV!And, v, w) = Bitwise(And, v, w)
  BY Zenon DEF RV!Bitwise, Bitwise, RV!And, And, RV!Bit, Bit, RV!Pow2, Pow2, RV!XLEN, XLEN
<1>11. \A v, w : RV!Bitwise(RV!Or, v, w) = Bitwise(Or, v, w)
  BY Zenon DEF RV!Bitwise, Bitwise, RV!Or, Or, RV!Bit, Bit, RV!Pow2, Pow2, RV!XLEN, XLEN
<1>12. \A v, w : RV!Bitwise(RV!Xor, v, w) = Bitwise(Xor, v, w)
  BY Zenon DEF RV!Bitwise, Bitwise, RV!Xor, Xor, RV!Bit, Bit, RV!Pow2, Pow2, RV!XLEN, XLEN
<1> QED
  BY <1>1, <1>2, <1>3, <1>4, <1>5, <1>6, <1>7, <1>8, <1>9, <1>10, <1>11, <1>12

\* AllBits is Many.
LEMMA AllBitsIs == AllBits(exec.r, shamt) = Many(i, exec.r, shamt)
  BY Zenon DEF AllBits, Many, OneBit, Once

\* In the next state too.
LEMMA AllBitsNext == AllBits(exec.r, shamt)' = Many(i', exec'.r, shamt')
  BY Zenon DEF AllBits, Many, OneBit, Once

\* The code is where the adder of addresses reads the whole of pc.
LowCode == CODE <= Pow2[addrW - 2]

\* The instruction in progress is the one that the memory holds at pc.
Straight ==
  /\ phase = "fetch" => addr \in Ram /\ rdata = ram[addr]
  /\ phase = "read" => pc \in Ram /\ instr = ram[pc]
  /\ phase = "exec" \/ (phase = "wait" /\ i.opcode # "store") => instr = ram[pc]
  /\ phase = "exec" /\ exec.jump => exec.n < 4 * CODE

\* The addresses of the memory are not those of peripherals, and nothing cuts them.
LEMMA InRam ==
  ASSUME NEW c \in Ram
  PROVE  /\ c \in BusAddress /\ ~IsPeripheral(c)
         /\ c % Pow2[addrW - 1] = c /\ c % Pow2[addrW] = c
<1> DEFINE H == Pow2[addrW - 1]
           F == Pow2[addrW]
<1>1. H \in Nat \ {0} /\ F = 2 * H /\ c \in 0 .. H - 1 /\ BusAddress = 0 .. F - 1
  BY Addresses DEF Ram, BusAddress
<1> HIDE DEF H, F
<1>2. c \in 0 .. F - 1 /\ F \in Nat \ {0}
  BY <1>1
<1>3. c % H = c /\ c % F = c
  BY <1>1, <1>2, SmallDividend
<1>4. ~(c >= H)
  BY <1>1
<1> QED
  BY <1>1, <1>2, <1>3, <1>4 DEF IsPeripheral, H, F

\* The bits of pc that reach the adder are all of it.
LEMMA LowPc ==
  ASSUME LowCode, Types, pc < CODE
  PROVE  4 * (pc % Pow2[addrW - 2]) = 4 * pc
<1> DEFINE A == Pow2[addrW - 2]
<1>1. A \in Nat \ {0} /\ CODE \in Int
  BY Addresses, IceVAssumption DEF Ram
<1>2. pc \in 0 .. A - 1
  BY <1>1, Addresses DEF LowCode, Types, BusAddress
<1> HIDE DEF A
<1>3. pc % A = pc
  BY <1>1, <1>2, SmallDividend
<1> QED
  BY <1>3 DEF A

\* With the code low, the address the processor computes is the one of Legal.
LEMMA TargetIs ==
  ASSUME LowCode, Types, pc < CODE
  PROVE  /\ i.opcode \in {"AUIPC", "JAL", "branch"} => addr_a + addr_imm = 4 * pc + i.imm
         /\ i.opcode = "JALR" => addr_a + addr_imm = xa + i.imm
<1>1. 4 * (pc % Pow2[addrW - 2]) = 4 * pc
  BY LowPc
<1>2. i.opcode \in {"AUIPC", "JAL", "branch"} => addr_a = 4 * pc /\ addr_imm = i.imm
  BY <1>1 DEF addr_a, addr_imm
<1>3. i.opcode = "JALR" => addr_a = xa /\ addr_imm = i.imm
  BY DEF addr_a, addr_imm
<1> QED
  BY <1>2, <1>3

\* Every step keeps Straight: what comes from the memory is what a store left there.
LEMMA StraightStep == LowCode /\ IInv /\ Straight /\ [Next]_vars => Straight'
<1> SUFFICES ASSUME LowCode, IInv, Straight, [Next]_vars PROVE Straight'
  OBVIOUS
<1>0. Types /\ Shifter /\ Operands /\ InProgress /\ OnBus
  BY DEF IInv
<1>1. CASE UNCHANGED vars
  BY <1>1 DEF vars, Straight, i
<1>2. CASE Fetch
  <2>1. phase = "fetch" /\ phase' = "read" /\ pc' = addr /\ Bus(addr, {})
    BY <1>2 DEF Fetch
  <2>2. addr \in Ram /\ rdata = ram[addr] /\ prev.addr = addr
    BY <1>0, <2>1 DEF Straight, Types
  <2>3. Answers = {rdata}
    BY <2>2, InRam DEF Answers, ReadsPeripheral
  <2>4. instr' = ram[addr]
    BY <1>2, <2>2, <2>3 DEF Fetch
  <2>5. ram' = ram
    BY <1>0, <2>1, <2>2, InRam, BusGives
  <2> QED
    BY <2>1, <2>2, <2>4, <2>5 DEF Straight
<1>3. CASE Read
  <2>1. /\ phase = "read" /\ phase' = "exec" /\ pc' = pc /\ instr' = instr
        /\ Bus(addr, {}) /\ Execute(TRUE) /\ Legal
    BY <1>3 DEF Read
  <2>2. ram' = ram
    BY <1>0, <2>1, BusGives DEF Types
  <2>3. exec'.jump => i.opcode \in {"JAL", "JALR", "branch"}
    BY <2>1, ExecuteGives
  <2>4. pc < CODE
    BY <2>1 DEF Legal
  <2>5. i.opcode \in {"JAL", "branch"} => Wrap(4 * pc + i.imm) < 4 * CODE
    BY <2>1 DEF Legal
  <2>6. i.opcode = "JALR" => Wrap(xa + i.imm) < 4 * CODE
    BY <2>1 DEF Legal
  <2>7. exec'.n = Wrap(addr_a + addr_imm)
    BY <2>1, ExecuteGives
  <2>8. exec'.jump => exec'.n < 4 * CODE
    BY <1>0, <2>3, <2>4, <2>5, <2>6, <2>7, TargetIs
  <2> QED
    BY <2>1, <2>2, <2>8 DEF Straight
<1>4. CASE Access
  <2> DEFINE target == (exec.n \div 4) % Pow2[addrW]
  <2>1. /\ phase = "exec" /\ phase' = "wait" /\ pc' = pc /\ instr' = instr
        /\ Bus(target, StoreLanes)
    BY <1>4 DEF Access
  <2>2. i' = i
    BY <2>1 DEF i
  <2>3. ASSUME i.opcode # "store" PROVE ram' = ram
    <3>1. StoreLanes = {}
      BY <1>0, <2>1, <2>3 DEF StoreLanes, InProgress, Decoded
    <3>2. target \in BusAddress
      BY <1>0, TargetInRange DEF Types
    <3> HIDE DEF target
    <3> QED
      BY <1>0, <2>1, <3>1, <3>2, BusGives
  <2> QED
    BY <2>1, <2>2, <2>3 DEF Straight
<1>5. CASE Transaction
  <2>1. phase = "wait" /\ phase' = "fetch" /\ Bus(next_pc, {})
    BY <1>5 DEF Transaction
  <2>2. next_pc \in Ram
    BY <1>0, <2>1, NextPcIs DEF InProgress
  <2>3. addr' = next_pc /\ rdata' = ram[next_pc] /\ ram' = ram
    BY <1>0, <2>1, <2>2, InRam, BusGives
  <2> QED
    BY <2>1, <2>2, <2>3 DEF Straight
<1>6. CASE Commit
  <2> DEFINE target == IF exec.jump THEN (exec.n \div 4) % Pow2[addrW] ELSE next_pc
  <2>1. /\ phase = "exec" /\ instr' = instr /\ pc' = pc /\ Bus(target, {}) /\ Execute(FALSE)
        /\ phase' = IF exec.working THEN "exec" ELSE "fetch"
    BY <1>6 DEF Commit
  <2>2. target \in Ram
    <3>1. CASE ~exec.jump
      BY <1>0, <2>1, <3>1, NextPcIs DEF InProgress
    <3>2. CASE exec.jump
      <4>1. exec.n < 4 * CODE /\ exec.n \in Nat /\ CODE \in Ram /\ CODE \in Nat
        BY <1>0, <2>1, <3>2, Sizes, IceVAssumption DEF Straight, Types, Ram
      <4>2. exec.n \div 4 \in Nat /\ exec.n \div 4 < CODE
        BY <4>1
      <4>3. exec.n \div 4 \in Ram
        BY <4>1, <4>2, Addresses
      <4> QED
        BY <3>2, <4>3, InRam
    <3> QED
      BY <3>1, <3>2
  <2> HIDE DEF target
  <2>3. addr' = target /\ rdata' = ram[target] /\ ram' = ram
    BY <1>0, <2>1, <2>2, InRam, BusGives
  <2>4. ASSUME exec.working PROVE ~exec'.jump
    <3>1. i.opcode \in {"IntImm", "IntReg"}
      BY <1>0, <2>4 DEF Types, Shifter, aluShift
    <3> QED
      BY <2>1, <3>1, ExecuteGives
  <2>5. CASE exec.working
    BY <2>1, <2>3, <2>4, <2>5 DEF Straight
  <2>6. CASE ~exec.working
    BY <2>1, <2>2, <2>3, <2>6 DEF Straight
  <2> QED
    BY <2>5, <2>6
<1> QED
  BY <1>1, <1>2, <1>3, <1>4, <1>5, <1>6 DEF Next

\* At the start the bus reads word 0.
LEMMA StraightInit == Init => Straight
<1> SUFFICES ASSUME Init PROVE Straight
  OBVIOUS
<1>1. 0 \in Ram
  BY Addresses
<1> QED
  BY <1>1 DEF Init, Straight

---------------------------------------------------------------------------
(* The instructions that compute are done when the ALU is triggered.       *)

\* Before its instruction is done, a program sees the registers and pc as they are.
LEMMA Before ==
  ASSUME IInv, Straight,
         \/ phase = "read"
         \/ phase = "exec" /\ MemoryOp
         \/ phase = "wait" /\ i.opcode = "load"
  PROVE  /\ regsDone = xregs /\ pcDone = pc /\ outDone = out
         /\ RV!i = i /\ RV!a = xa /\ regsDone[RV!i.rs2] = xb
<1>0. Types /\ Operands /\ InProgress /\ OnBus
  BY DEF IInv
<1>1. ~Computing
  BY <1>0 DEF Computing, InProgress, Decoded, MemoryOp
<1>2. regsDone = xregs
  BY <1>1 DEF regsDone
<1>3. phase = "wait" => ~exec.store
  BY <1>0 DEF InProgress, Decoded
<1>4. pcDone = pc
  BY <1>1, <1>3 DEF pcDone
<1>5. prev.lanes = {}
  BY <1>0, <1>3 DEF OnBus, StoreLanes
<1>6. outDone = out
  BY <1>5 DEF outDone
<1>7. instr = ram[pc]
  BY DEF Straight, MemoryOp
<1>8. RV!i = i
  BY <1>4, <1>7 DEF RV!i, i
<1>9. xa = xregs[i.rs1] /\ xb = xregs[i.rs2]
  BY <1>0 DEF Operands, MemoryOp
<1> QED
  BY <1>2, <1>4, <1>6, <1>8, <1>9 DEF RV!a

\* A cycle of the bus without lanes: a store under way arrives, nothing else.
LEMMA OutKept ==
  ASSUME Types, NEW address \in BusAddress, Bus(address, {})
  PROVE  outDone' = outDone /\ ram' = ram
<1>1. prev'.lanes = {} /\ ram' = ram
  BY BusGives
<1>2. out' = outDone
  BY Zenon DEF Bus, outDone
<1>3. outDone' = out'
  BY <1>1 DEF outDone
<1> QED
  BY <1>1, <1>2, <1>3

\* What write_back will select, once execute has run.
LEMMA WriteBackNext ==
  ASSUME Decoded'
  PROVE  /\ exec'.jump => write_back(0)' = 4 * next_pc'
         /\ i'.opcode = "AUIPC" => write_back(0)' = exec'.n % Pow2[addrW + 2]
         /\ i'.opcode \in {"LUI", "Cycles"} => write_back(0)' = exec'.val
         /\ i'.opcode \in {"IntImm", "IntReg"} => write_back(0)' = exec'.r
<1>1. CASE exec'.jump
  <2>1. i'.opcode \in {"JAL", "JALR", "branch"}
    BY <1>1 DEF Decoded
  <2>2. ~exec'.storeAddr /\ ~exec'.storeVal /\ ~exec'.load /\ ~exec'.intop
    BY <2>1 DEF Decoded
  <2>3. write_back(0)' = 4 * next_pc'
    BY <1>1, <2>2 DEF write_back
  <2> QED
    BY <2>1, <2>3
<1>2. CASE ~exec'.jump
  <2>1. CASE i'.opcode = "AUIPC"
    <3>1. exec'.storeAddr /\ ~exec'.storeVal /\ ~exec'.load /\ ~exec'.intop
      BY <2>1 DEF Decoded
    <3>2. write_back(0)' = exec'.n % Pow2[addrW + 2]
      BY <1>2, <3>1 DEF write_back
    <3> QED
      BY <1>2, <2>1, <3>2
  <2>2. CASE i'.opcode \in {"LUI", "Cycles"}
    <3>1. ~exec'.storeAddr /\ exec'.storeVal /\ ~exec'.load /\ ~exec'.intop
      BY <2>2 DEF Decoded
    <3>2. write_back(0)' = exec'.val
      BY <1>2, <3>1 DEF write_back
    <3> QED
      BY <1>2, <2>2, <3>2
  <2>3. CASE i'.opcode \in {"IntImm", "IntReg"}
    <3>1. ~exec'.storeAddr /\ ~exec'.storeVal /\ ~exec'.load /\ exec'.intop
      BY <2>3 DEF Decoded
    <3>2. write_back(0)' = exec'.r
      BY <1>2, <3>1 DEF write_back
    <3> QED
      BY <1>2, <2>3, <3>2
  <2> QED
    BY <1>2, <2>1, <2>2, <2>3
<1> QED
  BY <1>1, <1>2

\* What the register will hold, known when the ALU is triggered.
Result == IF exec'.working THEN Many(i, exec'.r, shamt') ELSE write_back(0)'

\* An instruction that computes is done when the ALU is triggered.
LEMMA ReadGives ==
  ASSUME IInv, Straight, LowCode, Read, ~MemoryOp
  PROVE  /\ Decoded' /\ i' = i /\ ~exec.working /\ pc < CODE
         /\ ram' = ram /\ outDone' = outDone
         /\ pcDone' = IF exec'.jump THEN (exec'.n \div 4) % Pow2[addrW] ELSE pc + 1
         /\ regsDone' = IF i.opcode = "branch" THEN xregs
                        ELSE [xregs EXCEPT ![i.rd] = IF i.rd = 0 THEN 0 ELSE Result]
<1>0. Types /\ Shifter /\ Operands /\ ZeroRegister
  BY DEF IInv
<1>1. /\ phase = "read" /\ phase' = "exec" /\ instr' = instr /\ pc' = pc
      /\ Registers(FALSE, 0, instr) /\ Bus(addr, {}) /\ Execute(TRUE)
  BY DEF Read
<1>2. i' = i /\ ~exec.working
  BY <1>0, <1>1 DEF i, Types, Shifter
<1>3. Decoded'
  BY <1>1, ExecuteGives
<1>4. ram' = ram /\ outDone' = outDone
  BY <1>0, <1>1, OutKept DEF Types
<1>5. Computing'
  BY <1>1, <1>2, <1>3 DEF Computing, Decoded, MemoryOp
<1>6. pc < CODE
  BY DEF Read, Legal
<1>7. next_pc' = pc + 1
  <2>1. next_pc' = next_pc
    BY <1>1 DEF next_pc
  <2> QED
    BY <1>0, <1>6, <2>1, NextPcIs
<1>8. pcDone' = IF exec'.jump THEN (exec'.n \div 4) % Pow2[addrW] ELSE pc + 1
  BY <1>1, <1>5, <1>7 DEF pcDone
<1>9. xregs' = xregs /\ xregs \in [Reg -> Word] /\ xregs[0] = 0
  BY <1>0, <1>1, ReadRegisters DEF Types, ZeroRegister
<1>10. regsDone' = IF exec'.no_rd THEN xregs ELSE [xregs EXCEPT ![exec'.write_rd] = Result]
  BY <1>2, <1>5, <1>9, AllBitsNext DEF regsDone, Result
<1>11. i.opcode # "store"
  BY DEF MemoryOp
<1>12. exec'.write_rd = i.rd /\ (exec'.no_rd <=> i.opcode = "branch" \/ i.rd = 0)
  BY <1>2, <1>3, <1>11 DEF Decoded
<1>13. regsDone' = IF i.opcode = "branch" THEN xregs
                   ELSE [xregs EXCEPT ![i.rd] = IF i.rd = 0 THEN 0 ELSE Result]
  <2>1. CASE i.rd = 0 /\ i.opcode # "branch"
    <3>1. [xregs EXCEPT ![0] = 0] = xregs
      BY <1>9
    <3> QED
      BY <1>10, <1>12, <2>1, <3>1
  <2>2. CASE ~(i.rd = 0 /\ i.opcode # "branch")
    BY <1>10, <1>12, <2>2
  <2> QED
    BY <2>1, <2>2
<1> QED
  BY <1>2, <1>3, <1>4, <1>6, <1>8, <1>13

\* The next instruction is at the word that follows.
LEMMA FallThrough ==
  ASSUME NEW p \in Ram, p < CODE
  PROVE  ((4 * p + 4) \div 4) % Pow2[addrW] = p + 1
<1>1. p \in Nat /\ CODE \in Ram /\ p + 1 \in Ram
  BY Addresses, IceVAssumption
<1>2. (4 * p + 4) \div 4 = p + 1
  BY <1>1
<1> QED
  BY <1>1, <1>2, InRam

\* What the ALU computes is what the instruction asks for, all the bits of a shift included.
LEMMA ComputeIs ==
  ASSUME IInv, Straight, LowCode, Read, i.opcode \in {"IntImm", "IntReg"}
  PROVE  Result = RV!Compute(b)
<1>0. Types /\ ~MemoryOp /\ i \in Instr /\ i.op \in 0 .. 7 /\ xa \in Word /\ b \in Word
      /\ i.sign \in 0 .. 1
  BY Fields DEF IInv, MemoryOp, Types
<1>1. Decoded' /\ i' = i /\ ~exec.working
  BY <1>0, ReadGives
<1>2. phase = "read" /\ Execute(TRUE)
  BY DEF Read
<1>3. exec'.r = AluResult /\ shamt' = Shamt(TRUE) /\ (exec'.working <=> shamt' # 0)
  <2>1. exec'.r = AluResult /\ shamt' = Shamt(TRUE) /\ (exec'.working <=> Shamt(TRUE) # 0)
    BY <1>2, ExecuteGives
  <2> QED
    BY <2>1
<1>4. shamt' = IF aluShift THEN b % XLEN ELSE 0
  BY <1>0, <1>1, <1>3, ShamtIs
<1>5. RV!i = i /\ RV!a = xa
  BY <1>2, Before
<1>6. write_back(0)' = AluResult
  BY <1>1, <1>3, WriteBackNext
<1>7. ASSUME i.op \in {0, 2, 3, 4, 6, 7} PROVE Result = AluResult
  <2>1. ~aluShift
    BY <1>7 DEF aluShift
  <2> QED
    BY <1>3, <1>4, <1>6, <2>1 DEF Result
<1>8. CASE i.op = 0
  <2>1. AluResult = Wrap(IF i.opcode = "IntReg" /\ i.sign = 1 THEN xa - b ELSE xa + b)
    BY <1>0, <1>8, AluResultIs
  <2>2. RV!Compute(b) = RV!Wrap(IF i.opcode = "IntReg" /\ i.sign = 1 THEN xa - b ELSE xa + b)
    BY <1>5, <1>8 DEF RV!Compute
  <2> QED
    BY <1>7, <1>8, <2>1, <2>2, SameArithmetic
<1>9. CASE i.op \in {2, 3}
  <2>1. i.op = 2 => RV!Compute(b) = IF RV!Signed(xa) < RV!Signed(b) THEN 1 ELSE 0
    BY <1>5 DEF RV!Compute
  <2>2. i.op = 3 => RV!Compute(b) = IF xa < b THEN 1 ELSE 0
    BY <1>5 DEF RV!Compute
  <2> QED
    BY <1>0, <1>7, <1>9, <2>1, <2>2, SameArithmetic, AluResultIs
<1>10. CASE i.op \in {4, 6, 7}
  <2>1. /\ i.op = 4 => RV!Compute(b) = RV!Bitwise(RV!Xor, xa, b)
        /\ i.op = 6 => RV!Compute(b) = RV!Bitwise(RV!Or, xa, b)
        /\ i.op = 7 => RV!Compute(b) = RV!Bitwise(RV!And, xa, b)
    BY <1>5 DEF RV!Compute
  <2> QED
    BY <1>0, <1>7, <1>10, <2>1, SameArithmetic, AluResultIs
<1>11. CASE i.op \in {1, 5}
  <2>1. aluShift
    BY <1>11 DEF aluShift
  <2> DEFINE n == b % XLEN
  <2>2. n \in 0 .. XLEN - 1 /\ shamt' = n
    <3>1. b \in Int /\ XLEN \in Nat \ {0}
      BY <1>0, Sizes
    <3>2. b % XLEN \in 0 .. XLEN - 1
      BY <3>1
    <3> QED
      BY <1>4, <2>1, <3>2
  <2>3. exec'.r = xa
    BY <1>0, <1>1, <1>3, <1>11, AluResultIs
  <2>4. RV!Compute(b) = RV!Shift(xa, b % RV!XLEN)
    BY <1>5, <1>11 DEF RV!Compute
  <2>5. RV!Compute(b) = RV!Shift(xa, n)
    BY <2>4, SameArithmetic
  <2> HIDE DEF n
  <2>6. Result = Many(i, xa, n)
    <3>1. CASE n # 0
      BY <1>3, <2>2, <2>3, <3>1 DEF Result
    <3>2. CASE n = 0
      <4>1. Result = xa
        BY <1>3, <1>6, <2>2, <2>3, <3>2 DEF Result
      <4> QED
        BY <1>0, <3>2, <4>1, ManyStep
    <3> QED
      BY <3>1, <3>2
  <2>7. CASE i.op = 1
    <3>1. Many(i, xa, n) = Wrap(xa * Pow2[n])
      BY <1>0, <2>2, <2>7, ManyLeft
    <3>2. RV!Shift(xa, n) = RV!Wrap(xa * RV!Pow2[n])
      BY <1>5, <2>7 DEF RV!Shift
    <3> QED
      BY <2>5, <2>6, <3>1, <3>2, SameArithmetic
  <2>8. CASE i.op = 5
    <3>1. Many(i, xa, n) = Wrap((IF i.sign = 1 THEN Signed(xa) ELSE xa) \div Pow2[n])
      BY <1>0, <2>2, <2>8, ManyRight DEF Operand
    <3>2. RV!Shift(xa, n) = RV!Wrap((IF i.sign = 1 THEN RV!Signed(xa) ELSE xa) \div RV!Pow2[n])
      BY <1>5, <2>8 DEF RV!Shift
    <3> QED
      BY <2>5, <2>6, <3>1, <3>2, SameArithmetic
  <2> QED
    BY <1>11, <2>7, <2>8
<1> QED
  BY <1>0, <1>8, <1>9, <1>10, <1>11

\* The word that comes next, for the instructions that do not jump.
LEMMA GotoNext ==
  ASSUME pcDone \in Ram, pcDone < CODE, pcDone' = pcDone + 1
  PROVE  RV!Goto(RV!NextPc)
<1>1. ((4 * pcDone + 4) \div 4) % Pow2[addrW] = pcDone + 1
  BY FallThrough
<1> QED
  BY <1>1, SameArithmetic DEF RV!Goto, RV!NextPc

\* Read of an operation on integers is that of RV32I.
LEMMA IntegerStep ==
  ASSUME IInv, Straight, LowCode, Read, i.opcode \in {"IntImm", "IntReg"}
  PROVE  RV!Integer
<1>0. Types /\ ~MemoryOp
  BY DEF IInv, MemoryOp
<1>1. phase = "read" /\ Execute(TRUE)
  BY DEF Read
<1>2. /\ regsDone = xregs /\ pcDone = pc /\ RV!i = i /\ regsDone[RV!i.rs2] = xb
      /\ pc \in Ram
  BY <1>1, Before DEF Straight
<1>3. ~exec'.jump
  BY <1>1, ExecuteGives
<1>4. /\ ram' = ram /\ outDone' = outDone /\ pc < CODE /\ pcDone' = pc + 1
      /\ regsDone' = [xregs EXCEPT ![i.rd] = IF i.rd = 0 THEN 0 ELSE Result]
  BY <1>0, <1>3, ReadGives
<1>5. b = IF i.opcode = "IntReg" THEN xb ELSE i.imm
  BY DEF b
<1>6. Result = RV!Compute(IF RV!i.opcode = "IntReg" THEN regsDone[RV!i.rs2] ELSE RV!i.imm)
  BY <1>2, <1>5, ComputeIs
<1>7. RV!Goto(RV!NextPc)
  BY <1>2, <1>4, GotoNext
<1>8. RV!Set(RV!Compute(IF RV!i.opcode = "IntReg" THEN regsDone[RV!i.rs2] ELSE RV!i.imm))
  BY <1>2, <1>4, <1>6 DEF RV!Set
<1> QED
  BY <1>2, <1>4, <1>7, <1>8 DEF RV!Integer

\* Read of lui, auipc and rdcycle.
LEMMA UpperStep ==
  ASSUME IInv, Straight, LowCode, Read, i.opcode \in {"LUI", "AUIPC", "Cycles"}
  PROVE  RV!Upper
<1>0. Types /\ ~MemoryOp /\ ~aluShift
  BY DEF IInv, MemoryOp, aluShift
<1>1. phase = "read" /\ Execute(TRUE)
  BY DEF Read
<1>2. regsDone = xregs /\ pcDone = pc /\ RV!i = i /\ pc \in Ram
  BY <1>1, Before DEF Straight
<1>3. /\ ~exec'.jump /\ (exec'.working <=> Shamt(TRUE) # 0)
      /\ exec'.val = IF i.opcode = "LUI" THEN i.imm ELSE cycle
      /\ exec'.n = Wrap(addr_a + addr_imm)
  BY <1>1, ExecuteGives
<1>4. /\ Decoded' /\ i' = i /\ ~exec.working
      /\ ram' = ram /\ outDone' = outDone /\ pc < CODE /\ pcDone' = pc + 1
      /\ regsDone' = [xregs EXCEPT ![i.rd] = IF i.rd = 0 THEN 0 ELSE Result]
  BY <1>0, <1>3, ReadGives
<1>5. ~exec'.working
  BY <1>0, <1>3, <1>4, ShamtIs
<1>6. Result = write_back(0)'
  BY <1>5 DEF Result
<1>7. RV!Goto(RV!NextPc)
  BY <1>2, <1>4, GotoNext
<1>8. \/ i.opcode = "LUI" /\ RV!Set(i.imm)
      \/ i.opcode = "AUIPC" /\ RV!Set(RV!Wrap(4 * pc + i.imm))
      \/ i.opcode = "Cycles" /\ \E v \in RV!Word : RV!Set(v)
  <2>1. CASE i.opcode = "LUI"
    <3>1. Result = i.imm
      BY <1>3, <1>4, <1>6, <2>1, WriteBackNext
    <3> QED
      BY <1>2, <1>4, <2>1, <3>1 DEF RV!Set
  <2>2. CASE i.opcode = "Cycles"
    <3>1. Result = cycle /\ cycle \in RV!Word
      BY <1>0, <1>3, <1>4, <1>6, <2>2, WriteBackNext, SameArithmetic DEF Types
    <3>2. RV!Set(cycle)
      BY <1>2, <1>4, <3>1 DEF RV!Set
    <3> QED
      BY <2>2, <3>1, <3>2
  <2>3. CASE i.opcode = "AUIPC"
    <3>1. exec'.n = Wrap(4 * pc + i.imm)
      BY <1>0, <1>3, <1>4, <2>3, TargetIs
    <3> DEFINE D == Pow2[addrW + 2]
    <3>2. exec'.n < D
      BY <2>3, <3>1 DEF Read, Legal
    <3>3. exec'.n \in Nat /\ D \in Nat \ {0}
      <4>1. i.imm \in Int /\ pc \in Int
        BY <1>0, <1>2, Fields, Sizes, Addresses
      <4>2. 4 * pc + i.imm \in Int
        BY <4>1
      <4>3. exec'.n \in Word
        BY <3>1, <4>2, WrapInWord
      <4> QED
        BY <4>3, Sizes, Addresses
    <3>4. Result = exec'.n % D
      BY <1>4, <1>6, <2>3, WriteBackNext
    <3> HIDE DEF D
    <3>5. exec'.n \in 0 .. D - 1
      BY <3>2, <3>3
    <3>6. Result = exec'.n
      BY <3>3, <3>4, <3>5, SmallDividend
    <3>7. Result = RV!Wrap(4 * pc + i.imm)
      BY <3>1, <3>6, SameArithmetic
    <3> QED
      BY <1>2, <1>4, <2>3, <3>7 DEF RV!Set
  <2> QED
    BY <2>1, <2>2, <2>3
<1> QED
  BY <1>2, <1>4, <1>7, <1>8 DEF RV!Upper

\* Read of jal and jalr.
LEMMA JumpStep ==
  ASSUME IInv, Straight, LowCode, Read, i.opcode \in {"JAL", "JALR"}
  PROVE  RV!Jump
<1>0. Types /\ ~MemoryOp /\ ~aluShift
  BY DEF IInv, MemoryOp, aluShift
<1>1. phase = "read" /\ Execute(TRUE) /\ pc' = pc
  BY DEF Read
<1>2. regsDone = xregs /\ pcDone = pc /\ RV!i = i /\ RV!a = xa
  BY <1>1, Before
<1>3. exec'.jump /\ (exec'.working <=> Shamt(TRUE) # 0) /\ exec'.n = Wrap(addr_a + addr_imm)
  BY <1>1, ExecuteGives
<1>4. /\ Decoded' /\ i' = i /\ ~exec.working
      /\ ram' = ram /\ outDone' = outDone /\ pc < CODE
      /\ pcDone' = (exec'.n \div 4) % Pow2[addrW]
      /\ regsDone' = [xregs EXCEPT ![i.rd] = IF i.rd = 0 THEN 0 ELSE Result]
  BY <1>0, <1>3, ReadGives
<1>5. ~exec'.working
  BY <1>0, <1>3, <1>4, ShamtIs
<1>6. Result = 4 * pc + 4
  <2>1. Result = 4 * next_pc'
    BY <1>3, <1>4, <1>5, WriteBackNext DEF Result
  <2>2. next_pc' = next_pc
    BY <1>1 DEF next_pc
  <2>3. next_pc = pc + 1 /\ pc \in Int
    BY <1>0, <1>4, NextPcIs, Addresses DEF Types, BusAddress
  <2> QED
    BY <2>1, <2>2, <2>3
<1>7. exec'.n = RV!Wrap((IF i.opcode = "JAL" THEN 4 * pc ELSE xa) + i.imm)
  BY <1>0, <1>3, <1>4, TargetIs, SameArithmetic
<1>8. RV!Goto(RV!Wrap((IF i.opcode = "JAL" THEN 4 * pc ELSE xa) + i.imm))
  BY <1>4, <1>7, SameArithmetic DEF RV!Goto
<1>9. RV!Set(RV!NextPc)
  BY <1>2, <1>4, <1>6 DEF RV!Set, RV!NextPc
<1> QED
  BY <1>2, <1>4, <1>8, <1>9 DEF RV!Jump

\* Read of a branch.
LEMMA BranchStep ==
  ASSUME IInv, Straight, LowCode, Read, i.opcode = "branch"
  PROVE  RV!Branch
<1>0. Types /\ ~MemoryOp /\ i.op \in 0 .. 7 /\ xa \in Word /\ xb \in Word
  BY Fields DEF IInv, MemoryOp, Types
<1>1. phase = "read" /\ Execute(TRUE)
  BY DEF Read
<1>2. /\ regsDone = xregs /\ pcDone = pc /\ RV!i = i /\ RV!a = xa /\ pc \in Ram
      /\ regsDone[RV!i.rs2] = xb
  BY <1>1, Before DEF Straight
<1>3. (exec'.jump <=> Compared # i.op % 2) /\ exec'.n = Wrap(addr_a + addr_imm)
  BY <1>1, ExecuteGives
<1>4. /\ ram' = ram /\ outDone' = outDone /\ pc < CODE /\ regsDone' = xregs
      /\ pcDone' = IF exec'.jump THEN (exec'.n \div 4) % Pow2[addrW] ELSE pc + 1
  BY <1>0, ReadGives
<1>5. i.op \in {0, 1, 4, 5, 6, 7}
  BY <1>0 DEF Read, Legal
<1>6. b = xb
  BY DEF b
<1>7. RV!Taken(xb) <=> exec'.jump
  <2>1. CASE i.op = 0
    <3>1. RV!Taken(xb) <=> xa = xb
      BY <1>2, <2>1 DEF RV!Taken
    <3> QED
      BY <1>0, <1>3, <1>5, <1>6, <2>1, <3>1, ComparedIs
  <2>2. CASE i.op = 1
    <3>1. RV!Taken(xb) <=> xa # xb
      BY <1>2, <2>2 DEF RV!Taken
    <3> QED
      BY <1>0, <1>3, <1>5, <1>6, <2>2, <3>1, ComparedIs
  <2>3. CASE i.op = 4
    <3>1. RV!Taken(xb) <=> Signed(xa) < Signed(xb)
      BY <1>2, <2>3, SameArithmetic DEF RV!Taken
    <3> QED
      BY <1>0, <1>3, <1>5, <1>6, <2>3, <3>1, ComparedIs
  <2>4. CASE i.op = 5
    <3>1. RV!Taken(xb) <=> Signed(xa) >= Signed(xb)
      BY <1>2, <2>4, SameArithmetic DEF RV!Taken
    <3> QED
      BY <1>0, <1>3, <1>5, <1>6, <2>4, <3>1, ComparedIs
  <2>5. CASE i.op = 6
    <3>1. RV!Taken(xb) <=> xa < xb
      BY <1>2, <2>5 DEF RV!Taken
    <3> QED
      BY <1>0, <1>3, <1>5, <1>6, <2>5, <3>1, ComparedIs
  <2>6. CASE i.op = 7
    <3>1. RV!Taken(xb) <=> xa >= xb
      BY <1>2, <2>6 DEF RV!Taken
    <3> QED
      BY <1>0, <1>3, <1>5, <1>6, <2>6, <3>1, ComparedIs
  <2> QED
    BY <1>5, <2>1, <2>2, <2>3, <2>4, <2>5, <2>6
<1>8. CASE exec'.jump
  <2>1. exec'.n = RV!Wrap(4 * pc + i.imm)
    BY <1>0, <1>3, <1>4, TargetIs, SameArithmetic
  <2>2. RV!Goto(RV!Wrap(4 * pc + i.imm))
    BY <1>2, <1>4, <1>8, <2>1, SameArithmetic DEF RV!Goto
  <2> QED
    BY <1>2, <1>4, <1>7, <1>8, <2>2 DEF RV!Branch
<1>9. CASE ~exec'.jump
  <2>1. RV!Goto(RV!NextPc)
    BY <1>2, <1>4, <1>9, GotoNext
  <2> QED
    BY <1>2, <1>4, <1>7, <1>9, <2>1 DEF RV!Branch
<1> QED
  BY <1>8, <1>9

\* When the ALU is triggered, an instruction that computes is done.
LEMMA ComputeStep ==
  ASSUME IInv, Straight, LowCode, Read, ~MemoryOp
  PROVE  RV!Next
<1>1. i.opcode \in Opcodes
  BY Fields DEF IInv
<1>2. \/ i.opcode \in {"IntImm", "IntReg"}
      \/ i.opcode \in {"LUI", "AUIPC", "Cycles"}
      \/ i.opcode \in {"JAL", "JALR"}
      \/ i.opcode = "branch"
  BY <1>1 DEF Opcodes, MemoryOp
<1> QED
  BY <1>2, IntegerStep, UpperStep, JumpStep, BranchStep DEF RV!Next

\* What a program sees.
Seen == <<ram, regsDone, pcDone, outDone>>

\* A program sees nothing of Fetch.
LEMMA FetchSeen ==
  ASSUME IInv, Fetch
  PROVE  UNCHANGED Seen
<1>0. Types
  BY DEF IInv
<1>1. /\ phase = "fetch" /\ phase' = "read" /\ pc' = addr
      /\ Registers(FALSE, 0, instr') /\ Bus(addr, {})
  BY DEF Fetch
<1>2. ~Computing /\ ~Computing'
  BY <1>1 DEF Computing
<1>3. xregs' = xregs
  BY <1>1 DEF Registers
<1>4. regsDone' = regsDone
  BY <1>2, <1>3 DEF regsDone
<1>5. pcDone' = pcDone
  BY <1>1, <1>2 DEF pcDone
<1>6. ram' = ram /\ outDone' = outDone
  BY <1>0, <1>1, OutKept DEF Types
<1> QED
  BY <1>4, <1>5, <1>6 DEF Seen

\* A program sees nothing of a load or a store when it reads its operands.
LEMMA ReadSeen ==
  ASSUME IInv, Read, MemoryOp
  PROVE  UNCHANGED Seen
<1>0. Types
  BY DEF IInv
<1>1. /\ phase = "read" /\ phase' = "exec" /\ instr' = instr /\ pc' = pc
      /\ Registers(FALSE, 0, instr) /\ Bus(addr, {}) /\ Execute(TRUE)
  BY DEF Read
<1>2. Decoded' /\ i' = i
  BY <1>1, ExecuteGives DEF i
<1>3. ~Computing /\ ~Computing'
  BY <1>1, <1>2 DEF Computing, Decoded, MemoryOp
<1>4. xregs' = xregs
  BY <1>1 DEF Registers
<1>5. regsDone' = regsDone
  BY <1>3, <1>4 DEF regsDone
<1>6. pcDone' = pcDone
  BY <1>1, <1>3 DEF pcDone
<1>7. ram' = ram /\ outDone' = outDone
  BY <1>0, <1>1, OutKept DEF Types
<1> QED
  BY <1>5, <1>6, <1>7 DEF Seen

---------------------------------------------------------------------------
(* What a program does not see; loads and stores.                          *)

\* The bits that a shift still has to go through are those of what is in the register.
LEMMA WorkingSeen ==
  ASSUME IInv, Commit, exec.working
  PROVE  UNCHANGED <<regsDone, pcDone>>
<1>0. Types /\ Shifter /\ InProgress /\ ZeroRegister
  BY DEF IInv
<1>1. /\ phase = "exec" /\ ~(exec.load \/ exec.store) /\ phase' = "exec"
      /\ instr' = instr /\ pc' = pc /\ Execute(FALSE)
  BY DEF Commit
<1>2. Decoded /\ Decoded' /\ i' = i
  BY <1>0, <1>1, ExecuteGives DEF InProgress, i
<1>3. aluShift /\ shamt \in 1 .. XLEN - 1 /\ i.opcode \in {"IntImm", "IntReg"}
      /\ i.op \in {1, 5}
  <2>1. aluShift /\ shamt # 0 /\ shamt \in 0 .. XLEN - 1
    BY <1>0 DEF Types, Shifter
  <2>2. i.op \in 0 .. 7 /\ i.op % 4 = 1 /\ i.opcode \in {"IntImm", "IntReg"}
    BY <1>0, <2>1, Fields DEF aluShift
  <2>3. i.op \in {1, 5}
    BY <2>2
  <2> QED
    BY <2>1, <2>2, <2>3, Sizes
<1>4. Computing /\ Computing'
  BY <1>1, <1>2, <1>3 DEF Computing, Decoded
<1>5. shamt' = shamt - 1 /\ exec'.r = Once(i, exec.r) /\ (exec'.working <=> shamt' # 0)
  <2>1. exec'.r = AluResult /\ shamt' = Shamt(FALSE) /\ (exec'.working <=> Shamt(FALSE) # 0)
    BY <1>1, ExecuteGives
  <2> QED
    BY <1>0, <1>3, <2>1, ShamtIs, AluResultIs
<1>6. (IF exec'.working THEN AllBits(exec.r, shamt)' ELSE write_back(0)')
      = AllBits(exec.r, shamt)
  <2>1. Many(i, exec.r, shamt) = Many(i, exec'.r, shamt')
    <3> DEFINE n == shamt - 1
    <3>1. n \in 0 .. XLEN - 1 /\ n + 1 = shamt /\ shamt' = n
      BY <1>3, <1>5, Sizes
    <3>2. i \in Instr /\ exec.r \in Word
      BY <1>0, Fields DEF Types
    <3> HIDE DEF n
    <3>3. Many(i, exec.r, n + 1) = Many(i, Once(i, exec.r), n)
      BY <3>1, <3>2, ManyAfterOnce
    <3> QED
      BY <1>5, <3>1, <3>3
  <2>2. CASE exec'.working
    BY <1>2, <2>1, <2>2, AllBitsIs, AllBitsNext
  <2>3. CASE ~exec'.working
    <3>1. write_back(0)' = exec'.r
      BY <1>2, <1>3, WriteBackNext
    <3>2. Many(i, exec'.r, 0) = exec'.r
      <4>1. i \in Instr /\ exec'.r \in Word
        BY <1>0, <1>5, Fields, OnceInWord DEF Types
      <4> QED
        BY <4>1, ManyStep
    <3> QED
      BY <1>5, <2>1, <2>3, <3>1, <3>2, AllBitsIs
  <2> QED
    BY <2>2, <2>3
<1>7. PICK w \in Answers : Registers(~exec.no_rd, w, instr)
  BY DEF Commit
<1>8. xregs' = IF exec.no_rd THEN xregs ELSE [xregs EXCEPT ![exec.write_rd] = write_back(w)]
  BY <1>7 DEF Registers
<1>9. exec'.write_rd = exec.write_rd /\ (exec'.no_rd <=> exec.no_rd)
  BY <1>2 DEF Decoded
<1>10. regsDone' = regsDone
  <2>1. CASE exec.no_rd
    BY <1>4, <1>8, <1>9, <2>1 DEF regsDone
  <2>2. CASE ~exec.no_rd
    <3> DEFINE r == exec.write_rd
               v == AllBits(exec.r, shamt)
    <3>1. regsDone = [xregs EXCEPT ![r] = v]
      BY <1>4, <2>2 DEF regsDone
    <3>2. regsDone' = [xregs' EXCEPT ![r] = v]
      BY <1>4, <1>6, <1>9, <2>2 DEF regsDone
    <3>3. xregs' = [xregs EXCEPT ![r] = write_back(w)]
      BY <1>8, <2>2
    <3>4. xregs \in [Reg -> Word] /\ r \in Reg
      BY <1>0 DEF Types
    <3> HIDE DEF r, v
    <3> QED
      BY <3>1, <3>2, <3>3, <3>4
  <2> QED
    BY <2>1, <2>2
<1>11. pcDone' = pcDone
  <2>1. ~exec.jump /\ ~exec'.jump
    BY <1>2, <1>3 DEF Decoded
  <2>2. pcDone = next_pc /\ pcDone' = next_pc'
    BY <1>1, <1>4, <2>1 DEF pcDone
  <2> QED
    BY <1>1, <2>2 DEF next_pc
<1> QED
  BY <1>10, <1>11

\* A program sees nothing of Commit: the result was known.
LEMMA CommitSeen ==
  ASSUME IInv, Commit
  PROVE  UNCHANGED Seen
<1> DEFINE target == IF exec.jump THEN (exec.n \div 4) % Pow2[addrW] ELSE next_pc
<1>0. Types /\ InProgress
  BY DEF IInv
<1>1. phase = "exec" /\ ~(exec.load \/ exec.store) /\ Bus(target, {})
  BY DEF Commit
<1>2. target \in BusAddress
  BY <1>0, NextPcIs, TargetInRange DEF Types
<1>3. pcDone = target
  BY <1>1 DEF pcDone, Computing
<1> HIDE DEF target
<1>4. ram' = ram /\ outDone' = outDone /\ addr' = target
  BY <1>0, <1>1, <1>2, OutKept, BusGives
<1>5. CASE exec.working
  BY <1>4, <1>5, WorkingSeen DEF Seen
<1>6. CASE ~exec.working
  <2>1. phase' = "fetch"
    BY <1>6 DEF Commit
  <2>2. ~Computing'
    BY <2>1 DEF Computing
  <2>3. pcDone' = pcDone
    <3>1. pcDone' = addr'
      BY <2>1, <2>2 DEF pcDone
    <3> QED
      BY <1>3, <1>4, <3>1
  <2>4. PICK w \in Answers : Registers(~exec.no_rd, w, instr)
    BY DEF Commit
  <2>5. write_back(w) = write_back(0)
    BY <1>1 DEF write_back
  <2>6. regsDone' = regsDone
    BY <1>1, <1>6, <2>2, <2>4, <2>5 DEF regsDone, Registers, Computing
  <2> QED
    BY <1>4, <2>3, <2>6 DEF Seen
<1> QED
  BY <1>5, <1>6

\* A program sees nothing of the first cycle of a load.
LEMMA LoadSeen ==
  ASSUME IInv, Access, i.opcode = "load"
  PROVE  UNCHANGED Seen
<1> DEFINE target == (exec.n \div 4) % Pow2[addrW]
<1>0. Types /\ InProgress
  BY DEF IInv
<1>1. /\ phase = "exec" /\ phase' = "wait" /\ instr' = instr /\ pc' = pc
      /\ Registers(FALSE, 0, instr) /\ Bus(target, StoreLanes) /\ Execute(FALSE)
      /\ (exec.load \/ exec.store)
  BY DEF Access
<1>2. Decoded /\ Decoded' /\ i' = i
  BY <1>0, <1>1, ExecuteGives DEF InProgress, i
<1>3. ~Computing /\ ~Computing'
  BY <1>1 DEF Computing
<1>4. ~exec.store /\ ~exec'.store
  BY <1>2 DEF Decoded
<1>5. pcDone' = pcDone
  BY <1>1, <1>3, <1>4 DEF pcDone
<1>6. regsDone' = regsDone
  BY <1>1, <1>3 DEF regsDone, Registers
<1>7. target \in BusAddress /\ StoreLanes = {}
  BY <1>0, <1>4, TargetInRange DEF Types, StoreLanes
<1> HIDE DEF target
<1>8. ram' = ram /\ outDone' = outDone
  BY <1>0, <1>1, <1>7, OutKept
<1> QED
  BY <1>5, <1>6, <1>8 DEF Seen

\* A program sees nothing of the second cycle of a store.
LEMMA StoreSeen ==
  ASSUME IInv, Transaction, i.opcode = "store"
  PROVE  UNCHANGED Seen
<1>0. Types /\ InProgress
  BY DEF IInv
<1>1. phase = "wait" /\ phase' = "fetch" /\ Bus(next_pc, {})
  BY DEF Transaction
<1>2. PICK w \in Answers : Registers(~exec.no_rd, w, instr)
  BY DEF Transaction
<1>3. exec.no_rd /\ exec.store
  BY <1>0, <1>1 DEF InProgress, Decoded
<1>4. ~Computing /\ ~Computing'
  BY <1>1 DEF Computing
<1>5. regsDone' = regsDone
  BY <1>2, <1>3, <1>4 DEF regsDone, Registers
<1>6. ram' = ram /\ outDone' = outDone /\ addr' = next_pc
  BY <1>0, <1>1, NextPcIs, OutKept, BusGives
<1>7. pcDone' = pcDone
  BY <1>1, <1>3, <1>4, <1>6 DEF pcDone
<1> QED
  BY <1>5, <1>6, <1>7 DEF Seen

\* Where an access goes, for the processor and for RV32I.
LEMMA AccessIs ==
  ASSUME IInv, Straight, MemoryOp, phase \in {"exec", "wait"},
         phase = "wait" => i.opcode = "load"
  PROVE  /\ RV!i = i /\ RV!Cell = (exec.n \div 4) % Pow2[addrW] /\ RV!Offset = Off
         /\ RV!Bytes = Pow2[i.op % 4] /\ exec.op = i.op
         /\ Off \in 0 .. 3 /\ pcDone = pc /\ pc < CODE /\ pc \in Ram /\ next_pc = pc + 1
<1>0. Types /\ InProgress
  BY DEF IInv
<1>1. RV!i = i /\ RV!a = xa /\ pcDone = pc
  BY Before DEF MemoryOp
<1>2. exec.n = Wrap(xa + i.imm) /\ pc < CODE /\ exec.op = i.op
  BY <1>0 DEF InProgress, Decoded
<1>3. RV!Address = exec.n
  BY <1>1, <1>2, SameArithmetic DEF RV!Address
<1>4. RV!Cell = (exec.n \div 4) % Pow2[addrW] /\ RV!Offset = Off
  BY <1>3, SameArithmetic DEF RV!Cell, RV!Offset, Off
<1>5. RV!Bytes = Pow2[i.op % 4]
  BY <1>1, SameArithmetic DEF RV!Bytes
<1>6. Off \in 0 .. 3
  BY <1>0, Sizes DEF Types, Off
<1>7. pc \in Ram
  BY <1>0, <1>2, Addresses, IceVAssumption DEF Types, BusAddress
<1> QED
  BY <1>0, <1>1, <1>2, <1>4, <1>5, <1>6, <1>7, NextPcIs

\* The second cycle of a load is that of RV32I.
LEMMA LoadStep ==
  ASSUME IInv, Straight, Transaction, i.opcode = "load"
  PROVE  RV!Load
<1>0. Types /\ InProgress /\ OnBus /\ ZeroRegister
  BY DEF IInv
<1>1. phase = "wait" /\ phase' = "fetch" /\ Bus(next_pc, {}) /\ MemoryOp
  BY DEF Transaction, MemoryOp
<1>2. regsDone = xregs
  BY <1>1, Before
<1>3. /\ RV!i = i /\ RV!Cell = (exec.n \div 4) % Pow2[addrW] /\ RV!Offset = Off
      /\ RV!Bytes = Pow2[i.op % 4] /\ exec.op = i.op
      /\ Off \in 0 .. 3 /\ pcDone = pc /\ pc < CODE /\ pc \in Ram /\ next_pc = pc + 1
  BY <1>1, AccessIs
<1>4. PICK w \in Answers : Registers(~exec.no_rd, w, instr)
  BY DEF Transaction
<1>5. /\ ~exec.store /\ exec.write_rd = i.rd /\ (exec.no_rd <=> i.rd = 0)
      /\ i.op \in {0, 1, 2, 4, 5} /\ Decoded
  BY <1>0, <1>1 DEF InProgress, Decoded
<1>6. w \in IF RV!IsPeripheral(RV!Cell) THEN Inputs ELSE {ram[RV!Cell]}
  <2>1. /\ prev.addr = RV!Cell /\ addr = RV!Cell /\ prev.lanes = {}
        /\ rdata = ram[addr % Pow2[addrW - 1]]
    BY <1>0, <1>1, <1>3, <1>5 DEF OnBus, Types, StoreLanes
  <2>2. CASE IsPeripheral(addr)
    BY <1>4, <2>1, <2>2, SameArithmetic DEF Answers, ReadsPeripheral
  <2>3. CASE ~IsPeripheral(addr)
    <3>1. addr \in Ram
      BY <1>0, <2>3, Addresses DEF Types, BusAddress, IsPeripheral
    <3>2. rdata = ram[addr]
      BY <2>1, <3>1, InRam
    <3> QED
      BY <1>4, <2>1, <2>3, <3>2, SameArithmetic DEF Answers, ReadsPeripheral
  <2> QED
    BY <2>2, <2>3
<1>7. write_back(w) = RV!Extended(w)
  <2>1. w \in Word
    BY <1>0, <1>4, AnswersInWord
  <2>2. i.op = 2 => Off = 0
    BY <1>0, <1>1, <1>3, WordAligned
  <2>3. write_back(w) = Extension(i.op, Off, w)
    BY <1>0, <1>1, <1>3, <1>5, <2>1, <2>2, WriteBackIs, LoadIs
  <2>4. RV!Extended(w) = Extension(i.op, Off, w)
    BY <1>3, SameArithmetic, Zenon DEF RV!Extended, Extension
  <2> QED
    BY <2>3, <2>4
<1>8. ~Computing'
  BY <1>1 DEF Computing
<1>9. regsDone' = xregs'
  BY <1>8 DEF regsDone
<1>10. xregs' = [xregs EXCEPT ![i.rd] = IF i.rd = 0 THEN 0 ELSE RV!Extended(w)]
  <2>1. CASE i.rd = 0
    <3>1. xregs' = xregs
      BY <1>4, <1>5, <2>1 DEF Registers
    <3>2. [xregs EXCEPT ![0] = 0] = xregs
      BY <1>0 DEF Types, ZeroRegister
    <3> QED
      BY <2>1, <3>1, <3>2
  <2>2. CASE i.rd # 0
    BY <1>4, <1>5, <1>7, <2>2 DEF Registers
  <2> QED
    BY <2>1, <2>2
<1>11. RV!Set(RV!Extended(w))
  BY <1>2, <1>3, <1>9, <1>10 DEF RV!Set
<1>12. ram' = ram /\ outDone' = outDone /\ addr' = next_pc
  BY <1>0, <1>1, NextPcIs, OutKept, BusGives
<1>13. pcDone' = pcDone + 1
  <2>1. pcDone' = addr'
    BY <1>1, <1>8 DEF pcDone
  <2> QED
    BY <1>3, <1>12, <2>1
<1>14. RV!Goto(RV!NextPc)
  BY <1>3, <1>13, GotoNext
<1> QED
  BY <1>3, <1>6, <1>11, <1>12, <1>14 DEF RV!Load

\* An aligned access stays in its word.
LEMMA StoreLanesAre ==
  ASSUME IInv, Straight, Access, i.opcode = "store"
  PROVE  /\ StoreLanes = Off .. Off + Pow2[i.op % 4] - 1
         /\ StoreLanes # {} /\ StoreLanes \subseteq Lanes
<1>0. InProgress /\ phase = "exec" /\ MemoryOp
  BY DEF IInv, Access, MemoryOp
<1>1. /\ exec.op = i.op /\ Off \in 0 .. 3 /\ exec.store /\ i.op \in {0, 1, 2}
      /\ exec.n % Pow2[i.op % 4] = 0 /\ exec.n \in Int
  BY <1>0, AccessIs, Sizes DEF InProgress, Decoded, IInv, Types
<1> DEFINE n == Pow2[i.op % 4]
<1>2. n \in {1, 2, 4} /\ Off + n <= 4
  <2>1. CASE i.op = 0
    BY <1>1, <2>1, SmallPowers
  <2>2. CASE i.op = 1
    <3>1. n = 2
      BY <2>2, SmallPowers
    <3>2. exec.n % 2 = 0
      BY <1>1, <3>1
    <3>3. Off # 3
      BY <1>1, <3>2 DEF Off
    <3> QED
      BY <1>1, <3>1, <3>3
  <2>3. CASE i.op = 2
    <3>1. n = 4 /\ Off = 0
      BY <1>1, <2>3, SmallPowers DEF Off
    <3> QED
      BY <3>1
  <2> QED
    BY <1>1, <2>1, <2>2, <2>3
<1>3. StoreLanes = {k \in Lanes : k \in Off .. Off + n - 1}
  BY <1>1 DEF StoreLanes
<1> HIDE DEF n
<1>4. Off .. Off + n - 1 \subseteq Lanes /\ Off \in Off .. Off + n - 1
  BY <1>1, <1>2 DEF Lanes
<1>5. StoreLanes = Off .. Off + n - 1
  BY <1>3, <1>4
<1> QED
  BY <1>4, <1>5 DEF n

\* The bytes on the bus are those of the register, moved to their lanes.
LEMMA BytesStored ==
  ASSUME IInv, Straight, Access, i.opcode = "store"
  PROVE  /\ RV!Stored = [k \in StoreLanes |-> ByteOf(xb, k - Off)]
         /\ \A k \in StoreLanes : ByteOf(Wrap(xb * Pow2[BYTE * Off]), k) = ByteOf(xb, k - Off)
<1>0. phase = "exec" /\ MemoryOp
  BY DEF Access, MemoryOp
<1>1. RV!i = i /\ RV!Offset = Off /\ RV!Bytes = Pow2[i.op % 4] /\ Off \in 0 .. 3
  BY <1>0, AccessIs
<1>2. regsDone[RV!i.rs2] = xb
  BY <1>0, Before
<1>3. StoreLanes = Off .. Off + Pow2[i.op % 4] - 1 /\ StoreLanes \subseteq Lanes
  BY StoreLanesAre
<1>4. RV!Stored = [k \in StoreLanes |-> ByteOf(xb, k - Off)]
  BY <1>1, <1>2, <1>3, SameArithmetic DEF RV!Stored
<1>5. ASSUME NEW k \in StoreLanes
      PROVE  ByteOf(Wrap(xb * Pow2[BYTE * Off]), k) = ByteOf(xb, k - Off)
  <2>1. Pow2[i.op % 4] \in Nat
    <3>1. i.op \in 0 .. 7
      BY Fields DEF IInv
    <3> QED
      BY <3>1, PowPositive
  <2>2. k \in 0 .. 3 /\ Off <= k
    BY <1>1, <1>3, <2>1 DEF Lanes
  <2>3. xb \in Word
    BY DEF IInv, Types
  <2> QED
    BY <1>1, <2>2, <2>3, StoreLane
<1> QED
  BY <1>4, <1>5

\* The first cycle of a store is that of RV32I, in memory and on peripherals.
LEMMA StoreStep ==
  ASSUME IInv, Straight, Access, i.opcode = "store"
  PROVE  RV!Store
<1> DEFINE target == (exec.n \div 4) % Pow2[addrW]
           wdata == Wrap(xb * Pow2[BYTE * Off])
           bytes == [k \in StoreLanes |-> ByteOf(xb, k - Off)]
<1>0. Types /\ InProgress
  BY DEF IInv
<1>1. /\ phase = "exec" /\ phase' = "wait" /\ instr' = instr /\ pc' = pc /\ MemoryOp
      /\ Registers(FALSE, 0, instr) /\ Bus(target, StoreLanes) /\ Execute(FALSE)
  BY DEF Access, MemoryOp
<1>2. regsDone = xregs /\ outDone = out
  BY <1>1, Before
<1>3. RV!i = i /\ RV!Cell = target /\ pcDone = pc /\ pc < CODE /\ pc \in Ram /\ next_pc = pc + 1
  BY <1>1, AccessIs
<1>4. RV!Stored = bytes /\ \A k \in StoreLanes : ByteOf(wdata, k) = ByteOf(xb, k - Off)
  BY BytesStored
<1>5. StoreLanes # {} /\ StoreLanes \subseteq Lanes
  BY StoreLanesAre
<1>6. target \in BusAddress
  BY <1>0, TargetInRange DEF Types
<1> HIDE DEF target, wdata
<1>7. prev' = [addr |-> target, lanes |-> StoreLanes, wdata |-> wdata]
  BY <1>0, <1>1, <1>6, BusGives DEF wdata
<1>8. out' = out
  BY <1>1, <1>2, Zenon DEF Bus, outDone
<1>9. outDone' = IF IsPeripheral(target) THEN Append(out, <<target, bytes>>) ELSE out
  <2>1. [k \in StoreLanes |-> ByteOf(wdata, k)] = bytes
    BY <1>4
  <2> HIDE DEF bytes
  <2>2. outDone' = IF IsPeripheral(target)
                   THEN Append(out, <<target, [k \in StoreLanes |-> ByteOf(wdata, k)]>>)
                   ELSE out
    BY <1>5, <1>7, <1>8 DEF outDone
  <2> QED
    BY <2>1, <2>2
<1>10. ASSUME IsPeripheral(target) PROVE ram' = ram
  BY <1>1, <1>10 DEF Bus
<1>11. ASSUME ~IsPeripheral(target)
       PROVE  ram' = [ram EXCEPT ![target] = WordOf([k \in 0 .. 3 |->
                        IF k \in DOMAIN bytes THEN bytes[k] ELSE ByteOf(ram[target], k)])]
  <2> DEFINE cell == target % Pow2[addrW - 1]
  <2>1. target \in Ram
    BY <1>6, <1>11, Addresses DEF BusAddress, IsPeripheral
  <2>2. cell = target
    BY <2>1, InRam
  <2>3. ram' = [ram EXCEPT ![cell] = WordOf([k \in Lanes |->
                  IF k \in StoreLanes THEN ByteOf(wdata, k) ELSE ByteOf(ram[cell], k)])]
    BY <1>1, <1>11, Zenon DEF Bus, wdata
  <2> HIDE DEF cell
  <2>4. [k \in Lanes |-> IF k \in StoreLanes THEN ByteOf(wdata, k) ELSE ByteOf(ram[cell], k)]
        = [k \in 0 .. 3 |-> IF k \in DOMAIN bytes THEN bytes[k] ELSE ByteOf(ram[target], k)]
    BY <1>4, <2>2 DEF Lanes
  <2> QED
    BY <2>2, <2>3, <2>4
<1>12. Decoded'
  BY <1>1, ExecuteGives
<1>13. i' = i
  BY <1>1 DEF i
<1>14. exec'.store /\ ~Computing'
  BY <1>1, <1>12, <1>13 DEF Decoded, Computing
<1>15. pcDone' = pcDone + 1
  <2>1. pcDone' = next_pc'
    BY <1>1, <1>14 DEF pcDone
  <2>2. next_pc' = next_pc
    BY <1>1 DEF next_pc
  <2> QED
    BY <1>3, <2>1, <2>2
<1>16. RV!Goto(RV!NextPc)
  BY <1>3, <1>15, GotoNext
<1>17. regsDone' = regsDone
  BY <1>1, <1>2, <1>14 DEF regsDone, Registers
<1>18. IF RV!IsPeripheral(RV!Cell)
       THEN outDone' = Append(outDone, <<RV!Cell, RV!Stored>>) /\ ram' = ram
       ELSE /\ ram' = [ram EXCEPT ![RV!Cell] = WordOf([k \in 0 .. 3 |->
                         IF k \in DOMAIN RV!Stored THEN RV!Stored[k]
                         ELSE ByteOf(ram[RV!Cell], k)])]
            /\ outDone' = outDone
  <2> HIDE DEF bytes
  <2> QED
    BY <1>2, <1>3, <1>4, <1>9, <1>10, <1>11, SameArithmetic
<1> QED
  BY <1>3, <1>16, <1>17, <1>18, SameArithmetic, Zenon DEF RV!Store

---------------------------------------------------------------------------
(* Every step.                                                             *)

\* Every step is an instruction of RV32I, or changes nothing that a program sees.
LEMMA StepSeen == LowCode /\ IInv /\ Straight /\ [Next]_vars => [RV!Next]_RV!vars
<1> SUFFICES ASSUME LowCode, IInv, Straight, [Next]_vars PROVE RV!Next \/ UNCHANGED Seen
  BY DEF Seen, RV!vars
<1>1. CASE UNCHANGED vars
  <2>1. /\ phase' = phase /\ instr' = instr /\ pc' = pc /\ xregs' = xregs /\ exec' = exec
        /\ shamt' = shamt /\ addr' = addr /\ ram' = ram /\ prev' = prev /\ out' = out
    BY <1>1 DEF vars
  <2>2. i' = i /\ next_pc' = next_pc /\ (Computing' <=> Computing)
    BY <2>1 DEF i, next_pc, Computing
  <2>3. AllBits(exec.r, shamt)' = AllBits(exec.r, shamt)
    BY <2>1, <2>2, AllBitsIs, AllBitsNext
  <2>4. write_back(0)' = write_back(0)
    BY <2>1, <2>2 DEF write_back, Loaded, Off
  <2>5. regsDone' = regsDone
    BY <2>1, <2>2, <2>3, <2>4 DEF regsDone
  <2>6. pcDone' = pcDone /\ outDone' = outDone
    BY <2>1, <2>2 DEF pcDone, outDone
  <2> QED
    BY <2>1, <2>5, <2>6 DEF Seen
<1>2. CASE Fetch
  BY <1>2, FetchSeen
<1>3. CASE Read
  BY <1>3, ReadSeen, ComputeStep
<1>4. CASE Access
  <2>1. i.opcode \in {"load", "store"}
    <3>1. InProgress /\ phase = "exec" /\ (exec.load \/ exec.store)
      BY <1>4 DEF IInv, Access
    <3> QED
      BY <3>1 DEF InProgress, Decoded
  <2> QED
    BY <1>4, <2>1, LoadSeen, StoreStep DEF RV!Next
<1>5. CASE Transaction
  <2>1. i.opcode \in {"load", "store"}
    <3>1. OnBus /\ phase = "wait"
      BY <1>5 DEF IInv, Transaction
    <3> QED
      BY <3>1 DEF OnBus, MemoryOp
  <2> QED
    BY <1>5, <2>1, StoreSeen, LoadStep DEF RV!Next
<1>6. CASE Commit
  BY <1>6, CommitSeen
<1> QED
  BY <1>1, <1>2, <1>3, <1>4, <1>5, <1>6 DEF Next

\* The start of a program.
LEMMA InitSeen == Init => RV!Init(ram)
<1> SUFFICES ASSUME Init PROVE RV!Init(ram)
  OBVIOUS
<1>1. phase = "fetch" /\ addr = 0 /\ xregs = [x \in Reg |-> 0] /\ out = <<>> /\ prev.lanes = {}
  BY DEF Init
<1>2. ~Computing
  BY <1>1 DEF Computing
<1>3. regsDone = [x \in Reg |-> 0] /\ pcDone = 0 /\ outDone = <<>>
  BY <1>1, <1>2 DEF regsDone, pcDone, outDone
<1> QED
  BY <1>3, SameArithmetic DEF RV!Init

\* IceV.md: "implements the RV32I specifications". Every program whose code is low
\* enough sees one instruction of RV32I after the other, for every memory, every answer
\* of the peripherals, every size of word and number of registers.
THEOREM ImplementsRv32 == LowCode => (Spec => ImplementsRiscV)
<1> SUFFICES ASSUME LowCode PROVE Spec => ImplementsRiscV
  OBVIOUS
<1>1. Init => IInv /\ Straight /\ RV!Init(ram)
  BY InitIInv, StraightInit, InitSeen
<1>2. IInv /\ Straight /\ [Next]_vars => IInv' /\ Straight'
  BY StepIInv, StraightStep
<1>3. IInv /\ Straight /\ [Next]_vars => [RV!Next]_RV!vars
  BY StepSeen
<1> QED
  BY <1>1, <1>2, <1>3, PTL DEF Spec, ImplementsRiscV, RV!Follows
=============================================================================
