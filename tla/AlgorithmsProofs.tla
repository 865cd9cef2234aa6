-------------------------- MODULE AlgorithmsProofs --------------------------
(***************************************************************************)
(* What the pure functions compute, for every value of the constants.      *)
(***************************************************************************)
EXTENDS Algorithms, WellFoundedInduction, FiniteSetTheorems, SequenceTheorems, TLAPS

-----------------------------------------------------------------------------
(* Induction over the naturals, on a set *)

\* A set of naturals has a least element.
LEMMA LeastOf ==
  ASSUME NEW S \in SUBSET Nat, S # {}
  PROVE  \E n \in S : \A k \in S : n <= k
<1> DEFINE T == {1..n : n \in S}
<1>1. T \subseteq FiniteSubsetsOf(Nat) /\ T # {}
  <2>1. ASSUME NEW n \in S PROVE IsFiniteSet(1..n) /\ 1..n \in SUBSET Nat
    BY FS_Interval
  <2> QED
    BY <2>1 DEF FiniteSubsetsOf
<1>2. PICK t \in T : \A u \in T : ~(<<u, t>> \in StrictSubsetOrdering(Nat))
  <2> HIDE DEF T
  <2>1. IsWellFoundedOn(StrictSubsetOrdering(Nat), FiniteSubsetsOf(Nat))
    BY FS_StrictSubsetOrderingWellFounded
  <2> QED
    BY <1>1, <2>1, WFMin
<1>3. PICK n \in S : t = 1..n
  OBVIOUS
<1>4. ASSUME NEW k \in S, k < n PROVE FALSE
  <2>1. /\ 1..k \in SUBSET Nat /\ 1..n \in SUBSET Nat /\ 1..k \subseteq 1..n
        /\ n \in 1..n /\ n \notin 1..k
    BY <1>4
  <2>2. <<1..k, 1..n>> \in StrictSubsetOrdering(Nat)
    BY <2>1 DEF StrictSubsetOrdering
  <2> QED
    BY <1>2, <1>3, <2>2
<1> QED
  BY <1>4

\* A set of naturals that holds 0 and every successor holds them all.
LEMMA NatInduct ==
  ASSUME NEW P \in SUBSET Nat, 0 \in P, \A n \in P : n + 1 \in P
  PROVE  P = Nat
<1> DEFINE bad == Nat \ P
<1> SUFFICES ASSUME bad # {} PROVE FALSE
  OBVIOUS
<1>1. PICK m \in bad : \A k \in bad : m <= k
  BY LeastOf
<1>2. m - 1 \in P /\ m - 1 + 1 = m
  BY <1>1
<1> QED
  BY <1>1, <1>2

\* The same up to a bound.
LEMMA NatInductTo ==
  ASSUME NEW N \in Nat, NEW P, 0 \in P, \A n \in 0..(N - 1) : n \in P => n + 1 \in P
  PROVE  \A n \in 0..N : n \in P
<1> DEFINE Q == {n \in Nat : n <= N => n \in P}
<1>1. 0 \in Q
  OBVIOUS
<1>2. \A n \in Q : n + 1 \in Q
  OBVIOUS
<1>3. Q \in SUBSET Nat
  OBVIOUS
<1>4. Q = Nat
  <2> HIDE DEF Q
  <2> QED
    BY <1>1, <1>2, <1>3, NatInduct
<1> QED
  BY <1>4

-----------------------------------------------------------------------------
(* Products and quotients *)

\* Products of naturals.
LEMMA Product ==
  ASSUME NEW a \in Nat, NEW b \in Nat
  PROVE  a * b \in Nat
OBVIOUS

LEMMA ProductGrows ==
  ASSUME NEW a \in Nat, NEW b \in Nat, NEW c \in Nat, a <= b
  PROVE  a * c <= b * c /\ c * a <= c * b
OBVIOUS

LEMMA ProductStrict ==
  ASSUME NEW a \in Nat, NEW b \in Nat, NEW c \in Nat, c * a < c * b
  PROVE  a < b
OBVIOUS

\* The quotient of naturals, and the only one.
LEMMA Divided ==
  ASSUME NEW a \in Nat, NEW b \in Nat, b > 0
  PROVE  /\ a \div b \in Nat /\ a % b \in 0..(b - 1)
         /\ a = b * (a \div b) + (a % b)
         /\ b * (a \div b) <= a /\ a < b * (a \div b) + b
<1>1. a \div b \in Nat
  OBVIOUS
<1>2. a % b \in 0..(b - 1)
  OBVIOUS
<1>3. a = b * (a \div b) + (a % b)
  OBVIOUS
<1> QED
  BY <1>1, <1>2, <1>3

LEMMA DividesOnce ==
  ASSUME NEW a \in Nat, NEW b \in Nat, b > 0, NEW q \in Nat, b * q <= a, a < b * q + b
  PROVE  a \div b = q
<1>1. /\ a \div b \in Nat /\ b * (a \div b) <= a /\ a < b * (a \div b) + b
  BY Divided
<1>2. PICK d \in Nat : d = a \div b
  BY <1>1
<1>3. b * (d + 1) = b * d + b /\ b * (q + 1) = b * q + b
  OBVIOUS
<1>4. b * d < b * (q + 1) /\ b * q < b * (d + 1)
  BY <1>1, <1>2, <1>3
<1>5. d < q + 1 /\ q < d + 1
  BY <1>4, ProductStrict
<1> QED
  BY <1>2, <1>5

LEMMA DividedGrows ==
  ASSUME NEW a \in Nat, NEW c \in Nat, a <= c, NEW b \in Nat, b > 0
  PROVE  a \div b <= c \div b
<1>1. PICK d \in Nat : d = a \div b /\ b * d <= a /\ a < b * d + b
  BY Divided
<1>2. PICK e \in Nat : e = c \div b /\ b * e <= c /\ c < b * e + b
  BY Divided
<1>3. b * d < b * (e + 1)
  <2>1. b * (e + 1) = b * e + b
    OBVIOUS
  <2> QED
    BY <1>1, <1>2, <2>1
<1>4. d < e + 1
  BY <1>3, ProductStrict
<1> QED
  BY <1>1, <1>2, <1>4

LEMMA DividedTwice ==
  ASSUME NEW a \in Nat, NEW b \in Nat, b > 0, NEW c \in Nat, c > 0
  PROVE  (a \div b) \div c = a \div (b * c)
<1>1. PICK d \in Nat : d = a \div b /\ b * d <= a /\ a < b * d + b
  BY Divided
<1>2. PICK e \in Nat : e = d \div c /\ c * e <= d /\ d < c * e + c
  BY Divided
<1>3. b * c \in Nat /\ b * c > 0 /\ (b * c) * e \in Nat
  OBVIOUS
<1>4. (b * c) * e <= a
  <2>1. b * (c * e) <= b * d
    BY <1>2, ProductGrows
  <2>2. b * (c * e) = (b * c) * e
    OBVIOUS
  <2> QED
    BY <1>1, <2>1, <2>2
<1>5. a < (b * c) * e + b * c
  <2>1. d + 1 <= c * (e + 1)
    <3>1. c * (e + 1) = c * e + c
      OBVIOUS
    <3> QED
      BY <1>2, <3>1
  <2>2. b * (d + 1) <= b * (c * (e + 1))
    BY <2>1, ProductGrows
  <2>3. b * (d + 1) = b * d + b /\ b * (c * (e + 1)) = (b * c) * e + b * c
    OBVIOUS
  <2> QED
    BY <1>1, <2>2, <2>3
<1>6. a \div (b * c) = e
  BY <1>3, <1>4, <1>5, DividesOnce
<1> QED
  BY <1>1, <1>2, <1>6

LEMMA DividesProduct ==
  ASSUME NEW q \in Nat, NEW b \in Nat, b > 0, NEW r \in Nat, r < b
  PROVE  (q * b + r) \div b = q /\ (q * b + r) % b = r
<1>1. q * b + r \in Nat /\ b * q = q * b
  OBVIOUS
<1>2. (q * b + r) \div b = q
  BY <1>1, DividesOnce
<1>3. q * b + r = b * ((q * b + r) \div b) + ((q * b + r) % b)
  BY <1>1, Divided
<1>4. (q * b + r) % b \in Nat
  BY <1>1
<1> QED
  BY <1>1, <1>2, <1>3, <1>4

LEMMA DividedLess ==
  ASSUME NEW a \in Nat, NEW b \in Nat, b > 0, NEW c \in Nat
  PROVE  a < b * c <=> a \div b < c
<1>1. PICK d \in Nat : d = a \div b /\ b * d <= a /\ a < b * d + b
  BY Divided
<1>2. ASSUME a < b * c PROVE d < c
  <2>1. b * d < b * c
    BY <1>1, <1>2
  <2> QED
    BY <2>1, ProductStrict
<1>3. ASSUME d < c PROVE a < b * c
  <2>1. b * (d + 1) <= b * c
    BY <1>3, ProductGrows
  <2>2. b * (d + 1) = b * d + b
    OBVIOUS
  <2> QED
    BY <1>1, <2>1, <2>2
<1> QED
  BY <1>1, <1>2, <1>3

-----------------------------------------------------------------------------
(* Powers *)

\* The powers of a base up to n, each from the one before.
Raises(f, b, n) == f = [k \in 0..n |-> IF k = 0 THEN 1 ELSE b * f[k - 1]]

LEMMA PowerRaises ==
  ASSUME NEW b, NEW n \in Nat
  PROVE  \E f : Raises(f, b, n) /\ Pow!Power(b, n) = f[n]
<1> DEFINE P == {m \in Nat : \E f : Raises(f, b, m)}
<1>1. 0 \in P
  <2>1. Raises([k \in 0..0 |-> 1], b, 0)
    BY DEF Raises
  <2> QED
    BY <2>1
<1>2. ASSUME NEW m \in P PROVE m + 1 \in P
  <2>1. PICK f : Raises(f, b, m)
    OBVIOUS
  <2> DEFINE g == [k \in 0..(m + 1) |-> IF k <= m THEN f[k] ELSE b * f[m]]
  <2>2. \A k \in 0..(m + 1) : g[k] = IF k = 0 THEN 1 ELSE b * g[k - 1]
    BY <2>1 DEF Raises
  <2>3. Raises(g, b, m + 1)
    BY <2>2 DEF Raises
  <2> HIDE DEF g
  <2> QED
    BY <2>3
<1>3. n \in P
  <2> HIDE DEF P
  <2>1. P \in SUBSET Nat
    BY DEF P
  <2> QED
    BY <1>1, <1>2, <2>1, NatInduct
<1> DEFINE f == CHOOSE f : Raises(f, b, n)
<1>4. Raises(f, b, n)
  BY <1>3
<1>5. Pow!Power(b, n) = f[n]
  BY DEF Pow!Power, Raises
<1> QED
  BY <1>4, <1>5

LEMMA PowerSteps ==
  ASSUME NEW b, NEW n \in Nat
  PROVE  Pow!Power(b, 0) = 1 /\ Pow!Power(b, n + 1) = b * Pow!Power(b, n)
<1>1. Pow!Power(b, 0) = 1
  BY PowerRaises DEF Raises
<1>2. PICK f : Raises(f, b, n) /\ Pow!Power(b, n) = f[n]
  BY PowerRaises
<1>3. PICK g : Raises(g, b, n + 1) /\ Pow!Power(b, n + 1) = g[n + 1]
  BY PowerRaises
<1> DEFINE P == {i \in Nat : i <= n => f[i] = g[i]}
<1>4. 0 \in P
  BY <1>2, <1>3 DEF Raises
<1>5. ASSUME NEW i \in P PROVE i + 1 \in P
  BY <1>2, <1>3 DEF Raises
<1>6. P = Nat
  <2> HIDE DEF P
  <2>1. P \in SUBSET Nat
    BY DEF P
  <2> QED
    BY <1>4, <1>5, <2>1, NatInduct
<1>7. f[n] = g[n]
  BY <1>6
<1>8. \A i \in 0..(n + 1) : g[i] = IF i = 0 THEN 1 ELSE b * g[i - 1]
  BY <1>3 DEF Raises
<1>9. g[n + 1] = b * g[n]
  BY <1>8
<1> QED
  BY <1>1, <1>2, <1>3, <1>7, <1>9

LEMMA PowerPositive ==
  ASSUME NEW b \in Nat, b > 0, NEW n \in Nat
  PROVE  Pow!Power(b, n) \in Nat /\ Pow!Power(b, n) > 0
<1> DEFINE P == {k \in Nat : Pow!Power(b, k) \in Nat /\ Pow!Power(b, k) > 0}
<1>1. 0 \in P
  BY PowerSteps
<1>2. ASSUME NEW k \in P PROVE k + 1 \in P
  <2>1. Pow!Power(b, k + 1) = b * Pow!Power(b, k)
    BY PowerSteps
  <2>2. PICK x \in Nat : x = Pow!Power(b, k) /\ x > 0
    OBVIOUS
  <2>3. b * x \in Nat /\ b * x > 0
    BY <2>2
  <2> QED
    BY <2>1, <2>2, <2>3
<1>3. P \in SUBSET Nat
  OBVIOUS
<1>4. P = Nat
  <2> HIDE DEF P
  <2> QED
    BY <1>1, <1>2, <1>3, NatInduct
<1> QED
  BY <1>4

\* A power of a sum is the product of the powers.
LEMMA PowerAdds ==
  ASSUME NEW b \in Nat, b > 0, NEW m \in Nat, NEW n \in Nat
  PROVE  Pow!Power(b, m + n) = Pow!Power(b, m) * Pow!Power(b, n)
<1> DEFINE P == {k \in Nat : Pow!Power(b, m + k) = Pow!Power(b, m) * Pow!Power(b, k)}
<1>1. 0 \in P
  <2>1. m + 0 = m /\ Pow!Power(b, 0) = 1 /\ Pow!Power(b, m) \in Nat
    BY PowerSteps, PowerPositive
  <2> QED
    BY <2>1
<1>2. ASSUME NEW k \in P PROVE k + 1 \in P
  <2>1. m + k \in Nat /\ m + (k + 1) = (m + k) + 1
    OBVIOUS
  <2>2. /\ Pow!Power(b, (m + k) + 1) = b * Pow!Power(b, m + k)
        /\ Pow!Power(b, k + 1) = b * Pow!Power(b, k)
    BY <2>1, PowerSteps
  <2>3. PICK x \in Nat : x = Pow!Power(b, m)
    BY PowerPositive
  <2>4. PICK y \in Nat : y = Pow!Power(b, k)
    BY PowerPositive
  <2>5. b * (x * y) = x * (b * y)
    OBVIOUS
  <2> QED
    BY <2>1, <2>2, <2>3, <2>4, <2>5
<1>3. P \in SUBSET Nat
  OBVIOUS
<1>4. P = Nat
  <2> HIDE DEF P
  <2> QED
    BY <1>1, <1>2, <1>3, NatInduct
<1> QED
  BY <1>4

\* Powers grow.
LEMMA PowerGrows ==
  ASSUME NEW b \in Nat, b > 0, NEW m \in Nat, NEW n \in Nat, m <= n
  PROVE  Pow!Power(b, m) <= Pow!Power(b, n)
<1>1. n - m \in Nat /\ m + (n - m) = n
  OBVIOUS
<1>2. PICK x \in Nat : x = Pow!Power(b, m)
  BY PowerPositive
<1>3. PICK y \in Nat : y = Pow!Power(b, n - m) /\ y > 0
  BY <1>1, PowerPositive
<1>4. Pow!Power(b, n) = x * y
  BY <1>1, <1>2, <1>3, PowerAdds
<1>5. x * 1 <= x * y
  BY <1>3, ProductGrows
<1> QED
  BY <1>2, <1>4, <1>5

-----------------------------------------------------------------------------
(* Targets *)

Digit(n) == Pow!Power(Radix, n)

\* A power of the base is positive; a sum of exponents is a product.
LEMMA DigitsAdd ==
  ASSUME NEW m \in Nat, NEW n \in Nat
  PROVE  /\ Digit(m) \in Nat /\ Digit(m) > 0
         /\ Digit(m + n) = Digit(m) * Digit(n)
         /\ m <= n => Digit(m) <= Digit(n)
<1>1. Radix \in Nat /\ Radix > 0
  BY TargetsAssumption
<1> QED
  BY <1>1, PowerPositive, PowerAdds, PowerGrows DEF Digit

\* The sign bit is the upper half of the mantissas (pow.c:115, 131).
LEMMA Scales ==
  \E h \in Nat :
    /\ h > 0 /\ Radix = 2 * h /\ Radix \in Nat /\ Radix > 0
    /\ Digit(0) = 1 /\ Digit(1) = Radix /\ Digit(2) = Radix * Radix
    /\ Pow!Mantissas = Digit(3) /\ Digit(3) = Radix * Digit(2)
    /\ Pow!SignBit \in Nat /\ Pow!SignBit = h * Digit(2) /\ Pow!SignBit >= Digit(2)
    /\ Digit(3) = 2 * Pow!SignBit
<1>1. Radix \in Nat /\ Radix > 0 /\ Radix % 2 = 0
  BY TargetsAssumption
<1>2. PICK h \in Nat : h > 0 /\ Radix = 2 * h
  <2>1. Radix \div 2 \in Nat /\ Radix = 2 * (Radix \div 2) + (Radix % 2)
    BY <1>1
  <2> QED
    BY <1>1, <2>1
<1>3. Digit(0) = 1 /\ Digit(0 + 1) = Radix * Digit(0) /\ Digit(1 + 1) = Radix * Digit(1)
      /\ Digit(2 + 1) = Radix * Digit(2)
  BY PowerSteps DEF Digit
<1>4. Digit(1) = Radix
  BY <1>1, <1>3
<1>5. Digit(2) = Radix * Radix
  BY <1>1, <1>3, <1>4
<1>6. PICK x \in Nat : x = Digit(2) /\ x > 0
  BY DigitsAdd
<1>7. Digit(3) = Radix * x
  BY <1>3, <1>6
<1>8. h * x \in Nat /\ Radix * x = 2 * (h * x) /\ h * x >= x
  <2>1. 1 * x <= h * x
    BY <1>2, ProductGrows
  <2>2. (2 * h) * x = 2 * (h * x)
    OBVIOUS
  <2> QED
    BY <1>2, <1>6, <2>1, <2>2
<1>9. Pow!SignBit = h * x
  <2>1. PICK y \in Nat : y = h * x
    BY <1>8
  <2>2. (2 * y) \div 2 = y
    OBVIOUS
  <2> QED
    BY <1>7, <1>8, <2>1, <2>2 DEF Pow!SignBit, Pow!Mantissas, Digit
<1>10. Pow!Mantissas = Digit(3)
  BY DEF Pow!Mantissas, Digit
<1> QED
  BY <1>1, <1>2, <1>3, <1>4, <1>5, <1>6, <1>7, <1>8, <1>9, <1>10

\* Half of the largest number: no target reaches it.
HalfTop == Pow!SignBit * Digit(Digits - 3)

LEMMA Halves ==
  HalfTop \in Nat /\ HalfTop > 0 /\ Pow!Top \in Nat /\ Pow!Top = 2 * HalfTop
<1>1. Digits \in Nat /\ Digits - 3 \in Nat /\ 3 + (Digits - 3) = Digits
  BY TargetsAssumption
<1>2. PICK s \in Nat : s = Pow!SignBit /\ s > 0 /\ Digit(3) = 2 * s
  <2>1. Digit(2) \in Nat /\ Digit(2) > 0
    BY DigitsAdd
  <2> QED
    BY <2>1, Scales
<1>3. PICK x \in Nat : x = Digit(Digits - 3) /\ x > 0
  BY <1>1, DigitsAdd
<1>4. Digit(Digits) = Digit(3) * x
  BY <1>1, <1>3, DigitsAdd
<1>5. (2 * s) * x = 2 * (s * x) /\ s * x \in Nat /\ s * x > 0
  BY <1>2, <1>3
<1> QED
  BY <1>2, <1>3, <1>4, <1>5 DEF HalfTop, Pow!Top, Digit

\* A compact target of this many digits and this mantissa (pow.c:111-122).
LEMMA Decodes ==
  ASSUME NEW size \in Nat, NEW mant \in Nat, mant < Digit(3)
  PROVE  Pow!BitsToTarget(size * Pow!Mantissas + mant) =
           IF mant >= Pow!SignBit \/ size > Digits THEN 0
           ELSE (IF size < 3 THEN mant \div Digit(3 - size) ELSE mant)
                  * Digit((IF size < 3 THEN 3 ELSE size) - 3)
<1>1. PICK m \in Nat : m = Digit(3) /\ m > 0
  BY DigitsAdd
<1>2. Pow!Mantissas = m
  BY <1>1 DEF Pow!Mantissas, Digit
<1>3. (size * m + mant) \div m = size /\ (size * m + mant) % m = mant
  BY <1>1, DividesProduct
<1> QED
  BY <1>2, <1>3, Zenon DEF Pow!BitsToTarget, Digit

\* One of at most three digits, with q to spare in its mantissa.
LEMMA DecodesSmall ==
  ASSUME NEW size \in Nat, NEW q \in Nat, size + q = 3, NEW mant \in Nat, mant < Pow!SignBit
  PROVE  Pow!BitsToTarget(size * Pow!Mantissas + mant) = mant \div Digit(q)
<1>1. Digits \in Nat /\ Digits >= 3 /\ q = 3 - size /\ size <= 3
  BY TargetsAssumption
<1>2. mant < Digit(3) /\ ~(mant >= Pow!SignBit \/ size > Digits)
  BY <1>1, Scales
<1>3. Pow!BitsToTarget(size * Pow!Mantissas + mant) =
        (IF size < 3 THEN mant \div Digit(3 - size) ELSE mant)
          * Digit((IF size < 3 THEN 3 ELSE size) - 3)
  BY <1>2, Decodes
<1>4. (IF size < 3 THEN 3 ELSE size) - 3 = 0
  BY <1>1
<1>5. PICK y \in Nat : y = Digit(q) /\ y > 0
  BY DigitsAdd
<1>6. (IF size < 3 THEN mant \div Digit(3 - size) ELSE mant) = mant \div y
  <2>1. CASE size < 3
    BY <1>1, <1>5, <2>1
  <2>2. CASE size = 3
    <3>1. q = 0 /\ Digit(0) = 1
      BY <1>1, <2>2, Scales
    <3> QED
      BY <1>5, <2>2, <3>1
  <2> QED
    BY <1>1, <2>1, <2>2
<1>7. (mant \div y) \in Nat /\ Digit(0) = 1
  BY <1>5, Scales
<1>8. PICK z \in Nat : z = mant \div y
  BY <1>7
<1>9. z * 1 = z
  OBVIOUS
<1> QED
  BY <1>3, <1>4, <1>5, <1>6, <1>7, <1>8, <1>9, Zenon

\* A target is a mantissa without its sign bit, shifted by whole digits.
LEMMA TargetIs ==
  ASSUME NEW bits \in Nat
  PROVE  /\ Pow!BitsToTarget(bits) \in Nat
         /\ Pow!BitsToTarget(bits) < HalfTop
         /\ \E low \in Nat, k \in 0..(Digits - 3) :
              low < Pow!SignBit /\ Pow!BitsToTarget(bits) = low * Digit(k)
<1>1. PICK m \in Nat : m = Digit(3) /\ m > 0
  BY DigitsAdd
<1>2. Pow!Mantissas = m
  BY <1>1 DEF Pow!Mantissas, Digit
<1>3. PICK size \in Nat : size = bits \div m
  BY <1>1
<1>4. PICK mant \in Nat : mant = bits % m /\ mant < m
  BY <1>1
<1>5. bits = size * m + mant
  <2>1. bits = m * (bits \div m) + (bits % m)
    BY <1>1, Divided
  <2>2. m * size = size * m
    OBVIOUS
  <2> QED
    BY <1>3, <1>4, <2>1, <2>2
<1> DEFINE low == IF size < 3 THEN mant \div Digit(3 - size) ELSE mant
           k == (IF size < 3 THEN 3 ELSE size) - 3
           t == Pow!BitsToTarget(bits)
<1>6. t = IF mant >= Pow!SignBit \/ size > Digits THEN 0 ELSE low * Digit(k)
  BY <1>1, <1>2, <1>4, <1>5, Decodes
<1>7. Digits \in Nat /\ Digits >= 3
  BY TargetsAssumption
<1>8. low \in Nat /\ low <= mant
  <2>1. CASE size < 3
    <3>1. PICK x \in Nat : x = Digit(3 - size) /\ x > 0
      <4>1. 3 - size \in Nat
        BY <2>1
      <4> QED
        BY <4>1, DigitsAdd
    <3>2. PICK d \in Nat : d = mant \div x /\ x * d <= mant
      BY <3>1, Divided
    <3>3. 1 * d <= x * d
      BY <3>1, ProductGrows
    <3> QED
      BY <2>1, <3>1, <3>2, <3>3
  <2> QED
    BY <2>1
<1>9. size <= Digits => k \in 0..(Digits - 3)
  BY <1>7
<1>10. PICK s \in Nat : s = Pow!SignBit /\ s > 0
  <2>1. Digit(2) \in Nat /\ Digit(2) > 0
    BY DigitsAdd
  <2> QED
    BY <2>1, Scales
<1> HIDE DEF low, k, t
<1>11. CASE mant >= Pow!SignBit \/ size > Digits
  <2>1. t = 0 * Digit(0) /\ t = 0
    <3>1. t = 0 /\ Digit(0) \in Nat
      BY <1>6, <1>11, DigitsAdd
    <3> QED
      BY <3>1
  <2>2. 0 < HalfTop /\ 0 < Pow!SignBit /\ 0 \in 0..(Digits - 3)
    BY <1>7, <1>10, Halves
  <2> QED
    BY <2>1, <2>2 DEF t
<1>12. CASE ~(mant >= Pow!SignBit \/ size > Digits)
  <2>1. t = low * Digit(k) /\ k \in 0..(Digits - 3) /\ low < s
    <3>1. mant < s /\ size <= Digits
      BY <1>7, <1>10, <1>12
    <3>2. low < s
      BY <1>8, <3>1
    <3> QED
      BY <1>6, <1>9, <1>12, <3>1, <3>2
  <2>2. Digits - 3 \in Nat /\ k \in Nat /\ k <= Digits - 3
    BY <1>7, <2>1
  <2>3. PICK x \in Nat : x = Digit(k) /\ x > 0
    BY <2>2, DigitsAdd
  <2>4. PICK y \in Nat : y = Digit(Digits - 3) /\ x <= y
    <3>1. PICK d \in Nat : d = Digits - 3
      BY <2>2
    <3>2. Digit(d) \in Nat /\ Digit(k) <= Digit(d)
      BY <2>2, <3>1, DigitsAdd
    <3> QED
      BY <2>3, <3>1, <3>2
  <2>5. low * x <= low * y
    BY <1>8, <2>4, ProductGrows
  <2>6. low * y < s * y
    <3>1. (low + 1) * y <= s * y
      BY <1>8, <2>1, ProductGrows
    <3>2. (low + 1) * y = low * y + y
      BY <1>8
    <3>3. low * y \in Nat /\ s * y \in Nat
      BY <1>8
    <3> QED
      BY <2>3, <2>4, <3>1, <3>2, <3>3
  <2>7. low * x \in Nat /\ low * y \in Nat /\ s * y \in Nat
    BY <1>8
  <2>8. t \in Nat /\ t < s * y
    BY <2>1, <2>3, <2>5, <2>6, <2>7
  <2>9. HalfTop = s * y
    BY <1>10, <2>4 DEF HalfTop
  <2> QED
    BY <1>8, <1>10, <2>1, <2>8, <2>9 DEF t
<1> QED
  BY <1>11, <1>12

\* The digits of a number, counted from the first that is not 0 (pow.c:124-126).
LEMMA SizeIs ==
  ASSUME NEW n \in Nat, n > 0, n < HalfTop
  PROVE  \E s \in Nat : /\ s = Pow!Size(n) /\ 1 <= s /\ s <= Digits
                        /\ n < Digit(s) /\ Digit(s - 1) <= n
<1> DEFINE S == {j \in Nat : n < Digit(j)}
           Sized(s) == n < Digit(s) /\ (s = 0 \/ n >= Digit(s - 1))
<1>1. Digits \in S /\ Digits \in Nat
  <2>1. n < Pow!Top /\ Digits \in Nat
    BY Halves, TargetsAssumption
  <2> QED
    BY <2>1 DEF Pow!Top, Digit
<1>2. PICK s \in S : \A j \in S : s <= j
  <2>1. S # {} /\ S \in SUBSET Nat
    BY <1>1
  <2> HIDE DEF S
  <2> QED
    BY <2>1, LeastOf
<1>3. s \in Nat /\ s <= Digits /\ n < Digit(s)
  BY <1>1, <1>2
<1>4. s # 0
  <2>1. Digit(0) = 1
    BY Scales
  <2> QED
    BY <1>3, <2>1
<1>5. Digit(s - 1) <= n
  <2>1. s - 1 \in Nat /\ ~(s <= s - 1)
    BY <1>3, <1>4
  <2>2. s - 1 \notin S
    BY <1>2, <2>1
  <2>3. PICK x \in Nat : x = Digit(s - 1)
    BY <2>1, DigitsAdd
  <2> QED
    BY <2>1, <2>2, <2>3
<1>6. Sized(s) /\ s \in 0..Digits
  BY <1>1, <1>3, <1>5
<1>7. Pow!Size(n) = CHOOSE j \in 0..Digits : Sized(j)
  BY DEF Pow!Size, Digit
<1> DEFINE c == CHOOSE j \in 0..Digits : Sized(j)
<1>8. c \in 0..Digits /\ Sized(c)
  <2> HIDE DEF Sized
  <2> QED
    BY <1>6
<1> HIDE DEF c
<1>9. c # 0
  <2>1. Digit(0) = 1
    BY Scales
  <2> QED
    BY <1>8, <2>1
<1> QED
  BY <1>1, <1>7, <1>8, <1>9 DEF c

\* A target through its compact form.
Rounded(n) == Pow!BitsToTarget(Pow!TargetToBits(n))

\* The digits that a compact form loses: those that do not fit beside the sign bit.
Lost(n, e) ==
  /\ e \in Nat /\ e <= Digits - 3
  /\ n < Pow!SignBit * Digit(e)
  /\ e = 0 \/ n >= Pow!SignBit * Digit(e - 1)

LEMMA RoundsSmall ==
  ASSUME NEW n \in Nat, n > 0, n < HalfTop, Pow!Size(n) < 3
  PROVE  Lost(n, 0) /\ Rounded(n) = n
<1>1. PICK s \in Nat : /\ s = Pow!Size(n) /\ 1 <= s /\ s <= Digits
                       /\ n < Digit(s) /\ Digit(s - 1) <= n
  BY SizeIs
<1>2. PICK b \in Nat : b = Radix /\ b > 0
  BY Scales
<1>3. Digit(0) = 1 /\ Digit(1) = b /\ Digit(2) = b * b /\ Digit(3) = b * (b * b)
  BY <1>2, Scales
<1>4. PICK h \in Nat : h = Pow!SignBit /\ h >= b * b /\ Digits >= 3 /\ Digits \in Nat
  BY <1>3, Scales, TargetsAssumption
<1>5. b * b \in Nat /\ b * b > 0 /\ b * (b * b) \in Nat /\ n * b \in Nat /\ n * (b * b) \in Nat
  BY <1>2
<1>6. n < h
  <2>1. s = 1 \/ s = 2
    BY <1>1
  <2>2. b <= b * b
    <3>1. 1 * b <= b * b
      BY <1>2, ProductGrows
    <3> QED
      BY <3>1
  <2> QED
    BY <1>5, <1>1, <1>3, <1>4, <2>1, <2>2
<1>7. Lost(n, 0)
  <2>1. h * 1 = h /\ 0 <= Digits - 3
    BY <1>4
  <2> QED
    BY <1>3, <1>4, <1>6, <2>1 DEF Lost
<1>8. CASE s = 1
  <2>1. n < b /\ Digit(3 - s) = b * b
    BY <1>1, <1>3, <1>8
  <2> DEFINE mant == n * (b * b)
  <2>2. mant < Digit(3) /\ mant \in Nat
    <3>1. (n + 1) * (b * b) <= b * (b * b)
      BY <1>5, <2>1, ProductGrows
    <3>2. (n + 1) * (b * b) = n * (b * b) + b * b
      OBVIOUS
    <3> QED
      BY <1>5, <1>3, <3>1, <3>2
  <2>3. CASE mant < Pow!SignBit
    <3>1. Pow!TargetToBits(n) = 1 * Pow!Mantissas + mant
      BY <1>1, <1>8, <2>1, <2>3, <1>4, <2>2 DEF Pow!TargetToBits, Digit
    <3>2. Pow!BitsToTarget(1 * Pow!Mantissas + mant) = mant \div (b * b)
      <4>1. 1 \in Nat /\ 2 \in Nat /\ 1 + 2 = 3
        OBVIOUS
      <4> HIDE DEF mant
      <4>2. Pow!BitsToTarget(1 * Pow!Mantissas + mant) = mant \div Digit(2)
        BY <2>2, <2>3, <4>1, DecodesSmall
      <4> QED
        BY <1>3, <4>2, Zenon
    <3>3. mant \div (b * b) = n
      <4>1. (n * (b * b) + 0) \div (b * b) = n
        BY <1>5, DividesProduct
      <4> QED
        BY <1>5, <4>1
    <3> QED
      BY <3>1, <3>2, <3>3, <1>7, Zenon DEF Rounded
  <2>4. CASE ~(mant < Pow!SignBit)
    <3>1. mant \div b = n * b
      <4>1. ((n * b) * b + 0) \div b = n * b
        BY <1>5, <1>2, DividesProduct
      <4>2. (n * b) * b + 0 = n * (b * b)
        BY <1>5
      <4> QED
        BY <4>1, <4>2
    <3>2. Pow!TargetToBits(n) = 2 * Pow!Mantissas + n * b
      <4>1. mant >= Pow!SignBit
        BY <1>4, <2>2, <2>4
      <4>2. Pow!TargetToBits(n) = (1 + 1) * Pow!Mantissas + mant \div Radix
        BY <1>1, <1>8, <2>1, <4>1 DEF Pow!TargetToBits, Digit
      <4> HIDE DEF mant
      <4> QED
        BY <1>2, <3>1, <4>2
    <3>3. n * b < b * b
      <4>1. (n + 1) * b <= b * b
        BY <2>1, ProductGrows
      <4>2. (n + 1) * b = n * b + b
        OBVIOUS
      <4> QED
        BY <1>5, <1>2, <4>1, <4>2
    <3>4. Pow!BitsToTarget(2 * Pow!Mantissas + n * b) = (n * b) \div b
      <4>1. PICK m \in Nat : m = n * b
        BY <1>5
      <4>2. m < Pow!SignBit /\ 2 \in Nat /\ 1 \in Nat /\ 2 + 1 = 3
        BY <1>5, <1>4, <3>3, <4>1
      <4>3. Pow!BitsToTarget(2 * Pow!Mantissas + m) = m \div Digit(1)
        BY <4>2, DecodesSmall
      <4> QED
        BY <1>3, <4>1, <4>3, Zenon
    <3>5. (n * b) \div b = n
      <4>1. (n * b + 0) \div b = n
        BY <1>2, DividesProduct
      <4> QED
        BY <1>5, <4>1
    <3> QED
      BY <3>2, <3>4, <3>5, <1>7, Zenon DEF Rounded
  <2> QED
    BY <2>3, <2>4
<1>9. CASE s = 2
  <2>1. n < b * b /\ Digit(3 - s) = b
    BY <1>1, <1>3, <1>9
  <2> DEFINE mant == n * b
  <2>2. mant < Digit(3) /\ mant \in Nat
    <3>1. (n + 1) * b <= (b * b) * b
      BY <1>5, <2>1, ProductGrows
    <3>2. (n + 1) * b = n * b + b /\ (b * b) * b = b * (b * b)
      OBVIOUS
    <3> QED
      BY <1>5, <1>2, <1>3, <3>1, <3>2
  <2>5. mant \div b = n
    <3>1. (n * b + 0) \div b = n
      BY <1>2, DividesProduct
    <3> QED
      BY <1>5, <3>1
  <2>3. CASE mant < Pow!SignBit
    <3>1. Pow!TargetToBits(n) = 2 * Pow!Mantissas + mant
      BY <1>1, <1>9, <2>1, <2>3, <1>4, <2>2 DEF Pow!TargetToBits, Digit
    <3>2. Pow!BitsToTarget(2 * Pow!Mantissas + mant) = mant \div b
      <4>1. 2 \in Nat /\ 1 \in Nat /\ 2 + 1 = 3
        OBVIOUS
      <4> HIDE DEF mant
      <4>2. Pow!BitsToTarget(2 * Pow!Mantissas + mant) = mant \div Digit(1)
        BY <2>2, <2>3, <4>1, DecodesSmall
      <4> QED
        BY <1>3, <4>2, Zenon
    <3> HIDE DEF mant
    <3> QED
      BY <2>5, <3>1, <3>2, <1>7, Zenon DEF Rounded
  <2>4. CASE ~(mant < Pow!SignBit)
    <3>1. Pow!TargetToBits(n) = 3 * Pow!Mantissas + n
      <4>1. mant >= Pow!SignBit
        BY <1>4, <2>2, <2>4
      <4>2. Pow!TargetToBits(n) = (2 + 1) * Pow!Mantissas + mant \div Radix
        BY <1>1, <1>9, <2>1, <4>1 DEF Pow!TargetToBits, Digit
      <4> HIDE DEF mant
      <4> QED
        BY <1>2, <2>5, <4>2
    <3>2. Pow!BitsToTarget(3 * Pow!Mantissas + n) = n
      <4>1. 3 \in Nat /\ 0 \in Nat /\ 3 + 0 = 3 /\ n < Pow!SignBit
        BY <1>4, <1>6
      <4>2. Pow!BitsToTarget(3 * Pow!Mantissas + n) = n \div Digit(0)
        BY <4>1, DecodesSmall
      <4>3. n \div 1 = n
        OBVIOUS
      <4> QED
        BY <1>3, <4>2, <4>3, Zenon
    <3> QED
      BY <3>1, <3>2, <1>7, Zenon DEF Rounded
  <2> QED
    BY <2>3, <2>4
<1> QED
  BY <1>1, <1>7, <1>8, <1>9

LEMMA RoundsLarge ==
  ASSUME NEW n \in Nat, n > 0, n < HalfTop, ~(Pow!Size(n) < 3)
  PROVE  \E e \in Nat : Lost(n, e) /\ Rounded(n) = (n \div Digit(e)) * Digit(e)
<1>1. PICK s \in Nat : /\ s = Pow!Size(n) /\ 1 <= s /\ s <= Digits
                       /\ n < Digit(s) /\ Digit(s - 1) <= n
  BY SizeIs
<1>2. Digits \in Nat /\ Digits >= 3
  BY TargetsAssumption
<1>3. PICK d \in Nat : s = 3 + d /\ d = s - 3 /\ s - 1 = 2 + d
  <2>1. s - 3 \in Nat
    BY <1>1
  <2> QED
    BY <2>1
<1>4. PICK b \in Nat, h \in Nat, w \in Nat :
        /\ b = Radix /\ b > 0 /\ h = Pow!SignBit /\ w = Digit(2) /\ w > 0
        /\ Pow!Mantissas = 2 * h /\ Digit(3) = 2 * h /\ 2 * h = b * w /\ w <= h /\ h > 0
  <2>1. Digit(2) \in Nat /\ Digit(2) > 0
    BY DigitsAdd
  <2> QED
    BY <2>1, Scales
<1>5. PICK x \in Nat : x = Digit(d) /\ x > 0
  BY DigitsAdd
<1>6. Digit(s) = (2 * h) * x /\ Digit(s - 1) = w * x
  BY <1>3, <1>4, <1>5, DigitsAdd
<1>7. PICK m \in Nat : m = n \div x
  BY <1>5, Divided
<1>8. m < 2 * h
  <2>1. x * (2 * h) = (2 * h) * x /\ 2 * h \in Nat
    OBVIOUS
  <2> QED
    BY <1>1, <1>5, <1>6, <1>7, <2>1, DividedLess
<1>9. m < h <=> n < h * x
  <2>1. x * h = h * x
    OBVIOUS
  <2> QED
    BY <1>5, <1>7, <2>1, DividedLess
<1>10. Pow!TargetToBits(n) = IF m >= h THEN (s + 1) * (2 * h) + m \div b ELSE s * (2 * h) + m
  <2>1. n # 0 /\ s >= 3 /\ Pow!Power(Radix, s - 3) = x
    BY <1>3, <1>5 DEF Digit
  <2> QED
    BY <1>1, <1>4, <1>7, <2>1 DEF Pow!TargetToBits
<1>11. CASE m < h
  <2>1. Pow!BitsToTarget(s * Pow!Mantissas + m) = m * Digit(d)
    <3>1. m < Digit(3) /\ ~(m >= Pow!SignBit \/ s > Digits) /\ ~(s < 3) /\ s - 3 = d
      BY <1>1, <1>2, <1>3, <1>4, <1>8, <1>11
    <3>2. Pow!BitsToTarget(s * Pow!Mantissas + m) = m * Digit(s - 3)
      BY <3>1, Decodes
    <3> QED
      BY <1>3, <3>2, Zenon
  <2>2. Pow!TargetToBits(n) = s * Pow!Mantissas + m
    BY <1>4, <1>10, <1>11
  <2>3. Rounded(n) = (n \div Digit(d)) * Digit(d)
    BY <1>5, <1>7, <2>1, <2>2, Zenon DEF Rounded
  <2>4. d = 0 \/ n >= h * Digit(d - 1)
    <3> SUFFICES ASSUME d # 0 PROVE n >= h * Digit(d - 1)
      OBVIOUS
    <3>1. d - 1 \in Nat /\ 1 + (d - 1) = d
      OBVIOUS
    <3>2. PICK y \in Nat : y = Digit(d - 1)
      BY <3>1, DigitsAdd
    <3>3. x = b * y
      <4>1. Digit(1) = b
        BY <1>4, Scales
      <4>2. Digit(1 + (d - 1)) = Digit(1) * Digit(d - 1)
        BY <3>1, DigitsAdd
      <4> QED
        BY <1>5, <3>1, <3>2, <4>1, <4>2
    <3>4. w * (b * y) = (b * w) * y /\ (2 * h) * y = h * y + h * y /\ h * y \in Nat
      OBVIOUS
    <3> QED
      BY <1>1, <1>4, <1>6, <3>2, <3>3, <3>4
  <2>5. d <= Digits - 3 /\ n < h * x
    BY <1>1, <1>2, <1>3, <1>9, <1>11
  <2>6. Lost(n, d)
    BY <1>4, <1>5, <2>4, <2>5 DEF Lost
  <2> QED
    BY <2>3, <2>6
<1>12. CASE ~(m < h)
  <2>1. n >= h * x /\ h * x \in Nat
    BY <1>9, <1>12
  <2>2. s + 1 <= Digits
    <3> SUFFICES ASSUME s = Digits PROVE FALSE
      BY <1>1, <1>2
    <3>1. HalfTop = h * x
      BY <1>3, <1>4, <1>5 DEF HalfTop
    <3> QED
      BY <2>1, <3>1
  <2>3. PICK z \in Nat : z = Digit(d + 1) /\ z = x * b /\ z > 0
    <3>1. Digit(1) = b /\ d + 1 \in Nat
      BY <1>4, Scales
    <3>2. Digit(d + 1) = Digit(d) * Digit(1)
      BY DigitsAdd
    <3> QED
      BY <1>5, <3>1, <3>2, DigitsAdd
  <2>4. PICK q \in Nat : q = m \div b
    BY <1>4, Divided
  <2>5. q < h
    <3>1. q < w
      BY <1>4, <1>8, <2>4, DividedLess
    <3> QED
      BY <1>4, <3>1
  <2>6. q = n \div z
    BY <1>4, <1>5, <1>7, <2>3, <2>4, DividedTwice
  <2>7. Pow!BitsToTarget((s + 1) * Pow!Mantissas + q) = q * Digit(d + 1)
    <3>1. s + 1 \in Nat /\ q < Digit(3) /\ ~(q >= Pow!SignBit \/ s + 1 > Digits) /\ ~(s + 1 < 3)
      BY <1>1, <1>2, <1>3, <1>4, <2>2, <2>5
    <3>2. Pow!BitsToTarget((s + 1) * Pow!Mantissas + q) = q * Digit((s + 1) - 3)
      BY <3>1, Decodes
    <3>3. (s + 1) - 3 = d + 1
      BY <1>3
    <3> QED
      BY <3>2, <3>3, Zenon
  <2>8. Pow!TargetToBits(n) = (s + 1) * Pow!Mantissas + q
    BY <1>4, <1>10, <1>12, <2>4
  <2>9. Rounded(n) = (n \div Digit(d + 1)) * Digit(d + 1)
    BY <2>3, <2>6, <2>7, <2>8, Zenon DEF Rounded
  <2>10. n < h * z
    <3>1. n < (2 * h) * x
      BY <1>1, <1>6
    <3>2. (2 * h) * x = w * z
      <4>1. (b * w) * x = w * (x * b)
        OBVIOUS
      <4> QED
        BY <1>4, <2>3, <4>1
    <3>3. w * z <= h * z
      BY <1>4, ProductGrows
    <3>4. w * z \in Nat /\ h * z \in Nat
      OBVIOUS
    <3> QED
      BY <3>1, <3>2, <3>3, <3>4
  <2>11. Lost(n, d + 1)
    <3>1. d + 1 <= Digits - 3 /\ d + 1 \in Nat /\ (d + 1) - 1 = d
      BY <1>2, <1>3, <2>2
    <3>2. n >= Pow!SignBit * Digit((d + 1) - 1)
      BY <1>4, <1>5, <2>1, <3>1
    <3> QED
      BY <1>4, <2>3, <2>10, <3>1, <3>2 DEF Lost
  <2> QED
    BY <2>9, <2>11
<1> QED
  BY <1>11, <1>12

LEMMA RoundOfZero == Rounded(0) = 0
<1>1. Pow!TargetToBits(0) = 0
  BY DEF Pow!TargetToBits
<1>2. PICK y \in Nat : y = Digit(3) /\ y > 0
  BY DigitsAdd
<1>3. 0 < Pow!SignBit /\ 0 * Pow!Mantissas + 0 = 0
  <2>1. Digit(2) \in Nat /\ Digit(2) > 0
    BY DigitsAdd
  <2>2. Pow!Mantissas = y
    BY <1>2, Scales
  <2> QED
    BY <2>1, <2>2, Scales
<1>4. Pow!BitsToTarget(0 * Pow!Mantissas + 0) = 0 \div y
  <2>1. 0 \in Nat /\ 3 \in Nat /\ 0 + 3 = 3
    OBVIOUS
  <2>2. Pow!BitsToTarget(0 * Pow!Mantissas + 0) = 0 \div Digit(3)
    BY <1>3, <2>1, DecodesSmall
  <2> QED
    BY <1>2, <2>2, Zenon
<1>5. 0 \div y = 0
  BY <1>2
<1> QED
  BY <1>1, <1>3, <1>4, <1>5, Zenon DEF Rounded

\* A target through its compact form loses its last digits (pow.c:124-136).
LEMMA Rounds ==
  ASSUME NEW n \in Nat, n > 0, n < HalfTop
  PROVE  \E e \in Nat : Lost(n, e) /\ Rounded(n) = (n \div Digit(e)) * Digit(e)
<1>1. CASE Pow!Size(n) < 3
  <2>1. Lost(n, 0) /\ Rounded(n) = n /\ Digit(0) = 1
    BY <1>1, RoundsSmall, Scales
  <2>2. (n \div 1) * 1 = n
    OBVIOUS
  <2>3. Rounded(n) = (n \div Digit(0)) * Digit(0)
    BY <2>1, <2>2, Zenon
  <2> QED
    BY <2>1, <2>3
<1>2. CASE ~(Pow!Size(n) < 3)
  BY <1>2, RoundsLarge
<1> QED
  BY <1>1, <1>2

\* It never grows.
LEMMA RoundsDown ==
  ASSUME NEW n \in Nat, n < HalfTop
  PROVE  Rounded(n) \in Nat /\ Rounded(n) <= n
<1>1. CASE n = 0
  BY <1>1, RoundOfZero
<1>2. CASE n > 0
  <2>1. PICK e \in Nat : Rounded(n) = (n \div Digit(e)) * Digit(e)
    BY <1>2, Rounds
  <2>2. PICK x \in Nat : x = Digit(e) /\ x > 0
    BY DigitsAdd
  <2>3. PICK q \in Nat : q = n \div x /\ x * q <= n
    BY <2>2, Divided
  <2>4. q * x = x * q /\ q * x \in Nat
    OBVIOUS
  <2> QED
    BY <2>1, <2>2, <2>3, <2>4
<1> QED
  BY <1>1, <1>2

\* The larger of two targets stays the larger.
LEMMA RoundGrows ==
  ASSUME NEW n \in Nat, NEW m \in Nat, n <= m, m < HalfTop
  PROVE  Rounded(n) <= Rounded(m)
<1> HalfTop \in Nat
  BY Halves
<1>1. CASE n = 0
  BY <1>1, RoundOfZero, RoundsDown
<1>2. CASE n > 0
  <2>1. PICK e \in Nat : Lost(n, e) /\ Rounded(n) = (n \div Digit(e)) * Digit(e)
    BY <1>2, Rounds
  <2>2. PICK f \in Nat : Lost(m, f) /\ Rounded(m) = (m \div Digit(f)) * Digit(f)
    BY <1>2, Rounds
  <2>3. PICK x \in Nat : x = Digit(e) /\ x > 0
    BY DigitsAdd
  <2>4. PICK y \in Nat : y = Digit(f) /\ y > 0
    BY DigitsAdd
  <2>5. PICK h \in Nat : h = Pow!SignBit
    BY Scales
  <2>6. CASE e = f
    <3>1. n \div x \in Nat /\ m \div x \in Nat /\ n \div x <= m \div x
      BY <2>3, DividedGrows, Divided
    <3>2. PICK q \in Nat, r \in Nat : q = n \div x /\ r = m \div x /\ q <= r
      BY <3>1
    <3>3. q * x <= r * x
      BY <3>2, ProductGrows
    <3> QED
      BY <2>1, <2>2, <2>3, <2>6, <3>2, <3>3
  <2>7. CASE e < f
    <3>1. f - 1 \in Nat /\ e <= f - 1 /\ 1 + (f - 1) = f
      BY <2>7
    <3>2. PICK z \in Nat : z = Digit(f - 1)
      BY <3>1, DigitsAdd
    <3>3. x <= z
      BY <2>3, <3>1, <3>2, DigitsAdd
    <3>4. n < h * x /\ m >= h * z
      BY <2>1, <2>2, <2>3, <2>5, <2>7, <3>2 DEF Lost
    <3>5. h * x <= h * z /\ h * x \in Nat /\ h * z \in Nat
      BY <3>3, ProductGrows
    <3>6. \E c \in Nat : h * z = c * y
      <4>1. PICK b \in Nat, j \in Nat : b = Radix /\ Digit(1) = b /\ Digit(2) = b * b /\ h = j * Digit(2)
        BY <2>5, Scales
      <4>2. y = b * z
        <5>1. Digit(1 + (f - 1)) = Digit(1) * Digit(f - 1)
          BY <3>1, DigitsAdd
        <5> QED
          BY <2>4, <3>1, <3>2, <4>1, <5>1
      <4>3. h * z = (j * b) * (b * z)
        <5>1. (j * (b * b)) * z = (j * b) * (b * z)
          OBVIOUS
        <5> QED
          BY <4>1, <5>1
      <4>4. j * b \in Nat
        OBVIOUS
      <4> QED
        BY <4>2, <4>3, <4>4
    <3>7. PICK c \in Nat : h * z = c * y
      BY <3>6
    <3>8. c <= m \div y
      <4>1. c * y \in Nat /\ c * y <= m
        BY <3>4, <3>5, <3>7
      <4>2. (c * y + 0) \div y = c
        BY <2>4, DividesProduct
      <4>3. (c * y) \div y = c
        BY <4>1, <4>2
      <4> QED
        BY <2>4, <4>1, <4>3, DividedGrows
    <3>9. PICK r \in Nat : r = m \div y
      BY <2>4, Divided
    <3>10. c * y <= r * y /\ c * y \in Nat /\ r * y \in Nat
      BY <3>8, <3>9, ProductGrows
    <3>11. Rounded(n) \in Nat /\ Rounded(n) <= n
      <4>1. n < HalfTop
        OBVIOUS
      <4> QED
        BY <4>1, RoundsDown
    <3> QED
      BY <2>2, <2>4, <3>4, <3>5, <3>7, <3>9, <3>10, <3>11
  <2>8. CASE f < e
    <3>1. e - 1 \in Nat /\ f <= e - 1
      BY <2>8
    <3>2. PICK z \in Nat : z = Digit(e - 1)
      BY <3>1, DigitsAdd
    <3>3. y <= z
      BY <2>4, <3>1, <3>2, DigitsAdd
    <3>4. m < h * y /\ n >= h * z
      BY <2>1, <2>2, <2>4, <2>5, <2>8, <3>2 DEF Lost
    <3>5. h * y <= h * z /\ h * y \in Nat /\ h * z \in Nat
      BY <3>3, ProductGrows
    <3> QED
      BY <3>4, <3>5
  <2> QED
    BY <2>6, <2>7, <2>8
<1> QED
  BY <1>1, <1>2

\* What a compact form stands for has a compact form of its own.
LEMMA RoundsItself ==
  ASSUME NEW bits \in Nat
  PROVE  Rounded(Pow!BitsToTarget(bits)) = Pow!BitsToTarget(bits)
<1>1. PICK n \in Nat : n = Pow!BitsToTarget(bits) /\ n < HalfTop
  BY TargetIs
<1>2. PICK low \in Nat, k \in 0..(Digits - 3) :
        low < Pow!SignBit /\ Pow!BitsToTarget(bits) = low * Digit(k)
  BY TargetIs
<1>3. k \in Nat /\ Digits \in Nat
  BY <1>2, TargetsAssumption
<1>4. PICK x \in Nat : x = Digit(k) /\ x > 0
  BY <1>3, DigitsAdd
<1>5. n = low * x
  BY <1>1, <1>2, <1>4
<1>6. PICK h \in Nat : h = Pow!SignBit
  BY Scales
<1>7. CASE n = 0
  BY <1>1, <1>7, RoundOfZero
<1>8. CASE n > 0
  <2>1. PICK e \in Nat : Lost(n, e) /\ Rounded(n) = (n \div Digit(e)) * Digit(e)
    BY <1>1, <1>8, Rounds
  <2>2. e <= k
    <3> SUFFICES ASSUME ~(e <= k) PROVE FALSE
      OBVIOUS
    <3>1. e - 1 \in Nat /\ k <= e - 1
      BY <1>3
    <3>2. PICK z \in Nat : z = Digit(e - 1)
      BY <3>1, DigitsAdd
    <3>3. x <= z
      BY <1>3, <1>4, <3>1, <3>2, DigitsAdd
    <3>4. n >= h * z
      BY <1>3, <1>6, <2>1, <3>1, <3>2 DEF Lost
    <3>5. h * x <= h * z
      BY <3>3, ProductGrows
    <3>6. (low + 1) * x <= h * x
      BY <1>2, <1>6, ProductGrows
    <3>7. (low + 1) * x = low * x + x /\ low * x \in Nat /\ h * x \in Nat /\ h * z \in Nat
      OBVIOUS
    <3> QED
      BY <1>4, <1>5, <3>4, <3>5, <3>6, <3>7
  <2>3. k - e \in Nat /\ (k - e) + e = k
    BY <1>3, <2>2
  <2>4. PICK y \in Nat : y = Digit(e) /\ y > 0
    BY DigitsAdd
  <2>5. PICK z \in Nat : z = Digit(k - e)
    BY <2>3, DigitsAdd
  <2>6. x = z * y
    <3>1. Digit((k - e) + e) = Digit(k - e) * Digit(e)
      BY <2>3, DigitsAdd
    <3> QED
      BY <1>4, <2>3, <2>4, <2>5, <3>1
  <2>7. n = (low * z) * y /\ low * z \in Nat
    <3>1. low * (z * y) = (low * z) * y
      OBVIOUS
    <3> QED
      BY <1>5, <2>6, <3>1
  <2>8. n \div y = low * z
    <3>1. PICK q \in Nat : q = low * z
      BY <2>7
    <3>2. (q * y + 0) \div y = q /\ q * y + 0 = q * y
      BY <2>4, DividesProduct
    <3> QED
      BY <2>7, <3>1, <3>2
  <2> QED
    BY <1>1, <2>1, <2>4, <2>7, <2>8
<1> QED
  BY <1>1, <1>7, <1>8

-----------------------------------------------------------------------------
(* Work *)

LEMMA BitSteps ==
  ASSUME NEW n \in Nat
  PROVE  Pow!Bit(n) \in Nat /\ Pow!Bit(n) > 0 /\ Pow!Bit(0) = 1 /\ Pow!Bit(n + 1) = 2 * Pow!Bit(n)
BY PowerPositive, PowerSteps DEF Pow!Bit

\* The registers of the long division of a by b after the bits from n up (pow.c:160-181).
Divides(a, b, n) ==
  [rem |-> (a \div Pow!Bit(n)) % b, quo |-> Pow!Bit(n) * ((a \div Pow!Bit(n)) \div b)]

\* One more bit of the dividend, when the remainder can be doubled without wrapping.
DividesBit(a, b, n, acc) ==
  LET rem == (2 * acc.rem + ((a \div Pow!Bit(n)) % 2)) % Pow!Top
  IN  IF rem >= b THEN [rem |-> rem - b, quo |-> acc.quo + Pow!Bit(n)]
                  ELSE [rem |-> rem, quo |-> acc.quo]

LEMMA DividesSteps ==
  ASSUME NEW a \in Nat, NEW b \in Nat, b > 0, 2 * b <= Pow!Top, NEW n \in Nat
  PROVE  DividesBit(a, b, n, Divides(a, b, n + 1)) = Divides(a, b, n)
<1>1. PICK x \in Nat : x = Pow!Bit(n) /\ x > 0 /\ Pow!Bit(n + 1) = 2 * x
  BY BitSteps
<1>2. PICK A \in Nat : A = a \div x
  BY <1>1, Divided
<1>3. PICK c \in Nat : c = a \div (2 * x) /\ c = A \div 2
  <2>1. A \div 2 \in Nat /\ x * 2 = 2 * x
    OBVIOUS
  <2>2. (a \div x) \div 2 = a \div (x * 2)
    BY <1>1, DividedTwice
  <2> QED
    BY <1>2, <2>1, <2>2
<1>4. PICK d \in 0..1 : d = A % 2 /\ A = 2 * c + d
  BY <1>3
<1>5. PICK q \in Nat, r \in Nat : q = c \div b /\ r = c % b /\ r < b /\ c = b * q + r
  <2>1. c \div b \in Nat /\ c % b \in 0..(b - 1) /\ c = b * (c \div b) + (c % b)
    BY Divided
  <2> QED
    BY <2>1
<1>6. PICK top \in Nat : top = Pow!Top
  BY Halves
<1>7. (2 * r + d) % top = 2 * r + d
  <2>1. 2 * r + d < top /\ 2 * r + d \in Nat
    BY <1>4, <1>5, <1>6
  <2> QED
    BY <2>1
<1> DEFINE rem == 2 * r + d
<1>8. Divides(a, b, n + 1) = [rem |-> r, quo |-> (2 * x) * q]
  BY <1>1, <1>3, <1>5 DEF Divides
<1>9. DividesBit(a, b, n, Divides(a, b, n + 1)) =
        IF rem >= b THEN [rem |-> rem - b, quo |-> (2 * x) * q + x]
                    ELSE [rem |-> rem, quo |-> (2 * x) * q]
  <2>1. PICK acc : acc = Divides(a, b, n + 1)
    OBVIOUS
  <2>2. acc.rem = r /\ acc.quo = (2 * x) * q
    BY <1>8, <2>1
  <2>3. (2 * acc.rem + ((a \div Pow!Bit(n)) % 2)) % Pow!Top = rem
    BY <1>1, <1>2, <1>4, <1>6, <1>7, <2>2
  <2> HIDE DEF rem
  <2> QED
    BY <1>1, <2>1, <2>2, <2>3, Zenon DEF DividesBit
<1>10. Divides(a, b, n) = [rem |-> A % b, quo |-> x * (A \div b)]
  BY <1>1, <1>2 DEF Divides
<1>11. (2 * x) * q = x * (2 * q) /\ x * (2 * q + 1) = x * (2 * q) + x
  OBVIOUS
<1>12. A = (2 * q) * b + rem
  <2>1. 2 * (b * q) = (2 * q) * b
    OBVIOUS
  <2> QED
    BY <1>4, <1>5, <2>1
<1>13. CASE rem >= b
  <2>1. PICK p \in Nat : p = rem - b /\ p < b
    BY <1>4, <1>5, <1>13
  <2>2. A = (2 * q + 1) * b + p
    <3>1. (2 * q + 1) * b = (2 * q) * b + b
      OBVIOUS
    <3> QED
      BY <1>4, <1>12, <2>1, <3>1
  <2>3. A \div b = 2 * q + 1 /\ A % b = p
    <3>1. 2 * q + 1 \in Nat
      OBVIOUS
    <3> QED
      <4> HIDE DEF rem
      <4> QED
        BY <2>1, <2>2, <3>1, DividesProduct
  <2> HIDE DEF rem
  <2> QED
    BY <1>9, <1>10, <1>11, <1>13, <2>1, <2>3
<1>14. CASE ~(rem >= b)
  <2>1. PICK p \in Nat : p = rem /\ p < b
    BY <1>4, <1>5, <1>14
  <2>2. A \div b = 2 * q /\ A % b = p
    <3>1. 2 * q \in Nat
      OBVIOUS
    <3> QED
      BY <1>12, <2>1, <3>1, DividesProduct
  <2> HIDE DEF rem
  <2> QED
    BY <1>9, <1>10, <1>11, <1>14, <2>1, <2>2
<1> QED
  BY <1>13, <1>14

\* The registers of a division, from the last bit down.
DividesDown(f, a, b, w) ==
  f = [n \in 0..w |-> IF n = w THEN [rem |-> 0, quo |-> 0] ELSE DividesBit(a, b, n, f[n + 1])]

\* The long division divides (pow.c:160-181).
LEMMA QuotientIs ==
  ASSUME NEW a \in Nat, NEW b \in Nat, a < Pow!Top, b > 0, 2 * b <= Pow!Top
  PROVE  Pow!Quotient(a, b) = a \div b
<1> DEFINE w == CHOOSE n \in Pow!WorkBits : TRUE
<1>1. w \in Nat /\ Pow!Bit(w) = Pow!Top
  <2>1. w \in Pow!WorkBits
    BY TargetsAssumption
  <2>2. 1..(Radix * Digits) \subseteq Nat
    <3>1. Radix * Digits \in Nat
      BY TargetsAssumption
    <3> QED
      BY <3>1
  <2> HIDE DEF w
  <2> QED
    BY <2>1, <2>2 DEF Pow!WorkBits
<1> DEFINE F == CHOOSE f : DividesDown(f, a, b, w)
<1>2. Pow!Quotient(a, b) = F[0].quo
  BY DEF Pow!Quotient, DividesDown, DividesBit
<1> HIDE DEF w
<1>3. Divides(a, b, w) = [rem |-> 0, quo |-> 0]
  <2>1. PICK x \in Nat : x = Pow!Bit(w) /\ x > 0
    BY <1>1, BitSteps
  <2>2. a \div x = 0
    BY <1>1, <2>1
  <2>3. 0 % b = 0 /\ 0 \div b = 0 /\ x * 0 = 0
    OBVIOUS
  <2> QED
    BY <2>1, <2>2, <2>3 DEF Divides
<1>4. DividesDown(F, a, b, w)
  <2> DEFINE g == [n \in 0..w |-> Divides(a, b, n)]
  <2>1. ASSUME NEW n \in 0..w
        PROVE  g[n] = IF n = w THEN [rem |-> 0, quo |-> 0] ELSE DividesBit(a, b, n, g[n + 1])
    <3>1. CASE n = w
      BY <1>3, <3>1
    <3>2. CASE n # w
      <4>1. n \in Nat /\ n + 1 \in 0..w
        BY <1>1, <3>2
      <4>2. g[n] = Divides(a, b, n) /\ g[n + 1] = Divides(a, b, n + 1)
        BY <4>1
      <4> HIDE DEF g
      <4> QED
        BY <3>2, <4>1, <4>2, DividesSteps
    <3> QED
      BY <3>1, <3>2
  <2>2. DividesDown(g, a, b, w)
    BY <2>1 DEF DividesDown
  <2> QED
    BY <2>2
<1> HIDE DEF F
<1> DEFINE P == {k \in Nat : \A n \in Nat : n + k = w => F[n] = Divides(a, b, n)}
<1>5. 0 \in P
  <2>1. \A n \in Nat : n + 0 = w => n = w
    OBVIOUS
  <2>2. F[w] = [rem |-> 0, quo |-> 0]
    BY <1>1, <1>4 DEF DividesDown
  <2> QED
    BY <1>3, <2>1, <2>2
<1>6. ASSUME NEW k \in P PROVE k + 1 \in P
  <2> SUFFICES ASSUME NEW n \in Nat, n + (k + 1) = w PROVE F[n] = Divides(a, b, n)
    OBVIOUS
  <2>1. (n + 1) + k = w /\ n + 1 \in Nat /\ n \in 0..w /\ n # w
    BY <1>1
  <2>2. F[n] = DividesBit(a, b, n, F[n + 1])
    BY <1>4, <2>1 DEF DividesDown
  <2>3. F[n + 1] = Divides(a, b, n + 1)
    BY <2>1
  <2> QED
    BY <2>2, <2>3, DividesSteps
<1>7. P = Nat
  <2>1. P \in SUBSET Nat
    OBVIOUS
  <2> HIDE DEF P
  <2> QED
    BY <1>5, <1>6, <2>1, NatInduct
<1>8. F[0] = Divides(a, b, 0)
  <2>1. w \in P
    <3> HIDE DEF P
    <3> QED
      BY <1>1, <1>7
  <2>2. 0 + w = w
    BY <1>1
  <2> QED
    BY <2>1, <2>2
<1>9. Divides(a, b, 0).quo = a \div b
  <2>1. Pow!Bit(0) = 1 /\ a \div 1 = a
    BY BitSteps
  <2>2. PICK q \in Nat : q = a \div b
    BY Divided
  <2>3. 1 * q = q
    OBVIOUS
  <2> QED
    BY <2>1, <2>2, <2>3 DEF Divides
<1> QED
  BY <1>2, <1>8, <1>9

\* The work of a target is the rounded quotient (pow.c:183-195).
LEMMA WorkIs ==
  ASSUME NEW bits \in Nat
  PROVE  LET t == Pow!BitsToTarget(bits)
         IN  Pow!Work(bits) = IF t = 0 THEN 0 ELSE Pow!Top \div (t + 1)
<1>1. PICK t \in Nat : t = Pow!BitsToTarget(bits) /\ t < HalfTop
  BY TargetIs
<1>2. PICK top \in Nat : top = Pow!Top /\ top = 2 * HalfTop /\ HalfTop \in Nat
  BY Halves
<1>3. CASE t = 0
  BY <1>1, <1>3 DEF Pow!Work
<1>4. CASE t > 0
  <2>1. PICK a \in Nat, b \in Nat : a = top - 1 - t /\ b = t + 1 /\ a < top /\ b > 1 /\ 2 * b <= top
                                    /\ a + b = top
    BY <1>1, <1>2, <1>4
  <2>2. PICK q \in Nat : q = a \div b /\ b * q <= a /\ a < b * q + b
    BY <2>1, Divided
  <2>3. Pow!Quotient(a, b) = q
    BY <1>2, <2>1, <2>2, QuotientIs
  <2>4. top \div b = q + 1
    <3>1. b * (q + 1) = b * q + b /\ b * q \in Nat /\ q + 1 \in Nat
      OBVIOUS
    <3>2. b * (q + 1) <= top /\ top < b * (q + 1) + b
      BY <2>1, <2>2, <3>1
    <3> QED
      BY <2>1, <3>1, <3>2, DividesOnce
  <2>5. q + 1 < top
    <3>1. 2 * q <= b * q
      BY <2>1, ProductGrows
    <3>2. b * q \in Nat
      OBVIOUS
    <3> QED
      BY <2>1, <2>2, <3>1, <3>2
  <2>6. (q + 1) % top = q + 1
    BY <2>5
  <2>7. Pow!Work(bits) = (Pow!Quotient(top - 1 - t, t + 1) + 1) % top
    BY <1>1, <1>2, <1>4 DEF Pow!Work
  <2> QED
    BY <1>1, <1>2, <1>4, <2>1, <2>3, <2>4, <2>6, <2>7
<1> QED
  BY <1>3, <1>4

-----------------------------------------------------------------------------
(* Retarget *)

\* Division that truncates is monotone.
LEMMA TruncatedGrows ==
  ASSUME NEW a \in Int, NEW c \in Int, a <= c, NEW b \in Nat, b > 0
  PROVE  /\ Pow!Truncated(a, b) \in Int
         /\ Pow!Truncated(a, b) <= Pow!Truncated(c, b)
<1>1. ASSUME NEW x \in Int, x >= 0
      PROVE  Pow!Truncated(x, b) = x \div b /\ x \div b \in Nat
  BY <1>1, Divided DEF Pow!Truncated
<1>2. ASSUME NEW x \in Int, ~(x >= 0)
      PROVE  Pow!Truncated(x, b) = -((-x) \div b) /\ (-x) \div b \in Nat
  <2>1. -x \in Nat
    BY <1>2
  <2> QED
    BY <1>2, <2>1, Divided DEF Pow!Truncated
<1>3. CASE a >= 0
  <2>1. c >= 0 /\ a \in Nat /\ c \in Nat
    BY <1>3
  <2>2. a \div b <= c \div b
    BY <2>1, DividedGrows
  <2> QED
    BY <1>1, <1>3, <2>1, <2>2
<1>4. CASE ~(a >= 0) /\ c >= 0
  <2>1. PICK p \in Nat, q \in Nat :
          Pow!Truncated(a, b) = -p /\ Pow!Truncated(c, b) = q
    BY <1>1, <1>2, <1>4
  <2> QED
    BY <2>1
<1>5. CASE ~(a >= 0) /\ ~(c >= 0)
  <2>1. -a \in Nat /\ -c \in Nat /\ -c <= -a
    BY <1>5
  <2>2. (-c) \div b <= (-a) \div b
    BY <2>1, DividedGrows
  <2>3. PICK p \in Nat, q \in Nat :
          p = (-a) \div b /\ q = (-c) \div b
    BY <1>2, <1>5
  <2> QED
    BY <1>2, <1>5, <2>2, <2>3
<1> QED
  BY <1>3, <1>4, <1>5

\* The modulated time stays between the clamps and is monotone (pow.c:205-207).
LEMMA ModulatedGrows ==
  ASSUME NEW time \in Int
  PROVE  /\ Pow!Modulated(time) \in Nat
         /\ Fastest <= Pow!Modulated(time) /\ Pow!Modulated(time) <= Slowest
         /\ \A later \in Int : time <= later => Pow!Modulated(time) <= Pow!Modulated(later)
<1> DEFINE M(x) == Spacing + Pow!Truncated(x - Spacing, Damping)
           Clamped(m) == IF m < Fastest THEN Fastest ELSE IF m > Slowest THEN Slowest ELSE m
<1>1. /\ Spacing \in Nat /\ Fastest \in Nat /\ Slowest \in Nat /\ Damping \in Nat /\ Damping > 0
      /\ Fastest <= Slowest
  BY TargetsAssumption
<1>2. \A x \in Int : Pow!Modulated(x) = Clamped(M(x))
  BY DEF Pow!Modulated
<1>3. ASSUME NEW x \in Int, NEW y \in Int, x <= y
      PROVE  M(x) \in Int /\ M(y) \in Int /\ M(x) <= M(y)
  <2>1. x - Spacing \in Int /\ y - Spacing \in Int /\ x - Spacing <= y - Spacing
    BY <1>1, <1>3
  <2>2. /\ Pow!Truncated(x - Spacing, Damping) \in Int
        /\ Pow!Truncated(y - Spacing, Damping) \in Int
        /\ Pow!Truncated(x - Spacing, Damping) <= Pow!Truncated(y - Spacing, Damping)
    BY <1>1, <2>1, TruncatedGrows
  <2>3. PICK p \in Int, q \in Int : /\ p = Pow!Truncated(x - Spacing, Damping)
                                    /\ q = Pow!Truncated(y - Spacing, Damping) /\ p <= q
    BY <2>2
  <2> QED
    BY <1>1, <2>3
<1> HIDE DEF M
<1>4. M(time) \in Int
  BY <1>3
<1>5. Clamped(M(time)) \in Nat /\ Fastest <= Clamped(M(time)) /\ Clamped(M(time)) <= Slowest
  BY <1>1, <1>4
<1>6. ASSUME NEW later \in Int, time <= later PROVE Clamped(M(time)) <= Clamped(M(later))
  <2>1. PICK p \in Int, q \in Int : p = M(time) /\ q = M(later) /\ p <= q
    BY <1>3, <1>6
  <2> QED
    BY <1>1, <2>1
<1> QED
  BY <1>2, <1>5, <1>6

\* The target before its compact form: scaled by the modulated time, not above the limit.
Wide(t, time) == (t * Pow!Modulated(time)) \div Spacing
Capped(t, time, most) == IF Wide(t, time) > most THEN most ELSE Wide(t, time)

LEMMA WideIs ==
  ASSUME NEW t \in Nat, NEW time \in Int
  PROVE  /\ Wide(t, time) \in Nat
         /\ Spacing * Wide(t, time) <= Slowest * t
         /\ (Fastest * t) \div Spacing \in Nat
         /\ (Fastest * t) \div Spacing <= Wide(t, time)
         /\ (Fastest * t) \div Spacing <= t
         /\ \A later \in Int : time <= later => Wide(t, time) <= Wide(t, later)
<1>1. PICK sp \in Nat, f \in Nat, sl \in Nat :
        sp = Spacing /\ f = Fastest /\ sl = Slowest /\ sp > 0 /\ f <= sp
  BY TargetsAssumption
<1>2. PICK m \in Nat : m = Pow!Modulated(time) /\ f <= m /\ m <= sl
  BY <1>1, ModulatedGrows
<1>3. f * t \in Nat /\ t * m \in Nat /\ sp * t \in Nat /\ t * m = m * t /\ sl * t \in Nat
  OBVIOUS
<1>4. f * t <= m * t /\ m * t <= sl * t /\ f * t <= sp * t
  BY <1>1, <1>2, ProductGrows
<1>5. PICK w \in Nat : w = (t * m) \div sp /\ sp * w <= t * m
  BY <1>1, <1>3, Divided
<1>6. PICK l \in Nat : l = (f * t) \div sp /\ sp * l <= f * t
  BY <1>1, <1>3, Divided
<1>7. l <= w
  BY <1>1, <1>3, <1>4, <1>5, <1>6, DividedGrows
<1>8. l <= t
  <2>1. (t * sp + 0) \div sp = t /\ t * sp = sp * t
    BY <1>1, DividesProduct
  <2>2. (f * t) \div sp <= (sp * t) \div sp
    BY <1>1, <1>3, <1>4, DividedGrows
  <2>3. t * sp + 0 = sp * t
    BY <1>3, <2>1
  <2> QED
    BY <1>6, <2>1, <2>2, <2>3
<1>9. sp * w <= sl * t
  <2>1. sp * w \in Nat
    OBVIOUS
  <2> QED
    BY <1>3, <1>4, <1>5, <2>1
<1>10. ASSUME NEW later \in Int, time <= later PROVE Wide(t, time) <= Wide(t, later)
  <2>1. PICK n \in Nat : n = Pow!Modulated(later) /\ m <= n
    BY <1>2, <1>10, ModulatedGrows
  <2>2. t * m <= t * n /\ t * n \in Nat
    BY <2>1, ProductGrows
  <2>3. (t * m) \div sp <= (t * n) \div sp
    BY <1>1, <1>3, <2>2, DividedGrows
  <2> QED
    BY <1>1, <1>2, <2>1, <2>3 DEF Wide
<1> QED
  BY <1>1, <1>2, <1>5, <1>6, <1>7, <1>8, <1>9, <1>10 DEF Wide

\* The compact form of the next block stands for the capped target, rounded.
LEMMA NextIs ==
  ASSUME NEW bits \in Nat, NEW limit \in Nat, NEW time \in Int,
         Pow!BitsToTarget(bits) # 0, Pow!BitsToTarget(limit) # 0
  PROVE  Pow!BitsToTarget(Pow!NextBits(bits, time, limit)) =
           Rounded(Capped(Pow!BitsToTarget(bits), time, Pow!BitsToTarget(limit)))
BY Zenon DEF Pow!NextBits, Rounded, Capped, Wide

\* What follows a target of the samples in a solve time.
LEMMA Follows ==
  ASSUME NEW t \in Nat, NEW most \in Nat, t <= most, most < HalfTop, NEW time \in Int
  PROVE  LET after == Rounded(Capped(t, time, most))
             least == (Fastest * t) \div Spacing
         IN  /\ after \in Nat /\ after <= most
             /\ Spacing * after <= Slowest * t
             /\ least \in Nat /\ Rounded(least) <= after
             /\ \A later \in Int : time <= later => after <= Rounded(Capped(t, later, most))
<1>1. PICK w \in Nat, least \in Nat :
        /\ w = Wide(t, time) /\ Spacing * w <= Slowest * t
        /\ least = (Fastest * t) \div Spacing /\ least <= w /\ least <= t
        /\ \A later \in Int : time <= later => w <= Wide(t, later)
  BY WideIs
<1>2. PICK c \in Nat : c = Capped(t, time, most) /\ c <= w /\ c <= most /\ least <= c
  BY <1>1 DEF Capped
<1>3. HalfTop \in Nat
  BY Halves
<1>4. PICK after \in Nat : after = Rounded(c) /\ after <= c
  BY <1>2, <1>3, RoundsDown
<1>5. Spacing * after <= Slowest * t
  <2>1. PICK sp \in Nat, sl \in Nat : sp = Spacing /\ sl = Slowest
    BY TargetsAssumption
  <2>2. sp * after <= sp * w
    BY <1>2, <1>4, ProductGrows
  <2>3. sp * after \in Nat /\ sp * w \in Nat /\ sl * t \in Nat
    OBVIOUS
  <2> QED
    BY <1>1, <2>1, <2>2, <2>3
<1>6. Rounded(least) <= after
  BY <1>2, <1>3, <1>4, RoundGrows
<1>7. ASSUME NEW later \in Int, time <= later PROVE after <= Rounded(Capped(t, later, most))
  <2>1. PICK v \in Nat : v = Wide(t, later) /\ w <= v
    BY <1>1, <1>7, WideIs
  <2>2. PICK d \in Nat : d = Capped(t, later, most) /\ c <= d /\ d <= most
    BY <1>1, <1>2, <2>1 DEF Capped
  <2> QED
    BY <1>2, <1>3, <1>4, <2>2, RoundGrows
<1> QED
  BY <1>1, <1>2, <1>4, <1>5, <1>6, <1>7

-----------------------------------------------------------------------------
(* Merged mining *)

\* A shift determines its count.
LEMMA BitBinds ==
  ASSUME NEW m \in Nat, NEW n \in Nat, Pow!Bit(m) = Pow!Bit(n)
  PROVE  m = n
<1>1. ASSUME NEW j \in Nat, NEW k \in Nat, j < k PROVE Pow!Bit(j) # Pow!Bit(k)
  <2>1. k - (j + 1) \in Nat /\ 1 + (k - (j + 1)) \in Nat /\ j + (1 + (k - (j + 1))) = k
    BY <1>1
  <2>2. PICK x \in Nat : x = Pow!Power(2, j) /\ x > 0
    BY PowerPositive
  <2>3. PICK y \in Nat : y = Pow!Power(2, k - (j + 1)) /\ y > 0
    BY <2>1, PowerPositive
  <2>4. Pow!Power(2, 1 + (k - (j + 1))) = 2 * y
    <3>1. PICK d \in Nat : d = k - (j + 1)
      BY <2>1
    <3>2. Pow!Power(2, d + 1) = 2 * Pow!Power(2, d) /\ 1 + d = d + 1
      BY PowerSteps
    <3> QED
      BY <2>3, <3>1, <3>2
  <2>5. Pow!Power(2, k) = x * (2 * y)
    BY <2>1, <2>2, <2>4, PowerAdds
  <2>6. x * 2 <= x * (2 * y) /\ x * (2 * y) \in Nat
    BY <2>3, ProductGrows
  <2> QED
    BY <2>2, <2>5, <2>6 DEF Pow!Bit
<1> QED
  BY <1>1

\* The hashes from a leaf up its branch (pow.c:237-245).
Turn(branch, index, n, below) ==
  IF (index \div Pow!Bit(n - 1)) % 2 = 1 THEN Pow!Node(branch[n], below)
  ELSE Pow!Node(below, branch[n])
Climbs(f, m, leaf, branch, index) ==
  f = [n \in 0..m |-> IF n = 0 THEN leaf ELSE Turn(branch, index, n, f[n - 1])]

LEMMA ClimbSteps ==
  ASSUME NEW leaf, NEW branch, IsList(branch), NEW index
  PROVE  \E f : /\ f[0] = leaf
                /\ \A n \in 1..Len(branch) : f[n] = Turn(branch, index, n, f[n - 1])
                /\ Pow!Climb(leaf, branch, index) = f[Len(branch)]
<1> DEFINE P == {m \in Nat : \E f : Climbs(f, m, leaf, branch, index)}
<1>1. 0 \in P
  <2>1. Climbs([n \in 0..0 |-> leaf], 0, leaf, branch, index)
    BY DEF Climbs
  <2> QED
    BY <2>1
<1>2. ASSUME NEW m \in P PROVE m + 1 \in P
  <2>1. PICK f : Climbs(f, m, leaf, branch, index)
    OBVIOUS
  <2> DEFINE g == [n \in 0..(m + 1) |-> IF n <= m THEN f[n]
                                        ELSE Turn(branch, index, n, f[n - 1])]
  <2>2. \A n \in 0..m : f[n] = IF n = 0 THEN leaf ELSE Turn(branch, index, n, f[n - 1])
    BY <2>1 DEF Climbs
  <2>3. \A n \in 0..(m + 1) : g[n] = IF n = 0 THEN leaf ELSE Turn(branch, index, n, g[n - 1])
    BY <2>2
  <2>4. Climbs(g, m + 1, leaf, branch, index)
    BY <2>3 DEF Climbs
  <2> HIDE DEF g
  <2> QED
    BY <2>4
<1>3. Len(branch) \in P
  <2> HIDE DEF P
  <2>1. P \in SUBSET Nat
    BY DEF P
  <2> QED
    BY <1>1, <1>2, <2>1, NatInduct DEF IsList
<1> DEFINE f == CHOOSE f : Climbs(f, Len(branch), leaf, branch, index)
<1>4. Climbs(f, Len(branch), leaf, branch, index)
  BY <1>3
<1>5. Pow!Climb(leaf, branch, index) = f[Len(branch)]
  BY DEF Pow!Climb, Climbs, Turn
<1> HIDE DEF f
<1>6. \A n \in 0..Len(branch) : f[n] = IF n = 0 THEN leaf ELSE Turn(branch, index, n, f[n - 1])
  BY <1>4 DEF Climbs
<1> QED
  BY <1>5, <1>6 DEF IsList

\* Two branches of one length that end with the same hash at the same index start
\* from the same leaf (pow.c:237-245).
LEMMA ClimbBinds ==
  ASSUME NEW x, NEW y, NEW b, NEW c, IsList(b), IsList(c), Len(b) = Len(c), NEW index,
         Pow!Climb(x, b, index) = Pow!Climb(y, c, index)
  PROVE  x = y
<1>1. PICK f : /\ f[0] = x
               /\ \A n \in 1..Len(b) : f[n] = Turn(b, index, n, f[n - 1])
               /\ Pow!Climb(x, b, index) = f[Len(b)]
  BY ClimbSteps
<1>2. PICK g : /\ g[0] = y
               /\ \A n \in 1..Len(c) : g[n] = Turn(c, index, n, g[n - 1])
               /\ Pow!Climb(y, c, index) = g[Len(c)]
  BY ClimbSteps
<1> DEFINE P == {d \in Nat : d <= Len(b) => f[Len(b) - d] = g[Len(b) - d]}
<1>3. 0 \in P
  <2>1. Len(b) - 0 = Len(b)
    BY DEF IsList
  <2> QED
    BY <1>1, <1>2, <2>1
<1>4. ASSUME NEW d \in P, d + 1 <= Len(b) PROVE f[Len(b) - (d + 1)] = g[Len(b) - (d + 1)]
  <2> DEFINE n == Len(b) - d
  <2>1. n \in 1..Len(b) /\ n - 1 = Len(b) - (d + 1) /\ f[n] = g[n]
    BY <1>4 DEF IsList
  <2> HIDE DEF n
  <2>2. Turn(b, index, n, f[n - 1]) = Turn(c, index, n, g[n - 1])
    BY <1>1, <1>2, <2>1
  <2>3. f[n - 1] = g[n - 1]
    BY <2>2 DEF Turn, Pow!Node
  <2> QED
    BY <2>1, <2>3
<1>5. Len(b) \in P
  <2>1. \A d \in P : d + 1 \in P
    BY <1>4
  <2> HIDE DEF P
  <2>2. P \in SUBSET Nat
    BY DEF P
  <2> QED
    BY <1>3, <2>1, <2>2, NatInduct DEF IsList
<1>6. Len(b) - Len(b) = 0 /\ Len(b) <= Len(b) /\ Len(b) \in Nat
  BY DEF IsList
<1>7. f[Len(b) - Len(b)] = g[Len(b) - Len(b)]
  BY <1>5, <1>6
<1> QED
  BY <1>1, <1>2, <1>6, <1>7

\* The bytes before each token up to the i-th.
Counts(f, i, script) ==
  f = [k \in 1..i |-> IF k = 1 THEN 0 ELSE f[k - 1] + Pow!TokenBytes(script[k - 1])]

\* A script is a list of tokens of the four kinds.
IsScript(script) ==
  IsList(script) /\ \A i \in DOMAIN script : script[i].kind \in {"mark", "byte", "root", "num"}

\* The same, value by value.
Places(f, i, script) ==
  /\ \A k \in 2..i : f[k] = f[k - 1] + Pow!TokenBytes(script[k - 1])
  /\ \A k \in 1..i : f[k] \in Nat

LEMMA OffsetSteps ==
  ASSUME NEW script, IsScript(script), NEW i \in 1..Len(script)
  PROVE  \E f : Places(f, i, script) /\ Pow!Offset(script, i) = f[i]
<1> DEFINE P == {m \in Nat : \E f : Counts(f, m + 1, script)}
<1>1. 0 \in P
  <2>1. Counts([n \in 1..(0 + 1) |-> 0], 0 + 1, script)
    BY DEF Counts
  <2> QED
    BY <2>1
<1>2. ASSUME NEW m \in P PROVE m + 1 \in P
  <2>1. PICK f : Counts(f, m + 1, script)
    OBVIOUS
  <2> DEFINE g == [k \in 1..((m + 1) + 1) |-> IF k <= m + 1 THEN f[k]
                                        ELSE f[k - 1] + Pow!TokenBytes(script[k - 1])]
  <2>2. \A k \in 1..(m + 1) : f[k] = IF k = 1 THEN 0
                                     ELSE f[k - 1] + Pow!TokenBytes(script[k - 1])
    BY <2>1 DEF Counts
  <2>3. \A k \in 1..((m + 1) + 1) : g[k] = IF k = 1 THEN 0
                                           ELSE g[k - 1] + Pow!TokenBytes(script[k - 1])
    BY <2>2
  <2>4. Counts(g, (m + 1) + 1, script)
    BY <2>3 DEF Counts
  <2> HIDE DEF g
  <2> QED
    BY <2>4
<1>3. i \in Nat /\ i - 1 \in Nat /\ (i - 1) + 1 = i /\ i <= Len(script)
  BY DEF IsScript, IsList
<1>4. i - 1 \in P
  <2> HIDE DEF P
  <2>2. P \in SUBSET Nat
    BY DEF P
  <2>3. P = Nat
    BY <1>1, <1>2, <2>2, NatInduct
  <2> QED
    BY <1>3, <2>3
<1> DEFINE f == CHOOSE f : Counts(f, i, script)
<1>5. Counts(f, i, script)
  <2>1. \E h : Counts(h, (i - 1) + 1, script)
    BY <1>4
  <2> QED
    BY <1>3, <2>1
<1>6. Pow!Offset(script, i) = f[i]
  BY DEF Pow!Offset, Counts
<1> HIDE DEF f
<1>7. \A k \in 1..i : f[k] = IF k = 1 THEN 0
                             ELSE f[k - 1] + Pow!TokenBytes(script[k - 1])
  BY <1>5 DEF Counts
<1>8. \A k \in DOMAIN script : Pow!TokenBytes(script[k]) \in Nat
  BY DEF IsScript, Pow!TokenBytes
<1> DEFINE N == {m \in Nat : f[m + 1] \in Nat}
<1>9. 0 \in N
  BY <1>3, <1>7
<1>10. ASSUME NEW m \in 0..((i - 1) - 1), m \in N PROVE m + 1 \in N
  <2>1. (m + 1) + 1 \in 2..i /\ m + 1 \in DOMAIN script /\ f[m + 1] \in Nat /\ m + 1 \in Nat
    BY <1>3, <1>10 DEF IsScript, IsList
  <2>2. f[(m + 1) + 1] = f[m + 1] + Pow!TokenBytes(script[m + 1])
    BY <1>7, <2>1
  <2> QED
    BY <1>8, <2>1, <2>2
<1>11. \A m \in 0..(i - 1) : m \in N
  <2> HIDE DEF N
  <2> QED
    BY <1>3, <1>9, <1>10, NatInductTo
<1>12. ASSUME NEW k \in 1..i PROVE f[k] \in Nat
  <2>1. k - 1 \in 0..(i - 1) /\ (k - 1) + 1 = k
    BY <1>3
  <2>2. f[(k - 1) + 1] \in Nat
    BY <1>11, <2>1
  <2> QED
    BY <2>1, <2>2
<1> QED
  BY <1>3, <1>6, <1>7, <1>12 DEF Places

\* What follows a root is more than 20 bytes into the script (pow.c:380).
LEMMA RootIsLong ==
  ASSUME NEW script, IsScript(script), NEW a \in DOMAIN script, NEW b \in DOMAIN script,
         a < b, script[a].kind = "root"
  PROVE  Pow!Offset(script, b) \in Nat /\ Pow!Offset(script, b) > 20
<1>1. Len(script) \in Nat /\ DOMAIN script = 1..Len(script) /\ a \in Nat /\ b \in Nat
  BY DEF IsScript, IsList
<1>2. PICK m \in Nat : b = (a + 1) + m
  <2>1. b - (a + 1) \in Nat /\ b = (a + 1) + (b - (a + 1))
    BY <1>1
  <2> QED
    BY <2>1
<1>3. PICK f : Places(f, b, script) /\ Pow!Offset(script, b) = f[b]
  <2>1. b \in 1..Len(script)
    BY <1>1
  <2> QED
    BY <2>1, OffsetSteps
<1>4. \A k \in DOMAIN script : Pow!TokenBytes(script[k]) \in Nat
  BY DEF IsScript, Pow!TokenBytes
<1> DEFINE P == {d \in Nat : f[(a + 1) + d] > 20}
<1>5. 0 \in P
  <2>1. Pow!TokenBytes(script[a]) = 32
    BY DEF Pow!TokenBytes
  <2>2. a + 1 \in 2..b /\ (a + 1) - 1 = a /\ a \in 1..b /\ (a + 1) + 0 = a + 1
    BY <1>1
  <2>3. f[a + 1] = f[a] + 32 /\ f[a] \in Nat
    BY <1>3, <2>1, <2>2 DEF Places
  <2> QED
    BY <2>2, <2>3
<1>6. ASSUME NEW d \in 0..(m - 1), d \in P PROVE d + 1 \in P
  <2> DEFINE k == ((a + 1) + d) + 1
  <2>1. k \in 2..b /\ k - 1 = (a + 1) + d /\ (a + 1) + (d + 1) = k /\ d + 1 \in Nat
    BY <1>1, <1>2
  <2>2. f[k - 1] > 20
    BY <1>6, <2>1
  <2> HIDE DEF k
  <2>3. k - 1 \in 1..b /\ k - 1 \in DOMAIN script
    BY <1>1, <2>1
  <2>4. f[k] = f[k - 1] + Pow!TokenBytes(script[k - 1]) /\ f[k - 1] \in Nat
    BY <1>3, <2>1, <2>3 DEF Places
  <2>5. f[k] > 20
    BY <1>4, <2>2, <2>3, <2>4
  <2> QED
    BY <2>1, <2>5
<1>7. m \in P
  <2> HIDE DEF P
  <2>1. \A d \in 0..m : d \in P
    BY <1>5, <1>6, NatInductTo
  <2> QED
    BY <2>1
<1>8. f[b] > 20 /\ f[b] \in Nat
  BY <1>1, <1>2, <1>3, <1>7 DEF Places
<1> QED
  BY <1>3, <1>8

\* The first root x of a script, right after the only mark or near the start, with
\* the size of its tree and the slot that its nonce draws (pow.c:367-393).
Marks(script) == {k \in DOMAIN script : script[k] = Pow!Mark}
Shown(script, k, x, depth, slot) ==
  /\ k \in DOMAIN script /\ script[k] = Pow!Root(x)
  /\ IF Marks(script) # {} THEN Marks(script) = {k - 1} ELSE Pow!Offset(script, k) <= 20
  /\ script[k + 1] = Pow!Num(Pow!Bit(depth))
  /\ slot = Pow!Slot(script[k + 2].n, Pow!Bit(depth))

LEMMA CommitsShows ==
  ASSUME NEW script, IsScript(script), NEW x, NEW depth, NEW slot,
         Pow!Commits(script, x, depth, slot)
  PROVE  \E k : Shown(script, k, x, depth, slot)
<1> DEFINE found == {k \in DOMAIN script : script[k] = Pow!Root(x)}
           first == CHOOSE k \in found : \A l \in found : k <= l
<1>1. /\ found # {}
      /\ IF Marks(script) # {} THEN Marks(script) = {first - 1}
         ELSE Pow!Offset(script, first) <= 20
      /\ script[first + 1] = Pow!Num(Pow!Bit(depth))
      /\ slot = Pow!Slot(script[first + 2].n, Pow!Bit(depth))
  BY DEF Pow!Commits, Pow!SlotOK, Marks
<1>2. found \in SUBSET Nat
  BY DEF IsScript, IsList
<1>3. first \in found
  <2> HIDE DEF found
  <2>1. \E k \in found : \A l \in found : k <= l
    BY <1>1, <1>2, LeastOf
  <2> QED
    BY <2>1
<1>4. first \in DOMAIN script /\ script[first] = Pow!Root(x)
  <2> HIDE DEF first
  <2> QED
    BY <1>3
<1> HIDE DEF found, first
<1>5. Shown(script, first, x, depth, slot)
  BY <1>1, <1>4 DEF Shown
<1> QED
  BY <1>5

\* A script commits to one root, for one depth and one slot (pow.c:367-393).
LEMMA CommitsBind ==
  ASSUME NEW script, IsScript(script), NEW r, NEW s, NEW d \in Nat, NEW e \in Nat, NEW i, NEW j,
         Pow!Commits(script, r, d, i), Pow!Commits(script, s, e, j)
  PROVE  r = s /\ d = e /\ i = j
<1>1. PICK k : Shown(script, k, r, d, i)
  BY CommitsShows
<1>2. PICK l : Shown(script, l, s, e, j)
  BY CommitsShows
<1>3. k = l
  <2>1. k \in Nat /\ l \in Nat
    BY <1>1, <1>2 DEF Shown, IsScript, IsList
  <2>2. CASE Marks(script) # {}
    BY <1>1, <1>2, <2>1, <2>2 DEF Shown
  <2>3. CASE Marks(script) = {}
    <3>1. script[k].kind = "root" /\ script[l].kind = "root"
      BY <1>1, <1>2 DEF Shown, Pow!Root
    <3>2. /\ k \in DOMAIN script /\ Pow!Offset(script, k) <= 20
          /\ l \in DOMAIN script /\ Pow!Offset(script, l) <= 20
      BY <1>1, <1>2, <2>3 DEF Shown
    <3>3. ~(k < l)
      <4>1. SUFFICES ASSUME k < l PROVE FALSE
        OBVIOUS
      <4>2. Pow!Offset(script, l) \in Nat /\ Pow!Offset(script, l) > 20
        BY <3>1, <3>2, <4>1, RootIsLong
      <4> QED
        BY <3>2, <4>2
    <3>4. ~(l < k)
      <4>1. SUFFICES ASSUME l < k PROVE FALSE
        OBVIOUS
      <4>2. Pow!Offset(script, k) \in Nat /\ Pow!Offset(script, k) > 20
        BY <3>1, <3>2, <4>1, RootIsLong
      <4> QED
        BY <3>2, <4>2
    <3> QED
      BY <2>1, <3>3, <3>4
  <2> QED
    BY <2>2, <2>3
<1>4. Pow!Root(r) = Pow!Root(s) /\ Pow!Num(Pow!Bit(d)) = Pow!Num(Pow!Bit(e))
  BY <1>1, <1>2, <1>3 DEF Shown
<1>5. r = s /\ Pow!Bit(d) = Pow!Bit(e)
  BY <1>4 DEF Pow!Root, Pow!Num
<1>6. i = j
  BY <1>1, <1>2, <1>3, <1>5 DEF Shown
<1> QED
  BY <1>5, <1>6, BitBinds

\* A coinbase of a parent proves one header at most (pow.c:348-399).
LEMMA AuxBinds ==
  ASSUME NEW g, NEW h, NEW p, NEW q, Pow!AuxOK(g, p), Pow!AuxOK(h, q),
         p.coinbase.script = q.coinbase.script, IsScript(p.coinbase.script),
         IsList(p.chainBranch), IsList(q.chainBranch)
  PROVE  g.id = h.id
<1> DEFINE script == p.coinbase.script
           r == Pow!Climb(Pow!Leaf(g.id), p.chainBranch, p.index)
           s == Pow!Climb(Pow!Leaf(h.id), q.chainBranch, q.index)
           d == Len(p.chainBranch)
           e == Len(q.chainBranch)
<1>1. Pow!Commits(script, r, d, p.index) /\ Pow!Commits(script, s, e, q.index)
  BY DEF Pow!AuxOK
<1>2. d \in Nat /\ e \in Nat /\ IsScript(script)
  BY DEF IsList
<1>3. r = s /\ d = e /\ p.index = q.index
  <2> HIDE DEF script, r, s, d, e
  <2> QED
    BY <1>1, <1>2, CommitsBind
<1>4. Pow!Leaf(g.id) = Pow!Leaf(h.id)
  BY <1>3, ClimbBinds
<1> QED
  BY <1>4 DEF Pow!Leaf

-----------------------------------------------------------------------------
(* Merkle roots *)

LEMMA ListOf ==
  ASSUME NEW m \in Nat, NEW s, s = [i \in 1..m |-> s[i]]
  PROVE  IsList(s) /\ Len(s) = m
<1> DEFINE S == {s[i] : i \in 1..m}
<1>1. s \in [1..m -> S]
  <2> DEFINE t == [i \in 1..m |-> s[i]]
  <2>1. t \in [1..m -> S]
    OBVIOUS
  <2> HIDE DEF S, t
  <2>2. s = t
    BY DEF t
  <2> QED
    BY <2>1, <2>2
<1> HIDE DEF S
<1>2. s \in Seq(S)
  BY <1>1, SeqDef
<1>3. Len(s) = m
  BY <1>1, <1>2, LenProperties
<1> QED
  BY <1>3 DEF IsList

\* A level has half the nodes of the one below, rounded up (chain.c:180-190).
LEMMA LevelHalves ==
  ASSUME NEW s, IsList(s), Len(s) > 0
  PROVE  /\ IsList(Pow!Level(s)) /\ Len(Pow!Level(s)) = (Len(s) + 1) \div 2
         /\ \A i \in 1..Len(Pow!Level(s)) :
              Pow!Level(s)[i] =
                Pow!Node(s[2 * i - 1], s[IF 2 * i > Len(s) THEN 2 * i - 1 ELSE 2 * i])
<1> DEFINE m == (Len(s) + 1) \div 2
           up(i) == Pow!Node(s[2 * i - 1], s[IF 2 * i > Len(s) THEN 2 * i - 1 ELSE 2 * i])
           t == Pow!Level(s)
<1>1. m \in Nat
  BY DEF IsList
<1>2. t = [i \in 1..m |-> up(i)]
  BY DEF Pow!Level
<1> HIDE DEF m, up, t
<1>3. t = [i \in 1..m |-> t[i]] /\ \A i \in 1..m : t[i] = up(i)
  BY <1>2
<1>4. IsList(t) /\ Len(t) = m
  BY <1>1, <1>3, ListOf
<1> QED
  BY <1>3, <1>4 DEF m, up, t

\* Two levels without twins that have the same hashes are the same: a hash that was
\* paired with itself would be the pair that the other level supplies (chain.c:171-175).
LEMMA LevelBinds ==
  ASSUME NEW s, NEW t, IsList(s), IsList(t), Len(s) > 0, Len(t) > 0,
         ~Pow!Twins(s), ~Pow!Twins(t), Pow!Level(s) = Pow!Level(t)
  PROVE  s = t
<1> DEFINE p == Len(s)
           q == Len(t)
           Up(x, i) == Pow!Node(x[2 * i - 1], x[IF 2 * i > Len(x) THEN 2 * i - 1 ELSE 2 * i])
<1>1. p \in Nat /\ q \in Nat /\ p > 0 /\ q > 0
  BY DEF IsList
<1>2. /\ (p + 1) \div 2 = (q + 1) \div 2
      /\ \A i \in 1..((p + 1) \div 2) : Up(s, i) = Up(t, i)
  <2>1. /\ Len(Pow!Level(s)) = (p + 1) \div 2
        /\ \A i \in 1..Len(Pow!Level(s)) : Pow!Level(s)[i] = Up(s, i)
    BY LevelHalves
  <2>2. /\ Len(Pow!Level(t)) = (q + 1) \div 2
        /\ \A i \in 1..Len(Pow!Level(t)) : Pow!Level(t)[i] = Up(t, i)
    BY LevelHalves
  <2> HIDE DEF Up, p, q
  <2> QED
    BY <2>1, <2>2
<1>3. \A i \in 1..((p + 1) \div 2) :
         /\ s[2 * i - 1] = t[2 * i - 1]
         /\ s[IF 2 * i > p THEN 2 * i - 1 ELSE 2 * i] = t[IF 2 * i > q THEN 2 * i - 1 ELSE 2 * i]
  BY <1>2 DEF Pow!Node
<1>4. p = q
  <2>1. ASSUME p < q PROVE FALSE
    <3> DEFINE i == q \div 2
    <3>1. i \in 1..((p + 1) \div 2) /\ 2 * i = q /\ 2 * i > p /\ i \in 1..(q \div 2)
      BY <1>1, <1>2, <2>1
    <3>2. t[2 * i - 1] = t[2 * i]
      <4> HIDE DEF i, p, q
      <4>1. i \in Nat /\ ~(2 * i > q) /\ 2 * i > p
        BY <1>1, <3>1
      <4>2. /\ s[2 * i - 1] = t[2 * i - 1]
            /\ s[IF 2 * i > p THEN 2 * i - 1 ELSE 2 * i] = t[IF 2 * i > q THEN 2 * i - 1 ELSE 2 * i]
        BY <1>3, <3>1
      <4> QED
        BY <4>1, <4>2
    <3> HIDE DEF i
    <3> QED
      BY <3>1, <3>2 DEF Pow!Twins
  <2>2. ASSUME q < p PROVE FALSE
    <3> DEFINE i == p \div 2
    <3>1. i \in 1..((p + 1) \div 2) /\ 2 * i = p /\ 2 * i > q /\ i \in 1..(p \div 2)
      BY <1>1, <1>2, <2>2
    <3>2. s[2 * i - 1] = s[2 * i]
      BY <1>1, <1>3, <3>1
    <3> HIDE DEF i
    <3> QED
      BY <3>1, <3>2 DEF Pow!Twins
  <2> QED
    BY <1>1, <2>1, <2>2
<1>5. ASSUME NEW k \in 1..p PROVE s[k] = t[k]
  <2> DEFINE i == (k + 1) \div 2
  <2>1. i \in 1..((p + 1) \div 2) /\ (k = 2 * i - 1 \/ (k = 2 * i /\ ~(2 * i > p)))
    BY <1>1
  <2> HIDE DEF i
  <2> QED
    BY <1>3, <1>4, <2>1
<1>6. s = [k \in 1..p |-> s[k]] /\ t = [k \in 1..p |-> t[k]]
  BY <1>4 DEF IsList
<1> HIDE DEF p, q
<1> QED
  BY <1>5, <1>6

\* The levels of a tree, each from the one below (chain.c:176-193).
Over(below) == IF Len(below) <= 1 THEN below ELSE Pow!Level(below)
Ladder(f, m, ids) == f = [n \in 0..m |-> IF n = 0 THEN ids ELSE Over(f[n - 1])]

LEMMA LevelsSteps ==
  ASSUME NEW ids, IsList(ids)
  PROVE  /\ Pow!Levels(ids)[0] = ids
         /\ \A n \in 1..Len(ids) : Pow!Levels(ids)[n] = Over(Pow!Levels(ids)[n - 1])
<1> DEFINE P == {m \in Nat : \E f : Ladder(f, m, ids)}
<1>1. 0 \in P
  <2>1. Ladder([n \in 0..0 |-> ids], 0, ids)
    BY DEF Ladder
  <2> QED
    BY <2>1
<1>2. ASSUME NEW m \in P PROVE m + 1 \in P
  <2>1. PICK f : Ladder(f, m, ids)
    OBVIOUS
  <2> DEFINE g == [n \in 0..(m + 1) |-> IF n <= m THEN f[n] ELSE Over(f[n - 1])]
  <2>2. \A n \in 0..m : f[n] = IF n = 0 THEN ids ELSE Over(f[n - 1])
    BY <2>1 DEF Ladder
  <2>3. \A n \in 0..(m + 1) : g[n] = IF n = 0 THEN ids ELSE Over(g[n - 1])
    BY <2>2
  <2>4. Ladder(g, m + 1, ids)
    BY <2>3 DEF Ladder
  <2> HIDE DEF g
  <2> QED
    BY <2>4
<1>3. Len(ids) \in P
  <2> HIDE DEF P
  <2>1. P \in SUBSET Nat
    BY DEF P
  <2> QED
    BY <1>1, <1>2, <2>1, NatInduct DEF IsList
<1> DEFINE f == CHOOSE f : Ladder(f, Len(ids), ids)
<1>4. Ladder(f, Len(ids), ids)
  BY <1>3
<1>5. Pow!Levels(ids) = f
  BY DEF Pow!Levels, Ladder, Over
<1> HIDE DEF f
<1>6. \A n \in 0..Len(ids) : f[n] = IF n = 0 THEN ids ELSE Over(f[n - 1])
  BY <1>4 DEF Ladder
<1> QED
  BY <1>5, <1>6 DEF IsList

\* The levels are lists that shrink to one hash.
Small(s, n, N) == IsList(s) /\ Len(s) > 0 /\ (Len(s) = 1 \/ Len(s) + n <= N)

LEMMA OverShrinks ==
  ASSUME NEW s, NEW n \in Nat, NEW N \in Nat, Small(s, n, N)
  PROVE  Small(Over(s), n + 1, N)
<1>1. PICK l \in Nat : l = Len(s)
  BY DEF Small, IsList
<1>2. IsList(s) /\ l > 0 /\ (l = 1 \/ l + n <= N)
  BY <1>1 DEF Small
<1>3. CASE l = 1
  <2>1. Over(s) = s
    BY <1>1, <1>3 DEF Over
  <2> QED
    BY <1>1, <1>2, <1>3, <2>1 DEF Small
<1>4. CASE l > 1
  <2>1. PICK h \in Nat : h = (l + 1) \div 2
    OBVIOUS
  <2>2. h > 0 /\ h <= l - 1
    BY <1>4, <2>1
  <2>3. h + (n + 1) <= N
    BY <1>2, <1>4, <2>2
  <2>4. Over(s) = Pow!Level(s)
    BY <1>1, <1>4 DEF Over
  <2>5. IsList(Over(s)) /\ Len(Over(s)) = h
    BY <1>1, <1>2, <2>1, <2>4, LevelHalves
  <2> QED
    BY <2>2, <2>3, <2>5 DEF Small
<1> QED
  BY <1>2, <1>3, <1>4

LEMMA LevelsShrink ==
  ASSUME NEW ids, IsList(ids), Len(ids) > 0
  PROVE  /\ \A n \in 0..Len(ids) : IsList(Pow!Levels(ids)[n]) /\ Len(Pow!Levels(ids)[n]) > 0
         /\ Len(Pow!Levels(ids)[Len(ids)]) = 1
<1> DEFINE f == Pow!Levels(ids)
           N == Len(ids)
           P == {n \in Nat : Small(f[n], n, N)}
<1>1. N \in Nat
  BY DEF IsList
<1>2. f[0] = ids /\ \A n \in 1..N : f[n] = Over(f[n - 1])
  BY LevelsSteps
<1> HIDE DEF f
<1>3. 0 \in P
  BY <1>1, <1>2 DEF Small
<1>4. ASSUME NEW n \in 0..(N - 1), n \in P PROVE n + 1 \in P
  <2>1. n \in Nat /\ n + 1 \in 1..N /\ (n + 1) - 1 = n /\ Small(f[n], n, N)
    BY <1>1, <1>4
  <2>2. f[n + 1] = Over(f[n])
    BY <1>2, <2>1
  <2>3. Small(Over(f[n]), n + 1, N)
    BY <1>1, <2>1, OverShrinks
  <2> QED
    BY <2>1, <2>2, <2>3
<1>5. \A n \in 0..N : n \in P
  <2> HIDE DEF P, N
  <2> QED
    BY <1>1, <1>3, <1>4, NatInductTo
<1>6. N \in P
  BY <1>1, <1>5
<1>7. Len(f[N]) = 1
  BY <1>1, <1>6 DEF IsList, Small
<1> QED
  BY <1>5, <1>7 DEF f, Small

\* Lists of the ids of transactions, none of them the hash of a pair, that pass the
\* check for supplied twins under one root are the same (chain.c:156-193).
IsLeaves(ids) == IsList(ids) /\ \A i \in 1..Len(ids) : \E k : ids[i] = Pow!Leaf(k)

LEMMA RootOfOne ==
  ASSUME NEW a, NEW b, IsLeaves(a), IsLeaves(b), Len(a) > 0, Len(b) > 0,
         ~Pow!Mutated(a), ~Pow!Mutated(b), Pow!MerkleRoot(a) = Pow!MerkleRoot(b)
  PROVE  a = b
<1> DEFINE f == Pow!Levels(a)
           g == Pow!Levels(b)
           A == Len(a)
           B == Len(b)
<1>1. A \in Nat /\ B \in Nat /\ A > 0 /\ B > 0
  BY DEF IsLeaves, IsList
<1>2. f[0] = a /\ \A n \in 1..A : f[n] = Over(f[n - 1])
  BY LevelsSteps DEF IsLeaves
<1>3. g[0] = b /\ \A n \in 1..B : g[n] = Over(g[n - 1])
  BY LevelsSteps DEF IsLeaves
<1>4. \A n \in 0..A : IsList(f[n]) /\ Len(f[n]) > 0 /\ ~Pow!Twins(f[n])
  BY LevelsShrink DEF IsLeaves, Pow!Mutated
<1>5. \A n \in 0..B : IsList(g[n]) /\ Len(g[n]) > 0 /\ ~Pow!Twins(g[n])
  BY LevelsShrink DEF IsLeaves, Pow!Mutated
<1>6. f[A] = g[B]
  <2>1. Len(f[A]) = 1 /\ Len(g[B]) = 1
    BY LevelsShrink DEF IsLeaves
  <2>2. f[A][1] = g[B][1]
    BY DEF Pow!MerkleRoot
  <2>3. IsList(f[A]) /\ IsList(g[B])
    BY <1>1, <1>4, <1>5
  <2> HIDE DEF f, g
  <2>4. f[A] = [i \in 1..1 |-> f[A][i]] /\ g[B] = [i \in 1..1 |-> g[B][i]]
    BY <2>1, <2>3 DEF IsList
  <2>5. \A i \in 1..1 : f[A][i] = g[B][i]
    BY <2>2
  <2> QED
    BY <2>4, <2>5
<1> HIDE DEF f, g
<1>7. \A s, t : IsLeaves(s) /\ IsList(t) /\ Len(s) > 0 /\ Len(t) > 0 => s # Pow!Level(t)
  <2> SUFFICES ASSUME NEW s, NEW t, IsLeaves(s), IsList(t), Len(s) > 0, Len(t) > 0,
                      s = Pow!Level(t)
               PROVE  FALSE
    OBVIOUS
  <2>1. 1 \in 1..Len(s)
    BY DEF IsLeaves, IsList
  <2>2. PICK k : s[1] = Pow!Leaf(k)
    BY <2>1 DEF IsLeaves
  <2>3. PICK l, r : s[1] = Pow!Node(l, r)
    BY <2>1, LevelHalves
  <2>4. <<k>> = <<l, r>>
    BY <2>2, <2>3 DEF Pow!Leaf, Pow!Node
  <2>5. Len(<<k>>) = 1 /\ Len(<<l, r>>) = 2
    OBVIOUS
  <2> QED
    BY <2>4, <2>5
<1> DEFINE P == {k \in Nat : \A n \in 0..A, m \in 0..B : n + m <= k /\ f[n] = g[m] => a = b}
<1>8. 0 \in P
  BY <1>1, <1>2, <1>3
<1>9. ASSUME NEW k \in Nat, k \in P,
             NEW n \in 0..A, NEW m \in 0..B, n + m <= k + 1, f[n] = g[m]
      PROVE  a = b
  <2>1. CASE n = 0 /\ m = 0
    BY <1>2, <1>3, <1>9, <2>1
  <2>2. CASE n > 0 /\ f[n] = f[n - 1]
    <3>1. n - 1 \in 0..A /\ (n - 1) + m <= k
      BY <1>1, <1>9, <2>2
    <3> QED
      BY <1>9, <2>2, <3>1
  <2>3. CASE m > 0 /\ g[m] = g[m - 1]
    <3>1. m - 1 \in 0..B /\ n + (m - 1) <= k
      BY <1>1, <1>9, <2>3
    <3> QED
      BY <1>9, <2>3, <3>1
  <2>4. CASE n > 0 /\ f[n] # f[n - 1]
    <3>1. f[n] = Pow!Level(f[n - 1]) /\ n - 1 \in 0..A
      BY <1>1, <1>2, <2>4 DEF Over
    <3>2. m > 0
      <4>1. SUFFICES ASSUME m = 0 PROVE FALSE
        BY <1>1
      <4>2. b = Pow!Level(f[n - 1])
        BY <1>3, <1>9, <3>1, <4>1
      <4> QED
        BY <1>4, <1>7, <3>1, <4>2
    <3>3. CASE g[m] = g[m - 1]
      BY <2>3, <3>2, <3>3
    <3>4. CASE g[m] # g[m - 1]
      <4>1. g[m] = Pow!Level(g[m - 1]) /\ m - 1 \in 0..B
        BY <1>1, <1>3, <3>2, <3>4 DEF Over
      <4>2. f[n - 1] = g[m - 1]
        BY <1>4, <1>5, <1>9, <3>1, <4>1, LevelBinds
      <4>3. (n - 1) + (m - 1) <= k
        BY <1>1, <1>9
      <4> QED
        BY <1>9, <3>1, <4>1, <4>2, <4>3
    <3> QED
      BY <3>3, <3>4
  <2>5. CASE n = 0 /\ m > 0 /\ g[m] # g[m - 1]
    <3>1. g[m] = Pow!Level(g[m - 1]) /\ m - 1 \in 0..B
      BY <1>1, <1>3, <2>5 DEF Over
    <3> QED
      BY <1>1, <1>2, <1>5, <1>7, <1>9, <2>5, <3>1
  <2> QED
    BY <1>1, <2>1, <2>2, <2>3, <2>4, <2>5
<1>10. A + B \in P
  <2>1. ASSUME NEW k \in P PROVE k + 1 \in P
    <3>1. k \in Nat /\ k + 1 \in Nat
      OBVIOUS
    <3>2. \A n \in 0..A, m \in 0..B : n + m <= k + 1 /\ f[n] = g[m] => a = b
      <4> HIDE DEF P
      <4> QED
        BY <1>9, <2>1, <3>1
    <3> QED
      BY <3>1, <3>2
  <2> HIDE DEF P
  <2>2. P \in SUBSET Nat
    BY DEF P
  <2>3. P = Nat
    BY <1>8, <2>1, <2>2, NatInduct
  <2> QED
    BY <1>1, <2>3
<1>11. A \in 0..A /\ B \in 0..B /\ A + B <= A + B
  BY <1>1
<1> HIDE DEF A, B
<1> QED
  BY <1>6, <1>10, <1>11

-----------------------------------------------------------------------------
(* Attribution *)

\* The signatures met by the keys so far, key after key (attrib.c:259-268).
Meets(met, sigs, key) ==
  IF met < Len(sigs) /\ Attr!Verifies(sigs[met + 1], key) THEN met + 1 ELSE met
Passes(f, m, sigs, keys) ==
  f = [k \in 0..m |-> IF k = 0 THEN 0 ELSE Meets(f[k - 1], sigs, keys[k])]

LEMMA ScanSteps ==
  ASSUME NEW sigs, NEW keys, IsList(sigs), IsList(keys)
  PROVE  \E f : /\ f[0] = 0
                /\ \A k \in 1..Len(keys) : f[k] = Meets(f[k - 1], sigs, keys[k])
                /\ \A k \in 0..Len(keys) : f[k] \in 0..Len(sigs)
                /\ Attr!ScanKeys(sigs, keys) <=> f[Len(keys)] = Len(sigs)
<1> DEFINE P == {m \in Nat : \E f : Passes(f, m, sigs, keys)}
<1>1. 0 \in P
  <2>1. Passes([k \in 0..0 |-> 0], 0, sigs, keys)
    BY DEF Passes
  <2> QED
    BY <2>1
<1>2. ASSUME NEW m \in P PROVE m + 1 \in P
  <2>1. PICK f : Passes(f, m, sigs, keys)
    OBVIOUS
  <2> DEFINE g == [k \in 0..(m + 1) |-> IF k <= m THEN f[k] ELSE Meets(f[k - 1], sigs, keys[k])]
  <2>2. \A k \in 0..m : f[k] = IF k = 0 THEN 0 ELSE Meets(f[k - 1], sigs, keys[k])
    BY <2>1 DEF Passes
  <2>3. \A k \in 0..(m + 1) : g[k] = IF k = 0 THEN 0 ELSE Meets(g[k - 1], sigs, keys[k])
    BY <2>2
  <2>4. Passes(g, m + 1, sigs, keys)
    BY <2>3 DEF Passes
  <2> HIDE DEF g
  <2> QED
    BY <2>4
<1>3. Len(keys) \in P
  <2> HIDE DEF P
  <2>1. P \in SUBSET Nat
    BY DEF P
  <2> QED
    BY <1>1, <1>2, <2>1, NatInduct DEF IsList
<1> DEFINE f == CHOOSE f : Passes(f, Len(keys), sigs, keys)
<1>4. Passes(f, Len(keys), sigs, keys)
  BY <1>3
<1>5. Attr!ScanKeys(sigs, keys) <=> f[Len(keys)] = Len(sigs)
  BY DEF Attr!ScanKeys, Passes, Meets
<1> HIDE DEF f
<1>6. \A k \in 0..Len(keys) : f[k] = IF k = 0 THEN 0 ELSE Meets(f[k - 1], sigs, keys[k])
  BY <1>4 DEF Passes
<1>7. PICK n \in Nat : n = Len(keys)
  BY DEF IsList
<1>8. PICK l \in Nat : l = Len(sigs)
  BY DEF IsList
<1> DEFINE T == {k \in Nat : f[k] \in 0..l}
<1>9. 0 \in T
  BY <1>6, <1>7, <1>8
<1>10. ASSUME NEW k \in 0..(n - 1), k \in T PROVE k + 1 \in T
  <2>1. f[k + 1] = Meets(f[k], sigs, keys[k + 1])
    BY <1>6, <1>7
  <2>2. f[k] \in 0..l
    BY <1>10
  <2> HIDE DEF T
  <2>3. f[k + 1] \in 0..l
    BY <1>8, <2>1, <2>2 DEF Meets
  <2> QED
    BY <2>3 DEF T
<1>11. \A k \in 0..n : k \in T
  <2> HIDE DEF T
  <2> QED
    BY <1>9, <1>10, NatInductTo
<1> QED
  BY <1>5, <1>6, <1>7, <1>8, <1>11

\* Signatures that belong to keys in the order of the keys.
InOrder(f, m, n, sigs, keys) ==
  /\ f \in [1..m -> 1..n]
  /\ \A i, j \in 1..m : i < j => f[i] < f[j]
  /\ \A i \in 1..m : Attr!Verifies(sigs[i], keys[f[i]])

\* The pass over both finds the keys of all signatures, and only then ends with none
\* left (attrib.c:259-268).
LEMMA ScanFinds ==
  ASSUME NEW sigs, NEW keys, IsList(sigs), IsList(keys), Attr!ScanKeys(sigs, keys)
  PROVE  \E f : InOrder(f, Len(sigs), Len(keys), sigs, keys)
<1>1. PICK met : /\ met[0] = 0
                 /\ \A k \in 1..Len(keys) : met[k] = Meets(met[k - 1], sigs, keys[k])
                 /\ \A k \in 0..Len(keys) : met[k] \in 0..Len(sigs)
                 /\ met[Len(keys)] = Len(sigs)
  BY ScanSteps
<1>2. PICK n \in Nat : n = Len(keys)
  BY DEF IsList
<1>3. PICK l \in Nat : l = Len(sigs)
  BY DEF IsList
<1> DEFINE P == {k \in Nat : \E f : InOrder(f, met[k], k, sigs, keys)}
<1>4. 0 \in P
  <2>1. InOrder([i \in 1..0 |-> 1], 0, 0, sigs, keys)
    BY DEF InOrder
  <2> QED
    BY <1>1, <2>1
<1>5. ASSUME NEW k \in 0..(n - 1), k \in P PROVE k + 1 \in P
  <2>1. PICK f : InOrder(f, met[k], k, sigs, keys)
    BY <1>5
  <2>2. PICK a \in Nat : a = met[k]
    BY <1>1, <1>2, <1>3
  <2>3. met[k + 1] = Meets(a, sigs, keys[k + 1])
    BY <1>1, <1>2, <2>2
  <2>4. CASE met[k + 1] = a
    <3>1. InOrder(f, a, k + 1, sigs, keys)
      BY <2>1, <2>2 DEF InOrder
    <3> QED
      BY <2>4, <3>1
  <2>5. CASE met[k + 1] = a + 1 /\ Attr!Verifies(sigs[a + 1], keys[k + 1])
    <3> DEFINE g == [i \in 1..(a + 1) |-> IF i <= a THEN f[i] ELSE k + 1]
    <3>1. InOrder(g, a + 1, k + 1, sigs, keys)
      <4>1. /\ f \in [1..a -> 1..k]
            /\ \A i, j \in 1..a : i < j => f[i] < f[j]
            /\ \A i \in 1..a : Attr!Verifies(sigs[i], keys[f[i]])
        BY <2>1, <2>2 DEF InOrder
      <4>2. g \in [1..(a + 1) -> 1..(k + 1)]
        BY <4>1
      <4>3. \A i, j \in 1..(a + 1) : i < j => g[i] < g[j]
        BY <4>1
      <4>4. \A i \in 1..(a + 1) : Attr!Verifies(sigs[i], keys[g[i]])
        BY <2>5, <4>1
      <4> HIDE DEF g
      <4> QED
        BY <4>2, <4>3, <4>4 DEF InOrder
    <3> HIDE DEF g
    <3> QED
      BY <2>5, <3>1
  <2>6. met[k + 1] = a \/ (met[k + 1] = a + 1 /\ Attr!Verifies(sigs[a + 1], keys[k + 1]))
    BY <2>3 DEF Meets
  <2> QED
    BY <2>4, <2>5, <2>6
<1>6. n \in P
  <2> HIDE DEF P
  <2>1. \A k \in 0..n : k \in P
    BY <1>4, <1>5, NatInductTo
  <2> QED
    BY <2>1
<1> QED
  BY <1>1, <1>2, <1>6

LEMMA ScanMisses ==
  ASSUME NEW sigs, NEW keys, IsList(sigs), IsList(keys),
         NEW f, InOrder(f, Len(sigs), Len(keys), sigs, keys)
  PROVE  Attr!ScanKeys(sigs, keys)
<1>1. PICK met : /\ met[0] = 0
                 /\ \A k \in 1..Len(keys) : met[k] = Meets(met[k - 1], sigs, keys[k])
                 /\ \A k \in 0..Len(keys) : met[k] \in 0..Len(sigs)
                 /\ Attr!ScanKeys(sigs, keys) <=> met[Len(keys)] = Len(sigs)
  BY ScanSteps
<1>2. PICK n \in Nat : n = Len(keys)
  BY DEF IsList
<1>3. PICK l \in Nat : l = Len(sigs)
  BY DEF IsList
<1>4. /\ f \in [1..l -> 1..n]
      /\ \A i, j \in 1..l : i < j => f[i] < f[j]
      /\ \A i \in 1..l : Attr!Verifies(sigs[i], keys[f[i]])
  BY <1>2, <1>3 DEF InOrder
<1> DEFINE P == {k \in Nat : \A i \in 1..l : f[i] <= k => i <= met[k]}
<1>5. 0 \in P
  BY <1>4
<1>6. ASSUME NEW k \in 0..(n - 1), k \in P PROVE k + 1 \in P
  <2>1. PICK a \in 0..l : a = met[k]
    BY <1>1, <1>2, <1>3
  <2>2. met[k + 1] = Meets(a, sigs, keys[k + 1])
    BY <1>1, <1>2, <2>1
  <2>3. \A i \in 1..l : f[i] <= k => i <= a
    BY <1>6, <2>1
  <2>4. met[k + 1] \in {a, a + 1}
    BY <2>2 DEF Meets
  <2>5. ASSUME NEW i \in 1..l, f[i] <= k + 1 PROVE i <= met[k + 1]
    <3>1. CASE f[i] <= k
      BY <2>1, <2>3, <2>4, <3>1
    <3>2. CASE f[i] = k + 1
      <4>1. i - 1 <= a
        <5>1. CASE i = 1
          BY <2>1, <5>1
        <5>2. CASE i > 1
          <6>1. i - 1 \in 1..l /\ i - 1 < i
            BY <5>2
          <6>2. f[i - 1] \in 1..n /\ f[i - 1] < f[i]
            BY <1>4, <6>1
          <6>3. f[i - 1] <= k
            BY <3>2, <6>2
          <6> QED
            BY <2>3, <6>1, <6>3
        <5> QED
          BY <5>1, <5>2
      <4>2. CASE i <= a
        BY <2>1, <2>4, <4>2
      <4>3. CASE i = a + 1
        <5>1. a < Len(sigs) /\ Attr!Verifies(sigs[a + 1], keys[k + 1])
          BY <1>3, <1>4, <2>1, <3>2, <4>3
        <5>2. met[k + 1] = a + 1
          BY <2>2, <5>1 DEF Meets
        <5> QED
          BY <4>3, <5>2
      <4> QED
        BY <2>1, <4>1, <4>2, <4>3
    <3> QED
      BY <1>4, <2>5, <3>1, <3>2
  <2>6. k + 1 \in Nat
    OBVIOUS
  <2> QED
    BY <2>5, <2>6
<1>7. n \in P
  <2> HIDE DEF P
  <2>1. \A k \in 0..n : k \in P
    BY <1>5, <1>6, NatInductTo
  <2> QED
    BY <2>1
<1>8. met[n] = l
  <2>1. met[n] \in 0..l
    BY <1>1, <1>2, <1>3
  <2>2. CASE l = 0
    BY <2>1, <2>2
  <2>3. CASE l > 0
    <3>1. l \in 1..l /\ f[l] <= n
      BY <1>4, <2>3
    <3>2. l <= met[n]
      BY <1>7, <3>1
    <3> QED
      BY <2>1, <3>2
  <2> QED
    BY <2>2, <2>3
<1> QED
  BY <1>1, <1>2, <1>3, <1>8

LEMMA SeqIsList ==
  ASSUME NEW S, NEW s \in Seq(S)
  PROVE  IsList(s)
<1>1. Len(s) \in Nat /\ s \in [1..Len(s) -> S]
  BY LenProperties
<1> QED
  BY <1>1 DEF IsList

\* The signatures and the keys of an input that is classified are lists.
LEMMA ClaimedLists ==
  ASSUME NEW ss \in Scripts, Attr!SingleKey(ss) \/ Attr!MultiKey(ss)
  PROVE  IsList(Attr!Claimed(ss).sigs) /\ IsList(Attr!Claimed(ss).keys)
<1>1. IsList(ss) /\ \A i \in DOMAIN ss : ss[i].kind = "script" => IsList(ss[i].keys)
  BY ScriptsAssumption
<1>2. CASE Attr!SingleKey(ss)
  <2>1. Attr!Claimed(ss).sigs = <<ss[1]>> /\ Attr!Claimed(ss).keys = <<ss[2].key>>
    BY <1>2 DEF Attr!Claimed
  <2>2. <<ss[1]>> \in Seq({ss[1]}) /\ <<ss[2].key>> \in Seq({ss[2].key})
    OBVIOUS
  <2> QED
    BY <2>1, <2>2, SeqIsList
<1>3. CASE ~Attr!SingleKey(ss)
  <2>1. /\ Attr!Claimed(ss).sigs = SubSeq(ss, 2, Len(ss) - 1)
        /\ Attr!Claimed(ss).keys = Attr!Last(ss).keys
    BY <1>3 DEF Attr!Claimed
  <2>2. Len(ss) \in Nat /\ Len(ss) >= 3 /\ DOMAIN ss = 1..Len(ss) /\ Attr!Last(ss).kind = "script"
    BY <1>1, <1>3 DEF Attr!MultiKey, IsList
  <2>3. IsList(Attr!Last(ss).keys)
    BY <1>1, <2>2 DEF Attr!Last
  <2> DEFINE S == {ss[i] : i \in 2..(Len(ss) - 1)}
  <2>4. \A i \in 2..(Len(ss) - 1) : ss[i] \in S
    OBVIOUS
  <2> HIDE DEF S
  <2>5. SubSeq(ss, 2, Len(ss) - 1) \in Seq(S)
    BY <2>2, <2>4, SubSeqProperties
  <2> QED
    BY <2>1, <2>3, <2>5, SeqIsList
<1> QED
  BY <1>2, <1>3

\* An input of a transaction that the parser of the attribution holds has an identity
\* exactly when it is spent for one (attrib.c:203-270).
LEMMA AttributedIfSpent ==
  ASSUME NEW ss \in Scripts, TxIns \in 1..MaxIn, MaxIn \in Nat
  PROVE  LET tx == [ins |-> [i \in 1..TxIns |-> ss], outs |-> <<>>]
         IN  (Attr!Attribute(tx, 1).id # Unsigned) <=> Attr!SpentBy(ss)
<1> DEFINE tx == [ins |-> [i \in 1..TxIns |-> ss], outs |-> <<>>]
           sigs == Attr!Claimed(ss).sigs
           keys == Attr!Claimed(ss).keys
           classified == Attr!PushesOnly(ss) /\ (Attr!SingleKey(ss) \/ Attr!MultiKey(ss))
           points == \A k \in DOMAIN keys : keys[k] \notin OffCurve
<1>1. Attr!Held(tx) /\ tx.ins[1] = ss
  <2>1. [i \in 1..TxIns |-> ss] \in Seq({ss}) /\ TxIns \in Nat
    OBVIOUS
  <2>2. Len([i \in 1..TxIns |-> ss]) = TxIns
    BY <2>1
  <2>3. Len(<<>>) = 0 /\ MaxOut \in Nat
    BY CodesAssumption
  <2> QED
    BY <2>2, <2>3 DEF Attr!Held
<1>2. (Attr!Range(keys) \cap OffCurve # {}) <=> ~points
  BY DEF Attr!Range
<1>3. Attr!Status(tx, 1) = "FOUND" <=> classified /\ points /\ Attr!ScanKeys(sigs, keys)
  <2> HIDE DEF tx, sigs, keys
  <2> QED
    BY <1>1, <1>2 DEF Attr!Status, sigs, keys
<1>4. (Attr!Attribute(tx, 1).id # Unsigned) <=> Attr!Status(tx, 1) = "FOUND"
  <2>1. ASSUME Attr!Status(tx, 1) = "FOUND" PROVE Attr!Claimed(ss).id # Unsigned
    <3>1. classified
      BY <1>3, <2>1
    <3> QED
      BY <3>1, UnsignedAssumption
  <2> HIDE DEF tx
  <2> QED
    BY <1>1, <2>1 DEF Attr!Attribute
<1>5. ASSUME classified
      PROVE  Attr!ScanKeys(sigs, keys) <=>
               \E f \in [DOMAIN sigs -> DOMAIN keys] :
                 /\ \A i, j \in DOMAIN sigs : i < j => f[i] < f[j]
                 /\ \A i \in DOMAIN sigs : Attr!Verifies(sigs[i], keys[f[i]])
  <2>1. IsList(sigs) /\ IsList(keys)
    BY <1>5, ClaimedLists
  <2> HIDE DEF sigs, keys
  <2>2. DOMAIN sigs = 1..Len(sigs) /\ DOMAIN keys = 1..Len(keys)
    BY <2>1 DEF IsList
  <2>3. Attr!ScanKeys(sigs, keys) <=> \E f : InOrder(f, Len(sigs), Len(keys), sigs, keys)
    BY <2>1, ScanFinds, ScanMisses
  <2> QED
    BY <2>2, <2>3 DEF InOrder
<1>6. Attr!SpentBy(ss) <=> classified /\ points /\ Attr!ScanKeys(sigs, keys)
  BY <1>5 DEF Attr!SpentBy
<1> HIDE DEF tx
<1> QED
  BY <1>3, <1>4, <1>6 DEF tx

\* A list of elements of a set is a sequence over it.
LEMMA ListIsSeq ==
  ASSUME NEW S, NEW s, IsList(s), \A i \in DOMAIN s : s[i] \in S
  PROVE  s \in Seq(S)
<1>1. PICK n \in Nat : n = Len(s)
  BY DEF IsList
<1>2. s = [i \in 1..n |-> s[i]]
  BY <1>1 DEF IsList
<1>3. s \in [1..n -> S]
  BY <1>2
<1> QED
  BY <1>3

\* The push of data is a list of bytes, at least one, that says how long it is.
LEMMA PushSays ==
  ASSUME NEW d \in Seq(Nat), PushData \in Nat
  PROVE  LET pat == Attr!EmitPush(d)
         IN  /\ pat \in Seq(Nat) /\ Len(pat) >= 1
             /\ \/ pat[1] < PushData /\ Len(pat) = pat[1] + 1
                \/ Len(pat) >= 2 /\ pat[1] = PushData /\ Len(pat) = pat[2] + 2
<1>1. PICK n \in Nat : n = Len(d)
  OBVIOUS
<1>2. CASE n < PushData
  <2>1. Attr!EmitPush(d) = <<n>> \o d
    BY <1>1, <1>2 DEF Attr!EmitPush
  <2>2. <<n>> \o d \in Seq(Nat) /\ Len(<<n>> \o d) = n + 1 /\ (<<n>> \o d)[1] = n
    BY <1>1
  <2> QED
    BY <1>2, <2>1, <2>2
<1>3. CASE ~(n < PushData)
  <2>1. Attr!EmitPush(d) = <<PushData, n>> \o d
    BY <1>1, <1>3 DEF Attr!EmitPush
  <2> DEFINE t == <<PushData, n>> \o d
  <2>2. t \in Seq(Nat) /\ Len(t) = n + 2 /\ t[1] = PushData /\ t[2] = n
    BY <1>1
  <2> QED
    BY <2>1, <2>2
<1> QED
  BY <1>2, <1>3

\* The place after a direct push, and after one with a length byte (attrib.c:92-101).
LEMMA OpEnds ==
  ASSUME NEW s, NEW p
  PROVE  /\ s[p] < PushData /\ s[p] # PushData
              => Attr!NextOp(s, p) = IF p + 1 + s[p] > Len(s) + 1 THEN 0 ELSE p + 1 + s[p]
         /\ ~(s[p] < PushData) /\ s[p] = PushData /\ p < Len(s)
              => Attr!NextOp(s, p)
                   = IF p + 2 + s[p + 1] > Len(s) + 1 THEN 0 ELSE p + 2 + s[p + 1]
<1> DEFINE header == IF s[p] = PushData THEN 2 ELSE 1
           data == IF s[p] < PushData THEN s[p]
                   ELSE IF s[p] = PushData /\ p < Len(s) THEN s[p + 1]
                   ELSE 0
<1>1. Attr!NextOp(s, p) = IF p + header + data > Len(s) + 1 THEN 0 ELSE p + header + data
  BY DEF Attr!NextOp
<1>2. s[p] < PushData /\ s[p] # PushData => header = 1 /\ data = s[p]
  OBVIOUS
<1>3. ~(s[p] < PushData) /\ s[p] = PushData /\ p < Len(s) => header = 2 /\ data = s[p + 1]
  OBVIOUS
<1> HIDE DEF header, data
<1> QED
  BY <1>1, <1>2, <1>3, Zenon

\* A part of a list.
LEMMA PartIs ==
  ASSUME NEW s \in Seq(Nat), NEW p \in 1..Len(s), NEW n \in Nat, n >= 1, p + n - 1 <= Len(s)
  PROVE  /\ Len(SubSeq(s, p, p + n - 1)) = n
         /\ \A i \in 1..n : SubSeq(s, p, p + n - 1)[i] = s[p + i - 1]
OBVIOUS

\* Where a push begins, the operation there is that push (attrib.c:92-113).
LEMMA PushIsOp ==
  ASSUME NEW s \in Seq(Nat), NEW d \in Seq(Nat), PushData \in Nat, NEW p \in 1..Len(s)
  PROVE  LET pat == Attr!EmitPush(d)
             next == Attr!NextOp(s, p)
         IN  /\ p + Len(pat) - 1 <= Len(s) /\ Attr!At(s, p, pat)
                  <=> next # 0 /\ SubSeq(s, p, next - 1) = pat
             /\ p + Len(pat) - 1 <= Len(s) /\ Attr!At(s, p, pat) => next = p + Len(pat)
<1> DEFINE pat == Attr!EmitPush(d)
           next == Attr!NextOp(s, p)
<1>1. PICK l \in Nat : l = Len(s)
  OBVIOUS
<1>2. /\ pat \in Seq(Nat) /\ Len(pat) >= 1
      /\ \/ pat[1] < PushData /\ Len(pat) = pat[1] + 1
         \/ Len(pat) >= 2 /\ pat[1] = PushData /\ Len(pat) = pat[2] + 2
  BY PushSays
<1> HIDE DEF pat
<1>3. PICK n \in Nat : n = Len(pat)
  BY <1>2
<1>4. \A i \in 1..n : pat[i] \in Nat
  BY <1>2, <1>3
<1>5. n >= 1
  BY <1>2, <1>3
<1>6. ASSUME p + n - 1 <= l, Attr!At(s, p, pat)
      PROVE  next = p + n
  <2>1. pat = SubSeq(s, p, p + n - 1)
    BY <1>3, <1>6 DEF Attr!At
  <2>2. \A i \in 1..n : pat[i] = s[p + i - 1]
    <3>1. /\ Len(SubSeq(s, p, p + n - 1)) = n
          /\ \A i \in 1..n : SubSeq(s, p, p + n - 1)[i] = s[p + i - 1]
      <4>1. p + n - 1 <= Len(s)
        BY <1>1, <1>6
      <4> HIDE DEF next
      <4> QED
        BY <1>5, <4>1, PartIs
    <3> QED
      BY <2>1, <3>1
  <2>3. s[p] = pat[1]
    BY <1>5, <2>2
  <2>4. s[p] \in Nat
    BY <1>1
  <2>5. CASE pat[1] < PushData /\ n = pat[1] + 1
    <3>1. s[p] < PushData /\ s[p] # PushData
      BY <2>3, <2>4, <2>5
    <3>2. next = IF p + 1 + s[p] > Len(s) + 1 THEN 0 ELSE p + 1 + s[p]
      BY <3>1, OpEnds
    <3>3. p + 1 + s[p] = p + n /\ ~(p + 1 + s[p] > Len(s) + 1)
      <4>1. PICK v \in Nat : v = s[p]
        BY <2>4
      <4>2. n = v + 1 /\ p \in Nat /\ p + n - 1 <= l
        BY <1>1, <1>6, <2>3, <2>5, <4>1
      <4>3. p + 1 + v = p + n /\ ~(p + 1 + v > l + 1)
        BY <4>2
      <4> QED
        BY <1>1, <4>1, <4>3
    <3> HIDE DEF next
    <3> QED
      BY <3>2, <3>3
  <2>6. CASE n >= 2 /\ pat[1] = PushData /\ n = pat[2] + 2
    <3>1. s[p + 1] = pat[2]
      BY <2>2, <2>6
    <3>2. p < Len(s) /\ s[p] = PushData /\ ~(s[p] < PushData)
      BY <1>1, <1>6, <2>3, <2>6
    <3>3. next = IF p + 2 + s[p + 1] > Len(s) + 1 THEN 0 ELSE p + 2 + s[p + 1]
      BY <3>2, OpEnds
    <3>4. p + 2 + s[p + 1] = p + n /\ ~(p + 2 + s[p + 1] > Len(s) + 1)
      <4>1. PICK v \in Nat : v = s[p + 1]
        BY <1>4, <2>6, <3>1
      <4>2. n = v + 2 /\ p \in Nat /\ p + n - 1 <= l
        BY <1>1, <1>6, <2>6, <3>1, <4>1
      <4>3. p + 2 + v = p + n /\ ~(p + 2 + v > l + 1)
        BY <4>2
      <4> QED
        BY <1>1, <4>1, <4>3
    <3> HIDE DEF next
    <3> QED
      BY <3>3, <3>4
  <2> QED
    BY <1>2, <1>3, <2>5, <2>6
<1>7. next # 0 => next \in Nat /\ p + 1 <= next /\ next <= l + 1
  <2>1. s[p] \in Nat /\ (p < l => s[p + 1] \in Nat)
    BY <1>1
  <2> QED
    BY <1>1, <2>1 DEF Attr!NextOp
<1> HIDE DEF next
<1>8. ASSUME next # 0, SubSeq(s, p, next - 1) = pat
      PROVE  p + n - 1 <= l /\ Attr!At(s, p, pat)
  <2>1. Len(SubSeq(s, p, next - 1)) = next - p
    BY <1>1, <1>7, <1>8
  <2>2. next - p = n
    BY <1>3, <1>8, <2>1
  <2>3. next - 1 = p + n - 1 /\ p + n - 1 <= l
    BY <1>7, <1>8, <2>2
  <2> QED
    BY <1>3, <1>8, <2>3 DEF Attr!At
<1>9. ASSUME p + n - 1 <= l, Attr!At(s, p, pat)
      PROVE  next # 0 /\ SubSeq(s, p, next - 1) = pat
  <2>1. next = p + n /\ next - 1 = p + n - 1
    BY <1>6, <1>9
  <2> QED
    BY <1>3, <1>5, <1>9, <2>1 DEF Attr!At
<1> QED
  BY <1>1, <1>3, <1>6, <1>8, <1>9 DEF pat, next

\* Deleting the push of a signature takes away the operations that are that push and
\* no other byte (attrib.c:92-113).
LEMMA DeletesPushes ==
  ASSUME NEW s \in Seq(Nat), NEW d \in Seq(Nat), PushData \in Nat
  PROVE  Attr!FindAndDelete(s, Attr!EmitPush(d)) = Attr!Without(s, Attr!EmitPush(d))
<1> DEFINE pat == Attr!EmitPush(d)
           F(f, p) == IF p + Len(pat) - 1 <= Len(s) /\ Attr!At(s, p, pat) THEN f[p + Len(pat)]
                      ELSE IF p > Len(s) \/ Attr!NextOp(s, p) = 0 THEN SubSeq(s, p, Len(s))
                      ELSE SubSeq(s, p, Attr!NextOp(s, p) - 1) \o f[Attr!NextOp(s, p)]
           G(f, p) == IF p > Len(s) THEN <<>>
                      ELSE IF Attr!NextOp(s, p) = 0 THEN SubSeq(s, p, Len(s))
                      ELSE IF SubSeq(s, p, Attr!NextOp(s, p) - 1) = pat
                      THEN f[Attr!NextOp(s, p)]
                      ELSE SubSeq(s, p, Attr!NextOp(s, p) - 1) \o f[Attr!NextOp(s, p)]
<1>1. ASSUME NEW f, NEW p \in 1..Len(s) + 1 PROVE F(f, p) = G(f, p)
  <2>1. CASE p \in 1..Len(s)
    <3>1. /\ p + Len(pat) - 1 <= Len(s) /\ Attr!At(s, p, pat)
               <=> Attr!NextOp(s, p) # 0 /\ SubSeq(s, p, Attr!NextOp(s, p) - 1) = pat
          /\ p + Len(pat) - 1 <= Len(s) /\ Attr!At(s, p, pat) => Attr!NextOp(s, p) = p + Len(pat)
      BY <2>1, PushIsOp
    <3>2. ~(p > Len(s))
      BY <2>1
    <3> HIDE DEF pat
    <3> QED
      BY <3>1, <3>2
  <2>2. CASE p = Len(s) + 1
    <3>1. Len(pat) \in Nat /\ Len(pat) >= 1
      <4>1. pat \in Seq(Nat) /\ Len(pat) >= 1
        BY PushSays
      <4> HIDE DEF pat
      <4> QED
        BY <4>1
    <3> HIDE DEF pat
    <3>2. PICK l \in Nat : l = Len(s)
      OBVIOUS
    <3>3. SubSeq(s, l + 1, l) = <<>>
      BY <3>2
    <3>4. ~(p + Len(pat) - 1 <= l) /\ p > l
      BY <2>2, <3>1, <3>2
    <3> QED
      BY <2>2, <3>2, <3>3, <3>4
  <2> QED
    BY <2>1, <2>2
<1> HIDE DEF F, G
<1>2. ASSUME NEW f
      PROVE  f = [p \in 1..Len(s) + 1 |-> F(f, p)] <=> f = [p \in 1..Len(s) + 1 |-> G(f, p)]
  BY <1>1
<1>3. Attr!FindAndDelete(s, pat) = (CHOOSE f : f = [p \in 1..Len(s) + 1 |-> F(f, p)])[1]
  BY DEF Attr!FindAndDelete, F
<1>4. Attr!Without(s, pat) = (CHOOSE f : f = [p \in 1..Len(s) + 1 |-> G(f, p)])[1]
  BY DEF Attr!Without, G
<1>5. (CHOOSE f : f = [p \in 1..Len(s) + 1 |-> F(f, p)])
        = (CHOOSE f : f = [p \in 1..Len(s) + 1 |-> G(f, p)])
  BY <1>2
<1> QED
  BY <1>3, <1>4, <1>5

-----------------------------------------------------------------------------
(* The adapter *)

\* An input that is the first or named, and one that the transaction does not have,
\* signs for the same identity as if all had been attributed (adapter.c:60-80).
LEMMA SignersSame ==
  ASSUME NEW tx, NEW i, i \in {1} \cup Attr!Named(tx) \/ i \notin DOMAIN tx.ins
  PROVE  Signer(Attr!Adapted(tx).inputs, i) = Signer([k \in DOMAIN tx.ins |-> Attr!Attribute(tx, k)], i)
BY DEF Signer, Attr!Adapted

\* The carriers look up no other input (adapter.c:60-80, fold.c:467-511).
LEMMA CarriersName ==
  ASSUME NEW tx, NEW n \in DOMAIN Attr!Carriers(tx)
  PROVE  LET c == Attr!Carriers(tx)[n]
             Looked(i) == i \in {1} \cup Attr!Named(tx) \/ i \notin DOMAIN tx.ins
         IN  (c.op = "AS" => Looked(c.i)) /\ (c.op = "TRADE" => Looked(c.i) /\ Looked(c.j))
<1>1. Attr!Carriers(tx)[n] \in Attr!Range(Attr!Carriers(tx))
  BY DEF Attr!Range
<1> QED
  BY <1>1 DEF Attr!Named

LEMMA ActorsSame ==
  ASSUME NEW tx
  PROVE  Actors(Attr!Adapted(tx).inputs, Attr!Carriers(tx))
           = Actors([k \in DOMAIN tx.ins |-> Attr!Attribute(tx, k)], Attr!Carriers(tx))
<1> DEFINE lazy == Attr!Adapted(tx).inputs
           all == [k \in DOMAIN tx.ins |-> Attr!Attribute(tx, k)]
           carriers == Attr!Carriers(tx)
           Step(inputs, acc, c) ==
             IF c.op = "AS" THEN [acc EXCEPT !.actor = Signer(inputs, c.i)]
             ELSE [acc EXCEPT !.seen = Append(@,
                     IF c.op = "TRADE" THEN <<Signer(inputs, c.i), Signer(inputs, c.j)>>
                                       ELSE <<acc.actor>>)]
           Next_(inputs, f, n) ==
             IF n = 0 THEN [actor |-> Signer(inputs, 1), seen |-> <<>>]
                      ELSE Step(inputs, f[n - 1], carriers[n])
           Steps(inputs, f) == f = [n \in {0} \cup DOMAIN carriers |-> Next_(inputs, f, n)]
<1>1. Signer(lazy, 1) = Signer(all, 1)
  BY SignersSame
<1>2. ASSUME NEW acc, NEW n \in DOMAIN carriers
      PROVE  Step(lazy, acc, carriers[n]) = Step(all, acc, carriers[n])
  <2> DEFINE c == carriers[n]
  <2>1. /\ c.op = "AS" => Signer(lazy, c.i) = Signer(all, c.i)
        /\ c.op = "TRADE" => /\ Signer(lazy, c.i) = Signer(all, c.i)
                             /\ Signer(lazy, c.j) = Signer(all, c.j)
    BY CarriersName, SignersSame
  <2> HIDE DEF c, lazy, all, carriers
  <2> QED
    BY <2>1 DEF c
<1> HIDE DEF lazy, all, carriers, Step
<1>3. ASSUME NEW f, NEW n \in {0} \cup DOMAIN carriers
      PROVE  Next_(lazy, f, n) = Next_(all, f, n)
  BY <1>1, <1>2
<1> HIDE DEF Next_
<1>4. ASSUME NEW f PROVE Steps(lazy, f) <=> Steps(all, f)
  BY <1>3
<1> HIDE DEF Steps
<1>5. (CHOOSE f : Steps(lazy, f)) = (CHOOSE f : Steps(all, f))
  BY <1>4
<1>6. ASSUME NEW inputs
      PROVE  Actors(inputs, carriers) = (CHOOSE f : Steps(inputs, f))[Len(carriers)].seen
  BY DEF Actors, Steps, Next_, Step
<1>7. Actors(lazy, carriers) = Actors(all, carriers)
  BY <1>5, <1>6
<1> QED
  BY <1>7 DEF lazy, all, carriers

-----------------------------------------------------------------------------
(* Payloads *)

\* The bytes of no field, of one, and of two.
LEMMA Widths ==
  ASSUME NEW a \in Nat, NEW b \in Nat
  PROVE  Load!Width(<<>>) = 0 /\ Load!Width(<<a>>) = a /\ Load!Width(<<a, b>>) = a + b
<1> DEFINE Sums(f, fixed) ==
             f = [n \in 0..Len(fixed) |-> IF n = 0 THEN 0 ELSE f[n - 1] + fixed[n]]
<1>1. ASSUME NEW fixed PROVE Load!Width(fixed) = (CHOOSE f : Sums(f, fixed))[Len(fixed)]
  BY DEF Load!Width
<1>2. Load!Width(<<>>) = 0
  <2>1. ASSUME NEW f PROVE Sums(f, <<>>) <=> f = [n \in 0..0 |-> 0]
    OBVIOUS
  <2> HIDE DEF Sums
  <2>2. Sums((CHOOSE f : Sums(f, <<>>)), <<>>)
    BY <2>1
  <2> QED
    BY <1>1, <2>1, <2>2
<1>3. Load!Width(<<a>>) = a
  <2> DEFINE g == [n \in 0..1 |-> IF n = 0 THEN 0 ELSE a]
  <2>1. Sums(g, <<a>>)
    OBVIOUS
  <2>2. ASSUME NEW f, Sums(f, <<a>>) PROVE f[1] = a
    <3>1. \A n \in 0..1 : f[n] = IF n = 0 THEN 0 ELSE f[n - 1] + <<a>>[n]
      BY <2>2
    <3>2. f[0] = 0 /\ f[1] = f[0] + a
      BY <3>1
    <3> QED
      BY <3>2
  <2> HIDE DEF Sums, g
  <2>3. Sums((CHOOSE f : Sums(f, <<a>>)), <<a>>)
    BY <2>1
  <2> QED
    BY <1>1, <2>2, <2>3
<1>4. Load!Width(<<a, b>>) = a + b
  <2> DEFINE g == [n \in 0..2 |-> IF n = 0 THEN 0 ELSE IF n = 1 THEN a ELSE a + b]
  <2>1. Sums(g, <<a, b>>)
    <3>1. \A n \in 0..2 : g[n] = IF n = 0 THEN 0 ELSE g[n - 1] + <<a, b>>[n]
      OBVIOUS
    <3>2. g = [n \in 0..2 |-> g[n]]
      OBVIOUS
    <3> HIDE DEF g
    <3> QED
      BY <3>1, <3>2
  <2>2. ASSUME NEW f, Sums(f, <<a, b>>) PROVE f[2] = a + b
    <3>1. \A n \in 0..2 : f[n] = IF n = 0 THEN 0 ELSE f[n - 1] + <<a, b>>[n]
      BY <2>2
    <3>2. f[0] = 0 /\ f[1] = f[0] + a /\ f[2] = f[1] + b
      BY <3>1
    <3> QED
      BY <3>2
  <2> HIDE DEF Sums, g
  <2>3. Sums((CHOOSE f : Sums(f, <<a, b>>)), <<a, b>>)
    BY <2>1
  <2> QED
    BY <1>1, <2>2, <2>3
<1> QED
  BY <1>2, <1>3, <1>4

\* The fields of a form, at most two.
LEMMA FormFields ==
  ASSUME NEW op \in Load!Opcodes, NEW form \in Load!Forms(op)
  PROVE  \/ form.fixed = <<>>
         \/ \E a \in Nat : form.fixed = <<a>>
         \/ \E a, b \in Nat : form.fixed = <<a, b>>
BY FieldsAssumption DEF Load!Forms, Load!Form, Load!Opcodes, Load!ByName

\* The forms of an opcode differ in the lengths of their bodies (decode.c:40-64).
LEMMA OneFits ==
  ASSUME NEW op \in Load!Opcodes, NEW S, NEW body \in Seq(S),
         NEW f \in Load!Forms(op), Load!Fits(f, body),
         NEW g \in Load!Forms(op), Load!Fits(g, body)
  PROVE  f = g
<1>1. PICK l \in Nat : l = Len(body)
  OBVIOUS
<1>2. ASSUME NEW form, NEW w \in Nat, Load!Width(form.fixed) = w, Load!Fits(form, body)
      PROVE  (form.tail = "none" => l = w) /\ (form.tail = "flags" => l > w)
  <2>1. w <= l /\ Load!TailOK(form.tail, SubSeq(body, w + 1, l))
    BY <1>1, <1>2 DEF Load!Fits
  <2>2. Len(SubSeq(body, w + 1, l)) = IF w + 1 <= l THEN l - w ELSE 0
    <3>1. \A i \in (w + 1)..l : body[i] \in S
      BY <1>1
    <3> QED
      BY <3>1, SubSeqProperties
  <2>3. CASE form.tail = "none"
    <3>1. SubSeq(body, w + 1, l) = <<>>
      BY <2>1, <2>3 DEF Load!TailOK
    <3>2. (IF w + 1 <= l THEN l - w ELSE 0) = 0
      BY <2>2, <3>1
    <3>3. l = w
      BY <2>1, <3>2
    <3> QED
      BY <2>3, <3>3
  <2>4. CASE form.tail = "flags"
    <3>1. SubSeq(body, w + 1, l) # <<>>
      BY <2>1, <2>4 DEF Load!TailOK
    <3>2. l < w + 1 => SubSeq(body, w + 1, l) = <<>>
      BY SubSeqEmpty
    <3> QED
      BY <2>4, <3>1, <3>2
  <2> QED
    BY <2>3, <2>4
<1>3. CASE op = "RENEW"
  <2>1. Load!Forms(op) = {Load!Form(<<>>, "none"), Load!Form(<<AnchorLen>>, "none"),
                          Load!Form(<<AnchorLen>>, "flags")}
    <3>1. "RENEW" \notin Load!ByName
      BY DEF Load!ByName
    <3> QED
      BY <1>3, <3>1, Zenon DEF Load!Forms
  <2>2. Load!Width(<<>>) = 0 /\ Load!Width(<<AnchorLen>>) = AnchorLen
    BY FieldsAssumption, Widths
  <2>3. AnchorLen \in Nat /\ AnchorLen > 0
    BY FieldsAssumption
  <2> QED
    BY <1>2, <2>1, <2>2, <2>3 DEF Load!Form
<1>4. CASE op = "TRANSFER"
  <2>1. Load!Forms(op) = {Load!Form(<<AddrLen>>, "none"),
                          Load!Form(<<AddrLen, AnchorLen>>, "flags")}
    <3>1. "TRANSFER" \notin Load!ByName
      BY DEF Load!ByName
    <3> QED
      BY <1>4, <3>1, Zenon DEF Load!Forms
  <2>2. /\ Load!Width(<<AddrLen>>) = AddrLen
        /\ Load!Width(<<AddrLen, AnchorLen>>) = AddrLen + AnchorLen
    BY FieldsAssumption, Widths
  <2>3. AnchorLen \in Nat /\ AddrLen \in Nat
    BY FieldsAssumption
  <2> QED
    BY <1>2, <2>1, <2>2, <2>3 DEF Load!Form
<1>5. CASE op \notin {"RENEW", "TRANSFER"}
  <2>1. \E form : Load!Forms(op) = {form}
    BY <1>5 DEF Load!Forms, Load!Opcodes, Load!ByName
  <2> QED
    BY <2>1
<1> QED
  BY <1>3, <1>4, <1>5

\* Fields laid one after the other.
LEMMA Flattens ==
  ASSUME NEW x, NEW y
  PROVE  /\ Load!FlattenSeq(<<>>) = <<>>
         /\ Load!FlattenSeq(<<x>>) = x
         /\ Load!FlattenSeq(<<x, y>>) = x \o y
<1> DEFINE Joins(f, s) ==
             f = [i \in 1..Len(s) |-> IF i = 1 THEN s[i] ELSE f[i - 1] \o s[i]]
<1>1. ASSUME NEW s, Len(s) # 0
      PROVE  Load!FlattenSeq(s) = (CHOOSE f : Joins(f, s))[Len(s)]
  BY <1>1 DEF Load!FlattenSeq
<1>2. Load!FlattenSeq(<<>>) = <<>>
  BY DEF Load!FlattenSeq
<1>3. Load!FlattenSeq(<<x>>) = x
  <2>1. Joins([i \in 1..1 |-> x], <<x>>)
    OBVIOUS
  <2>2. ASSUME NEW f, Joins(f, <<x>>) PROVE f[1] = x
    BY <2>2
  <2>3. Len(<<x>>) = 1
    OBVIOUS
  <2> HIDE DEF Joins
  <2>4. Joins((CHOOSE f : Joins(f, <<x>>)), <<x>>)
    BY <2>1
  <2> QED
    BY <1>1, <2>2, <2>3, <2>4
<1>4. Load!FlattenSeq(<<x, y>>) = x \o y
  <2> DEFINE g == [i \in 1..2 |-> IF i = 1 THEN x ELSE x \o y]
  <2>1. Joins(g, <<x, y>>)
    <3>1. \A i \in 1..2 : g[i] = IF i = 1 THEN <<x, y>>[i] ELSE g[i - 1] \o <<x, y>>[i]
      OBVIOUS
    <3>2. g = [i \in 1..2 |-> g[i]]
      OBVIOUS
    <3> HIDE DEF g
    <3> QED
      BY <3>1, <3>2
  <2>2. ASSUME NEW f, Joins(f, <<x, y>>) PROVE f[2] = x \o y
    <3>1. \A i \in 1..2 : f[i] = IF i = 1 THEN <<x, y>>[i] ELSE f[i - 1] \o <<x, y>>[i]
      BY <2>2
    <3>2. f[1] = x /\ f[2] = f[1] \o y
      BY <3>1
    <3> QED
      BY <3>2
  <2>3. Len(<<x, y>>) = 2
    OBVIOUS
  <2> HIDE DEF Joins, g
  <2>4. Joins((CHOOSE f : Joins(f, <<x, y>>)), <<x, y>>)
    BY <2>1
  <2>5. (CHOOSE f : Joins(f, <<x, y>>))[2] = x \o y
    BY <2>2, <2>4
  <2>6. Load!FlattenSeq(<<x, y>>) = (CHOOSE f : Joins(f, <<x, y>>))[Len(<<x, y>>)]
    <3>1. Len(<<x, y>>) # 0
      BY <2>3
    <3> QED
      BY <1>1, <3>1, Zenon
  <2> QED
    BY <2>3, <2>5, <2>6
<1> QED
  BY <1>2, <1>3, <1>4

\* What a form reads off a body is the body again, laid out (decode.c:23-118).
LEMMA ReadsBack ==
  ASSUME NEW op \in Load!Opcodes, NEW S, NEW body \in Seq(S),
         NEW form \in Load!Forms(op), Load!Fits(form, body)
  PROVE  Load!FlattenSeq([i \in DOMAIN form.fixed |-> Load!Field(form.fixed, i, body)])
           \o SubSeq(body, Load!Width(form.fixed) + 1, Len(body)) = body
<1>1. PICK l \in Nat : l = Len(body)
  OBVIOUS
<1>2. Load!Width(form.fixed) <= l
  BY <1>1 DEF Load!Fits
<1>3. SubSeq(body, 1, l) = body
  BY <1>1, SubSeqFull
<1>4. ASSUME NEW k \in 0..l
      PROVE  SubSeq(body, 1, k) \o SubSeq(body, k + 1, l) = body
  <2>1. 1 \in 1..(Len(body) + 1) /\ k \in (1 - 1)..Len(body) /\ l \in k..Len(body)
    BY <1>1
  <2>2. SubSeq(body, 1, k) \o SubSeq(body, k + 1, l) = SubSeq(body, 1, l)
    BY <2>1, ConcatAdjacentSubSeq
  <2> QED
    BY <1>3, <2>2
<1>5. CASE form.fixed = <<>>
  <2>1. Load!Width(<<>>) = 0
    BY Widths
  <2>2. [i \in DOMAIN <<>> |-> Load!Field(<<>>, i, body)] = <<>>
    OBVIOUS
  <2>3. SubSeq(body, 1, l) = body /\ <<>> \o body = body
    BY <1>3, ConcatEmptySeq
  <2> QED
    <3>1. Load!FlattenSeq([i \in DOMAIN <<>> |-> Load!Field(<<>>, i, body)]) = <<>>
      BY <2>2, Flattens, Zenon
    <3>2. Load!Width(form.fixed) + 1 = 1
      BY <1>5, <2>1
    <3> QED
      BY <1>1, <1>5, <2>3, <3>1, <3>2, Zenon
<1>6. ASSUME NEW a \in Nat, form.fixed = <<a>>
      PROVE  Load!FlattenSeq([i \in DOMAIN form.fixed |-> Load!Field(form.fixed, i, body)])
               \o SubSeq(body, Load!Width(form.fixed) + 1, Len(body)) = body
  <2>1. Load!Width(<<a>>) = a /\ Load!Width(<<>>) = 0
    BY Widths
  <2>2. Load!Field(<<a>>, 1, body) = SubSeq(body, 1, a)
    <3>1. SubSeq(<<a>>, 1, 1 - 1) = <<>> /\ <<a>>[1] = a
      <4>1. 1 - 1 \in Int /\ 1 - 1 < 1
        OBVIOUS
      <4>2. SubSeq(<<a>>, 1, 1 - 1) = <<>>
        BY <4>1, SubSeqEmpty
      <4> QED
        BY <4>2
    <3>2. Load!Field(<<a>>, 1, body)
            = SubSeq(body, Load!Width(<<>>) + 1, Load!Width(<<>>) + a)
      BY <3>1, Zenon DEF Load!Field
    <3>3. Load!Width(<<>>) + 1 = 1 /\ Load!Width(<<>>) + a = a
      BY <2>1
    <3> QED
      BY <3>2, <3>3, Zenon
  <2>3. [i \in DOMAIN <<a>> |-> Load!Field(<<a>>, i, body)] = <<SubSeq(body, 1, a)>>
    BY <2>2
  <2>4. a \in 0..l
    BY <1>2, <1>6, <2>1
  <2>5. SubSeq(body, 1, a) \o SubSeq(body, a + 1, l) = body
    BY <1>4, <2>4
  <2> QED
    BY <1>1, <1>6, <2>1, <2>3, <2>5, Flattens
<1>7. ASSUME NEW a \in Nat, NEW b \in Nat, form.fixed = <<a, b>>
      PROVE  Load!FlattenSeq([i \in DOMAIN form.fixed |-> Load!Field(form.fixed, i, body)])
               \o SubSeq(body, Load!Width(form.fixed) + 1, Len(body)) = body
  <2>1. Load!Width(<<a, b>>) = a + b /\ Load!Width(<<a>>) = a /\ Load!Width(<<>>) = 0
    BY Widths
  <2>2. Load!Field(<<a, b>>, 1, body) = SubSeq(body, 1, a)
    <3>1. SubSeq(<<a, b>>, 1, 1 - 1) = <<>> /\ <<a, b>>[1] = a
      <4>1. 1 - 1 \in Int /\ 1 - 1 < 1
        OBVIOUS
      <4>2. SubSeq(<<a, b>>, 1, 1 - 1) = <<>>
        BY <4>1, SubSeqEmpty
      <4> QED
        BY <4>2
    <3>2. Load!Field(<<a, b>>, 1, body)
            = SubSeq(body, Load!Width(<<>>) + 1, Load!Width(<<>>) + a)
      BY <3>1, Zenon DEF Load!Field
    <3>3. Load!Width(<<>>) + 1 = 1 /\ Load!Width(<<>>) + a = a
      BY <2>1
    <3> QED
      BY <3>2, <3>3, Zenon
  <2>3. Load!Field(<<a, b>>, 2, body) = SubSeq(body, a + 1, a + b)
    <3>1. SubSeq(<<a, b>>, 1, 2 - 1) = <<a>> /\ <<a, b>>[2] = b
      <4> DEFINE t == SubSeq(<<a, b>>, 1, 2 - 1)
      <4>1. <<a, b>>[1] = a /\ <<a, b>>[2] = b /\ 2 - 1 = 1
        OBVIOUS
      <4>2. t \in Seq(Nat) /\ Len(t) = 1 /\ t[1] = a
        <5>1. \A i \in 1..1 : <<a, b>>[i] \in Nat
          BY <4>1
        <5>2. /\ SubSeq(<<a, b>>, 1, 1) \in Seq(Nat)
              /\ Len(SubSeq(<<a, b>>, 1, 1)) = IF 1 <= 1 THEN 1 - 1 + 1 ELSE 0
              /\ \A i \in 1..(1 - 1 + 1) : SubSeq(<<a, b>>, 1, 1)[i] = <<a, b>>[1 + i - 1]
          BY <5>1, SubSeqProperties
        <5> HIDE DEF t
        <5>3. t = SubSeq(<<a, b>>, 1, 1)
          BY <4>1 DEF t
        <5>4. SubSeq(<<a, b>>, 1, 1)[1] = <<a, b>>[1]
          BY <5>2
        <5> QED
          BY <4>1, <5>2, <5>3, <5>4
      <4> HIDE DEF t
      <4>3. t = <<a>>
        BY <4>2
      <4> QED
        BY <4>1, <4>3 DEF t
    <3>2. Load!Field(<<a, b>>, 2, body)
            = SubSeq(body, Load!Width(<<a>>) + 1, Load!Width(<<a>>) + b)
      BY <3>1, Zenon DEF Load!Field
    <3> QED
      BY <2>1, <3>2
  <2>4. [i \in DOMAIN <<a, b>> |-> Load!Field(<<a, b>>, i, body)]
          = <<SubSeq(body, 1, a), SubSeq(body, a + 1, a + b)>>
    <3> DEFINE F(i) == Load!Field(<<a, b>>, i, body)
               x == SubSeq(body, 1, a)
               y == SubSeq(body, a + 1, a + b)
    <3>1. F(1) = x /\ F(2) = y
      BY <2>2, <2>3
    <3> HIDE DEF F, x, y
    <3>2. DOMAIN <<a, b>> = 1..2 /\ <<x, y>> = [i \in 1..2 |-> IF i = 1 THEN x ELSE y]
      OBVIOUS
    <3>3. [i \in DOMAIN <<a, b>> |-> F(i)] = <<x, y>>
      BY <3>1, <3>2
    <3> QED
      BY <3>3 DEF F, x, y
  <2>5. a + b \in 0..l
    BY <1>2, <1>7, <2>1
  <2>6. SubSeq(body, 1, a) \o SubSeq(body, a + 1, a + b) = SubSeq(body, 1, a + b)
    <3>1. 1 \in 1..(Len(body) + 1) /\ a \in (1 - 1)..Len(body) /\ a + b \in a..Len(body)
      BY <1>1, <2>5
    <3> QED
      BY <3>1, ConcatAdjacentSubSeq
  <2>7. SubSeq(body, 1, a + b) \o SubSeq(body, (a + b) + 1, l) = body
    BY <1>4, <2>5
  <2> QED
    <3>1. Load!FlattenSeq([i \in DOMAIN <<a, b>> |-> Load!Field(<<a, b>>, i, body)])
            = SubSeq(body, 1, a + b)
      BY <2>4, <2>6, Flattens, Zenon
    <3>2. Load!Width(form.fixed) = a + b
      BY <1>7, <2>1
    <3> QED
      BY <1>1, <1>7, <2>7, <3>1, <3>2, Zenon
<1> QED
  BY <1>5, <1>6, <1>7, FormFields

-----------------------------------------------------------------------------
(* Medians *)

\* q numbers the elements of S from 1 to n.
Numbers(q, n, S) ==
  /\ n \in Nat /\ q \in [1..n -> S]
  /\ \A i, j \in 1..n : q[i] = q[j] => i = j
  /\ \A x \in S : \E i \in 1..n : q[i] = x

LEMMA NumbersCount ==
  ASSUME NEW q, NEW n, NEW S, Numbers(q, n, S)
  PROVE  IsFiniteSet(S) /\ Cardinality(S) = n
<1>1. q \in Bijection(1..n, S) /\ n \in Nat
  BY DEF Numbers, Bijection, Injection, Surjection, IsInjective
<1>2. ExistsBijection(1..n, S)
  BY <1>1 DEF ExistsBijection
<1>3. IsFiniteSet(S)
  BY <1>1, <1>2, FS_NatBijection
<1> QED
  BY <1>1, <1>2, <1>3, FS_CountingElements

\* The elements numbered from i to j are j - i + 1.
LEMMA NumbersRange ==
  ASSUME NEW q, NEW n, NEW S, Numbers(q, n, S), NEW i \in 1..n, NEW j \in i..n
  PROVE  LET T == {q[k] : k \in i..j} IN IsFiniteSet(T) /\ Cardinality(T) = j - i + 1
<1> DEFINE T == {q[k] : k \in i..j}
           m == j - i + 1
           r == [k \in 1..m |-> q[k + i - 1]]
<1>1. n \in Nat /\ m \in Nat
  BY DEF Numbers
<1>2. \A k \in 1..m : k + i - 1 \in i..j /\ k + i - 1 \in 1..n
  BY <1>1
<1>3. r \in [1..m -> T]
  BY <1>2
<1>4. \A k, l \in 1..m : r[k] = r[l] => k = l
  <2> SUFFICES ASSUME NEW k \in 1..m, NEW l \in 1..m, r[k] = r[l] PROVE k = l
    OBVIOUS
  <2>1. q[k + i - 1] = q[l + i - 1]
    OBVIOUS
  <2>2. k + i - 1 = l + i - 1
    BY <1>2, <2>1 DEF Numbers
  <2> QED
    BY <1>1, <2>2
<1>5. \A x \in T : \E k \in 1..m : r[k] = x
  <2> SUFFICES ASSUME NEW l \in i..j PROVE \E k \in 1..m : r[k] = q[l]
    OBVIOUS
  <2>1. l - i + 1 \in 1..m /\ (l - i + 1) + i - 1 = l
    BY <1>1
  <2> QED
    BY <2>1
<1> HIDE DEF T, m, r
<1>6. Numbers(r, m, T)
  BY <1>1, <1>3, <1>4, <1>5 DEF Numbers
<1>7. IsFiniteSet(T) /\ Cardinality(T) = m
  BY <1>6, NumbersCount
<1> QED
  BY <1>7 DEF T, m

\* Of the elements of S, at least j have a value that is not above v, and all but j - 1 of
\* them one that is not below.
Middling(S, val, v, j) ==
  LET low == Cardinality({x \in S : val[x] <= v})
      high == Cardinality({x \in S : val[x] >= v})
  IN  low \in Nat /\ low >= j /\ high \in Nat /\ high >= Cardinality(S) - j + 1

\* So it is of values in order and the one at place j.
LEMMA NumbersMiddle ==
  ASSUME NEW q, NEW n, NEW S, Numbers(q, n, S),
         NEW val \in [S -> Int], \A i, j \in 1..n : i <= j => val[q[i]] <= val[q[j]],
         NEW j \in 1..n
  PROVE  Cardinality(S) = n /\ Middling(S, val, val[q[j]], j)
<1> DEFINE low == {x \in S : val[x] <= val[q[j]]}
           high == {x \in S : val[x] >= val[q[j]]}
           first == {q[k] : k \in 1..j}
           last == {q[k] : k \in j..n}
<1>1. n \in Nat /\ 1 \in 1..n /\ j \in 1..n /\ n \in j..n
  BY DEF Numbers
<1>2. IsFiniteSet(S) /\ Cardinality(S) = n
  BY NumbersCount
<1>3. low \in SUBSET S /\ high \in SUBSET S
  OBVIOUS
<1>4. IsFiniteSet(low) /\ IsFiniteSet(high)
  <2> HIDE DEF low, high
  <2> QED
    BY <1>2, <1>3, FS_Subset
<1>5. Cardinality(low) \in Nat /\ Cardinality(high) \in Nat
  BY <1>4, FS_CardinalityType
<1>6. \A k \in 1..n : q[k] \in S /\ val[q[k]] \in Int
  BY DEF Numbers
<1>7. first \in SUBSET low
  BY <1>1, <1>6
<1>8. last \in SUBSET high
  BY <1>1, <1>6
<1>9. Cardinality(first) = j - 1 + 1
  <2>1. 1 \in 1..n /\ j \in 1..n
    BY <1>1
  <2> QED
    BY <2>1, NumbersRange
<1>10. Cardinality(last) = n - j + 1
  BY <1>1, NumbersRange
<1> HIDE DEF first, last
<1>11. Cardinality(first) <= Cardinality(low) /\ Cardinality(last) <= Cardinality(high)
  <2> HIDE DEF low, high
  <2> QED
    BY <1>4, <1>7, <1>8, FS_Subset
<1>12. Cardinality(low) >= j /\ Cardinality(high) >= n - j + 1
  <2>1. PICK c \in Nat, d \in Nat : c = Cardinality(low) /\ d = Cardinality(high)
    BY <1>5
  <2> HIDE DEF low, high
  <2> QED
    BY <1>1, <1>9, <1>10, <1>11, <2>1
<1> QED
  BY <1>2, <1>5, <1>12 DEF Middling

\* A list of integers has a greatest.
LEMMA GreatestAt ==
  ASSUME NEW n \in Nat, NEW s \in [1..(n + 1) -> Int]
  PROVE  \E m \in 1..(n + 1) : \A i \in 1..(n + 1) : s[i] <= s[m]
<1> DEFINE P == {k \in Nat : k <= n => \E m \in 1..(k + 1) : \A i \in 1..(k + 1) : s[i] <= s[m]}
<1>1. 0 \in P
  <2>1. 1 \in 1..(0 + 1) /\ \A i \in 1..(0 + 1) : i = 1
    OBVIOUS
  <2>2. s[1] \in Int
    OBVIOUS
  <2>3. \A i \in 1..(0 + 1) : s[i] <= s[1]
    BY <2>1, <2>2
  <2> QED
    BY <2>1, <2>3
<1>2. ASSUME NEW k \in P PROVE k + 1 \in P
  <2> SUFFICES ASSUME k + 1 <= n
               PROVE  \E m \in 1..((k + 1) + 1) : \A i \in 1..((k + 1) + 1) : s[i] <= s[m]
    OBVIOUS
  <2>1. PICK m \in 1..(k + 1) : \A i \in 1..(k + 1) : s[i] <= s[m]
    OBVIOUS
  <2>2. \A i \in 1..((k + 1) + 1) : s[i] \in Int /\ (i \in 1..(k + 1) \/ i = (k + 1) + 1)
    OBVIOUS
  <2>3. m \in 1..((k + 1) + 1) /\ (k + 1) + 1 \in 1..((k + 1) + 1)
    OBVIOUS
  <2>4. CASE s[m] <= s[(k + 1) + 1]
    <3>1. \A i \in 1..((k + 1) + 1) : s[i] <= s[(k + 1) + 1]
      BY <2>1, <2>2, <2>3, <2>4
    <3> QED
      BY <2>3, <3>1
  <2>5. CASE ~(s[m] <= s[(k + 1) + 1])
    <3>1. \A i \in 1..((k + 1) + 1) : s[i] <= s[m]
      BY <2>1, <2>2, <2>3, <2>5
    <3> QED
      BY <2>3, <3>1
  <2> QED
    BY <2>4, <2>5
<1>3. P \in SUBSET Nat
  OBVIOUS
<1>4. P = Nat
  <2> HIDE DEF P
  <2> QED
    BY <1>1, <1>2, <1>3, NatInduct
<1>5. n \in P
  <2> HIDE DEF P
  <2> QED
    BY <1>4
<1> QED
  BY <1>5

\* Every list of integers can be sorted.
LEMMA Sorts ==
  ASSUME NEW n \in Nat
  PROVE  \A s \in [1..n -> Int] : \E p \in [1..n -> 1..n] : Feed!Ascending(s, p)
<1> DEFINE P == {k \in Nat : \A s \in [1..k -> Int] : \E p \in [1..k -> 1..k] : Feed!Ascending(s, p)}
<1>1. 0 \in P
  <2> SUFFICES ASSUME NEW s \in [1..0 -> Int]
               PROVE  \E p \in [1..0 -> 1..0] : Feed!Ascending(s, p)
    OBVIOUS
  <2>1. s \in [1..0 -> 1..0] /\ DOMAIN s = {}
    OBVIOUS
  <2>2. Feed!Ascending(s, s)
    BY <2>1 DEF Feed!Ascending
  <2> QED
    BY <2>1, <2>2
<1>2. ASSUME NEW k \in P PROVE k + 1 \in P
  <2> SUFFICES ASSUME NEW s \in [1..(k + 1) -> Int]
               PROVE  \E p \in [1..(k + 1) -> 1..(k + 1)] : Feed!Ascending(s, p)
    OBVIOUS
  <2>1. k \in Nat
    OBVIOUS
  <2>2. PICK m \in 1..(k + 1) : \A i \in 1..(k + 1) : s[i] <= s[m]
    BY <2>1, GreatestAt
  <2> DEFINE e == [i \in 1..k |-> IF i < m THEN i ELSE i + 1]
             t == [i \in 1..k |-> s[e[i]]]
  <2>3. /\ \A i \in 1..k : e[i] \in 1..(k + 1) /\ e[i] # m
        /\ \A i, j \in 1..k : e[i] = e[j] => i = j
    BY <2>1
  <2> HIDE DEF e
  <2>4. t \in [1..k -> Int]
    BY <2>3
  <2>5. PICK r \in [1..k -> 1..k] : Feed!Ascending(t, r)
    BY <2>4
  <2>6. /\ \A i, j \in 1..k : r[i] = r[j] => i = j
        /\ \A i, j \in 1..k : i <= j => s[e[r[i]]] <= s[e[r[j]]]
    BY <2>5 DEF Feed!Ascending
  <2> DEFINE p == [i \in 1..(k + 1) |-> IF i = k + 1 THEN m ELSE e[r[i]]]
  <2>7. \A i \in 1..(k + 1) : i # k + 1 => i \in 1..k /\ r[i] \in 1..k
    BY <2>1
  <2>8. \A i \in 1..(k + 1) : p[i] \in 1..(k + 1)
    BY <2>3, <2>7
  <2>9. \A i, j \in 1..(k + 1) : p[i] = p[j] => i = j
    BY <2>3, <2>6, <2>7
  <2>10. \A i, j \in 1..(k + 1) : i <= j => s[p[i]] <= s[p[j]]
    <3> SUFFICES ASSUME NEW i \in 1..(k + 1), NEW j \in 1..(k + 1), i <= j
                 PROVE  s[p[i]] <= s[p[j]]
      OBVIOUS
    <3>1. CASE j = k + 1
      BY <2>2, <2>8, <3>1
    <3>2. CASE j # k + 1
      <4>1. i # k + 1
        BY <2>1, <3>2
      <4> QED
        BY <2>6, <2>7, <3>2, <4>1
    <3> QED
      BY <3>1, <3>2
  <2>11. p \in [1..(k + 1) -> 1..(k + 1)]
    BY <2>8
  <2>12. DOMAIN s = 1..(k + 1)
    OBVIOUS
  <2> HIDE DEF p
  <2>13. Feed!Ascending(s, p)
    BY <2>9, <2>10, <2>12 DEF Feed!Ascending
  <2> QED
    BY <2>11, <2>13
<1>3. P \in SUBSET Nat
  OBVIOUS
<1>4. P = Nat
  <2> HIDE DEF P
  <2> QED
    BY <1>1, <1>2, <1>3, NatInduct
<1>5. n \in P
  <2> HIDE DEF P
  <2> QED
    BY <1>4
<1> QED
  BY <1>5

\* What qsort leaves: the values in an order of all their places (oracle.c:27, 53).
LEMMA SortedIs ==
  ASSUME NEW n \in Nat, NEW s \in [1..n -> Int]
  PROVE  \E p : /\ Numbers(p, n, 1..n)
                /\ \A i, j \in 1..n : i <= j => s[p[i]] <= s[p[j]]
                /\ Feed!Sorted(s) = [i \in 1..n |-> s[p[i]]]
<1> DEFINE p == CHOOSE r \in [DOMAIN s -> DOMAIN s] : Feed!Ascending(s, r)
<1>1. DOMAIN s = 1..n
  OBVIOUS
<1>2. p \in [1..n -> 1..n] /\ Feed!Ascending(s, p)
  <2>1. \E r \in [DOMAIN s -> DOMAIN s] : Feed!Ascending(s, r)
    BY <1>1, Sorts
  <2> QED
    BY <1>1, <2>1
<1>3. Feed!Sorted(s) = [i \in 1..n |-> s[p[i]]]
  BY <1>1 DEF Feed!Sorted
<1> HIDE DEF p
<1>4. /\ \A i, j \in 1..n : p[i] = p[j] => i = j
      /\ \A i, j \in 1..n : i <= j => s[p[i]] <= s[p[j]]
  BY <1>1, <1>2 DEF Feed!Ascending
<1>5. \A x \in 1..n : \E i \in 1..n : p[i] = x
  <2>1. p \in Injection(1..n, 1..n)
    BY <1>2, <1>4 DEF Injection, IsInjective
  <2>2. IsFiniteSet(1..n)
    BY FS_Interval
  <2>3. p \in Surjection(1..n, 1..n)
    BY <2>1, <2>2, FS_Injection
  <2> QED
    BY <2>3 DEF Surjection
<1>6. Numbers(p, n, 1..n)
  BY <1>2, <1>4, <1>5 DEF Numbers
<1> QED
  BY <1>3, <1>4, <1>6

\* v is the value of an element of S, and j of the n have one that is not above it.
IsMiddle(v, S, val, n, j) ==
  \E x \in S : v = val[x] /\ Cardinality(S) = n /\ Middling(S, val, val[x], j)

\* The value at place j of the sorted values of S, whatever their order before.
LEMMA MiddleOf ==
  ASSUME NEW n \in Nat, NEW S, NEW q, Numbers(q, n, S), NEW val \in [S -> Int], NEW j \in 1..n
  PROVE  IsMiddle(Feed!Sorted([i \in 1..n |-> val[q[i]]])[j], S, val, n, j)
<1> DEFINE s == [i \in 1..n |-> val[q[i]]]
<1>1. \A i \in 1..n : q[i] \in S /\ val[q[i]] \in Int
  BY DEF Numbers
<1>2. s \in [1..n -> Int]
  BY <1>1
<1>3. PICK p : /\ Numbers(p, n, 1..n)
               /\ \A i, k \in 1..n : i <= k => s[p[i]] <= s[p[k]]
               /\ Feed!Sorted(s) = [i \in 1..n |-> s[p[i]]]
  <2> HIDE DEF s
  <2> QED
    BY <1>2, SortedIs
<1>4. \A i \in 1..n : p[i] \in 1..n
  BY <1>3 DEF Numbers
<1> DEFINE r == [i \in 1..n |-> q[p[i]]]
<1>5. Numbers(r, n, S)
  <2>1. r \in [1..n -> S]
    BY <1>1, <1>4
  <2>2. \A i, k \in 1..n : r[i] = r[k] => i = k
    BY <1>3, <1>4 DEF Numbers
  <2>3. \A x \in S : \E i \in 1..n : r[i] = x
    BY <1>3 DEF Numbers
  <2> HIDE DEF r
  <2> QED
    BY <2>1, <2>2, <2>3 DEF Numbers
<1>6. \A i, k \in 1..n : i <= k => val[r[i]] <= val[r[k]]
  BY <1>3, <1>4
<1>7. Feed!Sorted(s)[j] = val[r[j]] /\ r[j] \in S
  BY <1>1, <1>3, <1>4
<1> HIDE DEF r, s
<1>8. Cardinality(S) = n /\ Middling(S, val, val[r[j]], j)
  BY <1>5, <1>6, NumbersMiddle
<1>9. IsMiddle(Feed!Sorted(s)[j], S, val, n, j)
  BY <1>7, <1>8 DEF IsMiddle
<1> QED
  BY <1>9 DEF s

-----------------------------------------------------------------------------
(* Lists *)

LEMMA Appends ==
  ASSUME NEW k \in Nat, NEW s, s = [i \in 1..k |-> s[i]], NEW x
  PROVE  Append(s, x) = [i \in 1..(k + 1) |-> IF i = k + 1 THEN x ELSE s[i]]
<1> DEFINE S == {s[i] : i \in 1..k} \cup {x}
<1>1. s \in [1..k -> S]
  <2> DEFINE t == [i \in 1..k |-> s[i]]
  <2>1. t \in [1..k -> S]
    OBVIOUS
  <2> HIDE DEF S, t
  <2>2. s = t
    BY DEF t
  <2> QED
    BY <2>1, <2>2
<1>2. x \in S
  OBVIOUS
<1> HIDE DEF S
<1>3. s \in Seq(S) /\ Len(s) = k
  BY <1>1, SeqDef, LenProperties
<1>4. /\ Append(s, x) \in Seq(S) /\ Len(Append(s, x)) = k + 1
      /\ \A i \in 1..k : Append(s, x)[i] = s[i]
      /\ Append(s, x)[k + 1] = x
  BY <1>2, <1>3, AppendProperties
<1>5. PICK t : t = Append(s, x)
  OBVIOUS
<1>6. t \in [1..(k + 1) -> S]
  BY <1>4, <1>5, LenProperties
<1>7. \A i \in 1..(k + 1) : t[i] = IF i = k + 1 THEN x ELSE s[i]
  <2>1. \A i \in 1..(k + 1) : i = k + 1 \/ i \in 1..k
    OBVIOUS
  <2> QED
    BY <1>4, <1>5, <2>1
<1> QED
  BY <1>5, <1>6, <1>7

LEMMA FirstOnes ==
  ASSUME NEW k \in Nat, NEW s, s = [i \in 1..k |-> s[i]], NEW a \in 1..(k + 1), NEW n \in (a - 1)..k
  PROVE  SubSeq(s, a, n) = [i \in 1..(n - a + 1) |-> s[a + i - 1]]
<1> DEFINE S == {s[i] : i \in 1..k}
<1>1. s \in [1..k -> S]
  <2> DEFINE t == [i \in 1..k |-> s[i]]
  <2>1. t \in [1..k -> S]
    OBVIOUS
  <2> HIDE DEF S, t
  <2>2. s = t
    BY DEF t
  <2> QED
    BY <2>1, <2>2
<1> HIDE DEF S
<1>2. s \in Seq(S) /\ Len(s) = k
  BY <1>1, SeqDef, LenProperties
<1>3. PICK t : t = SubSeq(s, a, n)
  OBVIOUS
<1>4. n - a + 1 \in Nat /\ (a <= n => n - a + 1 > 0)
  OBVIOUS
<1>5. /\ t \in Seq(S) /\ Len(t) = n - a + 1
      /\ \A i \in 1..(n - a + 1) : t[i] = s[a + i - 1]
  <2>1. a \in Int /\ n \in Int /\ \A i \in a..n : i \in 1..k
    OBVIOUS
  <2>2. \A i \in a..n : s[i] \in S
    BY <1>1, <2>1
  <2>3. /\ SubSeq(s, a, n) \in Seq(S)
        /\ Len(SubSeq(s, a, n)) = IF a <= n THEN n - a + 1 ELSE 0
        /\ \A i \in 1..(n - a + 1) : SubSeq(s, a, n)[i] = s[a + i - 1]
    <3>1. ASSUME NEW u, \A i \in a..n : u[i] \in S
          PROVE  /\ SubSeq(u, a, n) \in Seq(S)
                 /\ Len(SubSeq(u, a, n)) = IF a <= n THEN n - a + 1 ELSE 0
                 /\ \A i \in 1..(n - a + 1) : SubSeq(u, a, n)[i] = u[a + i - 1]
      BY <2>1, <3>1, SubSeqProperties
    <3> QED
      BY <2>2, <3>1
  <2>4. (IF a <= n THEN n - a + 1 ELSE 0) = n - a + 1
    OBVIOUS
  <2> QED
    BY <1>3, <2>3, <2>4
<1>6. t \in [1..(n - a + 1) -> S]
  BY <1>5, LenProperties
<1> QED
  BY <1>3, <1>5, <1>6

\* The picking of the elements at keep, from a place to the next.
PicksNext(s, keep, n, f) ==
  IF n = 0 THEN <<>> ELSE IF n \in keep THEN Append(f[n - 1], s[n]) ELSE f[n - 1]
PicksTo(f, m, s, keep) == f = [n \in 0..m |-> PicksNext(s, keep, n, f)]

LEMMA PicksExist ==
  ASSUME NEW m \in Nat, NEW s, NEW keep
  PROVE  \E f : PicksTo(f, m, s, keep)
<1> DEFINE P == {k \in Nat : \E f : PicksTo(f, k, s, keep)}
<1>1. 0 \in P
  <2>1. PicksTo([n \in 0..0 |-> <<>>], 0, s, keep)
    BY DEF PicksTo, PicksNext
  <2> QED
    BY <2>1
<1>2. ASSUME NEW k \in P PROVE k + 1 \in P
  <2>1. PICK f : PicksTo(f, k, s, keep)
    OBVIOUS
  <2> DEFINE g == [n \in 0..(k + 1) |-> IF n = k + 1 THEN PicksNext(s, keep, n, f) ELSE f[n]]
  <2>2. \A n \in 0..(k + 1) : g[n] = PicksNext(s, keep, n, g)
    <3> SUFFICES ASSUME NEW n \in 0..(k + 1) PROVE g[n] = PicksNext(s, keep, n, g)
      OBVIOUS
    <3>1. n # 0 => g[n - 1] = f[n - 1]
      OBVIOUS
    <3>2. PicksNext(s, keep, n, g) = PicksNext(s, keep, n, f)
      BY <3>1 DEF PicksNext
    <3>3. n # k + 1 => f[n] = PicksNext(s, keep, n, f)
      BY <2>1 DEF PicksTo
    <3> QED
      BY <3>2, <3>3
  <2>3. PicksTo(g, k + 1, s, keep)
    BY <2>2 DEF PicksTo
  <2> HIDE DEF g
  <2> QED
    BY <2>3
<1>3. P \in SUBSET Nat
  OBVIOUS
<1>4. P = Nat
  <2> HIDE DEF P
  <2> QED
    BY <1>1, <1>2, <1>3, NatInduct
<1> QED
  BY <1>4

\* e are the places of keep up to n, ascending; t holds what s has there.
PickedBy(e, k, n, t, s, keep) ==
  /\ Numbers(e, k, {i \in keep : i <= n})
  /\ \A i, j \in 1..k : i < j => e[i] < e[j]
  /\ t = [i \in 1..k |-> s[e[i]]]

PickedTo(n, t, s, keep) == \E e, k : PickedBy(e, k, n, t, s, keep)

\* t holds what s has at the places of keep, ascending.
PickedAs(t, s, keep) ==
  \E e, k : /\ Numbers(e, k, keep)
            /\ \A i, j \in 1..k : i < j => e[i] < e[j]
            /\ t = [i \in 1..k |-> s[e[i]]]

\* What is picked (oracle_feed.c:42-46, 58-63).
LEMMA PickedIs ==
  ASSUME NEW m \in Nat, NEW s, s = [i \in 1..m |-> s[i]], Len(s) = m, NEW keep \in SUBSET (1..m)
  PROVE  PickedAs(Feed!Picked(s, keep), s, keep)
<1> DEFINE F == CHOOSE f : PicksTo(f, m, s, keep)
<1>1. Feed!Picked(s, keep) = F[m]
  BY DEF Feed!Picked, PicksTo, PicksNext
<1>2. PicksTo(F, m, s, keep)
  BY PicksExist
<1> HIDE DEF F
<1> DEFINE P == {n \in Nat : n <= m => PickedTo(n, F[n], s, keep)}
<1>3. 0 \in P
  <2>1. F[0] = <<>>
    BY <1>2 DEF PicksTo, PicksNext
  <2>2. {i \in keep : i <= 0} = {}
    OBVIOUS
  <2> DEFINE e == [i \in 1..0 |-> i]
  <2>3. e \in [1..0 -> {}] /\ 1..0 = {}
    OBVIOUS
  <2>4. [i \in 1..0 |-> s[e[i]]] = <<>>
    OBVIOUS
  <2> HIDE DEF e
  <2>5. Numbers(e, 0, {})
    BY <2>3 DEF Numbers
  <2>6. PickedBy(e, 0, 0, F[0], s, keep)
    BY <2>1, <2>2, <2>3, <2>4, <2>5 DEF PickedBy
  <2> QED
    BY <2>6 DEF PickedTo
<1>4. ASSUME NEW n \in P PROVE n + 1 \in P
  <2> SUFFICES ASSUME n + 1 <= m
               PROVE  PickedTo(n + 1, F[n + 1], s, keep)
    OBVIOUS
  <2>1. n \in Nat /\ n + 1 \in 0..m /\ n + 1 # 0 /\ (n + 1) - 1 = n
    OBVIOUS
  <2>2. PickedTo(n, F[n], s, keep)
    <3>1. n <= m
      BY <2>1
    <3> QED
      BY <3>1, Zenon
  <2>3. PICK e, k : PickedBy(e, k, n, F[n], s, keep)
    BY <2>2 DEF PickedTo
  <2>4. k \in Nat /\ e \in [1..k -> {i \in keep : i <= n}]
    BY <2>3 DEF PickedBy, Numbers
  <2>5. F[n + 1] = IF n + 1 \in keep THEN Append(F[n], s[n + 1]) ELSE F[n]
    BY <1>2, <2>1 DEF PicksTo, PicksNext
  <2>6. CASE n + 1 \notin keep
    <3>1. {i \in keep : i <= n + 1} = {i \in keep : i <= n}
      BY <2>1, <2>6
    <3>2. PickedBy(e, k, n + 1, F[n + 1], s, keep)
      BY <2>3, <2>5, <2>6, <3>1 DEF PickedBy
    <3> QED
      BY <3>2 DEF PickedTo
  <2>7. CASE n + 1 \in keep
    <3>1. {i \in keep : i <= n + 1} = {i \in keep : i <= n} \cup {n + 1}
      BY <2>1, <2>7
    <3> DEFINE g == [i \in 1..(k + 1) |-> IF i = k + 1 THEN n + 1 ELSE e[i]]
    <3>2. \A i \in 1..(k + 1) : i = k + 1 \/ (i \in 1..k /\ e[i] \in keep /\ e[i] <= n)
      BY <2>4
    <3>3. g \in [1..(k + 1) -> {i \in keep : i <= n + 1}]
      BY <2>1, <2>4, <2>7, <3>2
    <3>4. \A i, j \in 1..(k + 1) : i < j => g[i] < g[j]
      <4> SUFFICES ASSUME NEW i \in 1..(k + 1), NEW j \in 1..(k + 1), i < j PROVE g[i] < g[j]
        OBVIOUS
      <4>1. i \in 1..k /\ e[i] \in 1..m /\ e[i] <= n
        BY <2>4, <3>2
      <4>2. CASE j = k + 1
        BY <2>1, <2>4, <4>1, <4>2
      <4>3. CASE j # k + 1
        <5>1. j \in 1..k
          BY <2>4, <4>3
        <5> QED
          BY <2>3, <2>4, <4>1, <5>1 DEF PickedBy
      <4> QED
        BY <4>2, <4>3
    <3>5. \A i, j \in 1..(k + 1) : g[i] = g[j] => i = j
      <4>1. \A i \in 1..(k + 1) : g[i] \in Nat
        BY <3>3
      <4>2. k \in Nat
        BY <2>4
      <4> HIDE DEF g
      <4> QED
        BY <3>4, <4>1, <4>2
    <3>6. \A x \in {i \in keep : i <= n + 1} : \E i \in 1..(k + 1) : g[i] = x
      <4> SUFFICES ASSUME NEW x \in {i \in keep : i <= n + 1} PROVE \E i \in 1..(k + 1) : g[i] = x
        OBVIOUS
      <4>1. CASE x = n + 1
        <5>1. k + 1 \in 1..(k + 1)
          BY <2>4
        <5> QED
          BY <4>1, <5>1
      <4>2. CASE x # n + 1
        <5>1. PICK i \in 1..k : e[i] = x
          BY <2>3, <3>1, <4>2 DEF PickedBy, Numbers
        <5>2. i \in 1..(k + 1) /\ i # k + 1
          BY <2>4
        <5> QED
          BY <5>1, <5>2
      <4> QED
        BY <4>1, <4>2
    <3>7. F[n + 1] = [i \in 1..(k + 1) |-> s[g[i]]]
      <4>1. PICK t : t = F[n]
        OBVIOUS
      <4>2. t = [i \in 1..k |-> s[e[i]]]
        BY <2>3, <4>1 DEF PickedBy
      <4>3. t = [i \in 1..k |-> t[i]] /\ \A i \in 1..k : t[i] = s[e[i]]
        BY <4>2
      <4>4. Append(t, s[n + 1]) = [i \in 1..(k + 1) |-> IF i = k + 1 THEN s[n + 1] ELSE t[i]]
        BY <2>4, <4>3, Appends
      <4>5. \A i \in 1..(k + 1) : (IF i = k + 1 THEN s[n + 1] ELSE t[i]) = s[g[i]]
        BY <3>2, <4>3
      <4> HIDE DEF g
      <4> QED
        BY <2>5, <2>7, <4>1, <4>4, <4>5
    <3> HIDE DEF g
    <3>8. Numbers(g, k + 1, {i \in keep : i <= n + 1})
      BY <2>4, <3>3, <3>5, <3>6 DEF Numbers
    <3>9. PickedBy(g, k + 1, n + 1, F[n + 1], s, keep)
      BY <3>4, <3>7, <3>8 DEF PickedBy
    <3> QED
      BY <3>9 DEF PickedTo
  <2> QED
    BY <2>6, <2>7
<1>5. P \in SUBSET Nat
  OBVIOUS
<1>6. m \in P
  <2> HIDE DEF P
  <2> QED
    BY <1>3, <1>4, <1>5, NatInduct
<1>7. PICK e, k : PickedBy(e, k, m, F[m], s, keep)
  <2>1. PickedTo(m, F[m], s, keep)
    BY <1>6
  <2> QED
    BY <2>1 DEF PickedTo
<1>8. {i \in keep : i <= m} = keep
  OBVIOUS
<1>9. /\ Numbers(e, k, keep)
      /\ \A i, j \in 1..k : i < j => e[i] < e[j]
      /\ Feed!Picked(s, keep) = [i \in 1..k |-> s[e[i]]]
  BY <1>1, <1>7, <1>8, Zenon DEF PickedBy
<1> QED
  BY <1>9, Zenon DEF PickedAs

LEMMA ListHasLen ==
  ASSUME NEW n \in Nat, NEW s, s = [i \in 1..n |-> s[i]]
  PROVE  Len(s) = n
<1> DEFINE S == {s[i] : i \in 1..n}
           t == [i \in 1..n |-> s[i]]
<1>1. t \in [1..n -> S]
  OBVIOUS
<1>2. s = t
  OBVIOUS
<1> HIDE DEF S, t
<1>3. s \in [1..n -> S]
  BY <1>1, <1>2
<1> QED
  BY <1>3, SeqDef, LenProperties

-----------------------------------------------------------------------------
(* The feed *)

OfLen(s, n) == s = [i \in 1..n |-> s[i]]

\* The feed holds the rows of the chain, by height.
FeedIs(feed, chain, n) ==
  /\ n \in Nat /\ OfLen(feed, n)
  /\ \A i \in 1..n :
       {feed[i].height, feed[i].time, feed[i].coinbase, feed[i].bytes} \subseteq Int
  /\ \A i, j \in 1..n : i < j => feed[i].height < feed[j].height
  /\ DOMAIN chain = {feed[i].height : i \in 1..n}
  /\ \A i \in 1..n : chain[feed[i].height] = feed[i]

Under(chain, h) == [g \in {f \in DOMAIN chain : f < h} |-> chain[g]]

\* What is left of a feed is a prefix, and the chain below (oracle_feed.c:15-20).
LEMMA RollsBack ==
  ASSUME NEW feed, NEW chain, NEW n, FeedIs(feed, chain, n), NEW h \in Int
  PROVE  \E k \in 0..n : /\ FeedIs(Feed!Rollback(feed, h), Under(chain, h), k)
                         /\ \A i \in 1..k : Feed!Rollback(feed, h)[i].height < h
<1> DEFINE kept == {m \in 0..Len(feed) : m = 0 \/ feed[m].height < h}
           k == CHOOSE l \in kept : \A m \in kept : m <= l
           back == {n - m : m \in kept}
<1>1. n \in Nat /\ OfLen(feed, n) /\ Len(feed) = n
  BY ListHasLen DEF FeedIs, OfLen
<1>2. back \in SUBSET Nat /\ back # {}
  <2>1. 0 \in kept /\ \A m \in kept : n - m \in Nat
    BY <1>1
  <2> QED
    BY <2>1
<1>3. \E l \in kept : \A m \in kept : m <= l
  <2>1. PICK d \in back : \A e \in back : d <= e
    <3> HIDE DEF back
    <3> QED
      BY <1>2, LeastOf
  <2>2. PICK l \in kept : d = n - l
    OBVIOUS
  <2>3. ASSUME NEW m \in kept PROVE m <= l
    <3>1. n - m \in back /\ m \in Nat /\ l \in Nat
      BY <1>1
    <3> HIDE DEF back, kept
    <3>2. n - l <= n - m
      BY <2>1, <2>2, <3>1
    <3> QED
      BY <1>1, <3>1, <3>2
  <2> QED
    BY <2>3
<1>4. k \in kept /\ \A m \in kept : m <= k
  <2> HIDE DEF kept
  <2> QED
    BY <1>3
<1>5. Feed!Rollback(feed, h) = SubSeq(feed, 1, k)
  BY DEF Feed!Rollback
<1> HIDE DEF k
<1>6. k \in 0..n /\ \A i \in 1..n : i <= k <=> feed[i].height < h
  <2>1. k \in 0..n
    BY <1>1, <1>4
  <2>2. ASSUME NEW i \in 1..n PROVE i <= k <=> feed[i].height < h
    <3>1. feed[i].height \in Int /\ (k # 0 => feed[k].height \in Int /\ feed[k].height < h)
      BY <1>1, <1>4, <2>1 DEF FeedIs
    <3>2. i < k => feed[i].height < feed[k].height
      BY <2>1 DEF FeedIs
    <3>3. feed[i].height < h => i <= k
      <4>1. feed[i].height < h => i \in kept
        BY <1>1
      <4> HIDE DEF kept
      <4> QED
        BY <1>4, <4>1
    <3>4. i <= k => i = k \/ i < k
      BY <2>1
    <3> QED
      BY <2>1, <3>1, <3>2, <3>3, <3>4
  <2> QED
    BY <2>1, <2>2
<1>7. PICK t : t = Feed!Rollback(feed, h)
  OBVIOUS
<1>8. t = [i \in 1..k |-> feed[i]]
  <2>1. SubSeq(feed, 1, k) = [i \in 1..(k - 1 + 1) |-> feed[1 + i - 1]]
    <3>1. 1 \in 1..(n + 1) /\ k \in (1 - 1)..n
      BY <1>1, <1>6
    <3> QED
      BY <1>1, <3>1, FirstOnes DEF OfLen
  <2>2. k - 1 + 1 = k /\ \A i \in 1..k : 1 + i - 1 = i
    BY <1>6
  <2> QED
    BY <1>5, <1>7, <2>1, <2>2
<1>9. OfLen(t, k) /\ \A i \in 1..k : t[i] = feed[i] /\ i \in 1..n
  <2>1. \A i \in 1..k : i \in 1..n
    BY <1>1, <1>6
  <2>2. \A i \in 1..k : t[i] = feed[i]
    BY <1>8
  <2> QED
    BY <1>8, <2>1, <2>2 DEF OfLen
<1>10. DOMAIN Under(chain, h) = {t[i].height : i \in 1..k}
  <2>1. {f \in DOMAIN chain : f < h} = {t[i].height : i \in 1..k}
    <3>1. DOMAIN chain = {feed[i].height : i \in 1..n}
      BY DEF FeedIs
    <3>2. \A i \in 1..n : feed[i].height < h => i \in 1..k
      BY <1>6
    <3> QED
      BY <1>6, <1>9, <3>1, <3>2
  <2> QED
    BY <2>1 DEF Under
<1>11. \A i \in 1..k : t[i].height < h /\ Under(chain, h)[t[i].height] = t[i]
  <2> SUFFICES ASSUME NEW i \in 1..k
               PROVE  t[i].height < h /\ Under(chain, h)[t[i].height] = t[i]
    OBVIOUS
  <2>1. t[i].height < h
    BY <1>6, <1>9
  <2>2. t[i].height \in DOMAIN chain /\ chain[t[i].height] = t[i]
    BY <1>9 DEF FeedIs
  <2> QED
    BY <2>1, <2>2 DEF Under
<1>12. /\ \A i \in 1..k :
            {t[i].height, t[i].time, t[i].coinbase, t[i].bytes} \subseteq Int
       /\ \A i, j \in 1..k : i < j => t[i].height < t[j].height
  BY <1>9 DEF FeedIs
<1>13. FeedIs(t, Under(chain, h), k)
  BY <1>6, <1>9, <1>10, <1>11, <1>12 DEF FeedIs
<1> QED
  BY <1>6, <1>7, <1>11, <1>13

\* A call does to the feed what it does to the chain (oracle_feed.c:15-31).
ChainNext(chain, c) ==
  IF c.call = "rollback" THEN Under(chain, c.height)
  ELSE [g \in (DOMAIN Under(chain, c.height)) \cup {c.height} |->
          IF g = c.height THEN c ELSE chain[g]]
FeedNext(feed, c) ==
  IF c.call = "rollback" THEN Feed!Rollback(feed, c.height) ELSE Feed!Record(feed, c)

FeedHolds(feed, chain) == \E n : FeedIs(feed, chain, n)

LEMMA CallKeeps ==
  ASSUME NEW feed, NEW chain, FeedHolds(feed, chain), NEW c, c.height \in Int,
         c.call # "rollback" => {c.time, c.coinbase, c.bytes} \subseteq Int
  PROVE  FeedHolds(FeedNext(feed, c), ChainNext(chain, c))
<1> DEFINE h == c.height
           under == Under(chain, h)
<1>1. PICK n : FeedIs(feed, chain, n)
  BY DEF FeedHolds
<1>2. PICK k \in 0..n : /\ FeedIs(Feed!Rollback(feed, h), under, k)
                        /\ \A i \in 1..k : Feed!Rollback(feed, h)[i].height < h
  BY <1>1, RollsBack
<1>3. CASE c.call = "rollback"
  <2>1. FeedNext(feed, c) = Feed!Rollback(feed, h) /\ ChainNext(chain, c) = under
    BY <1>3 DEF FeedNext, ChainNext
  <2> HIDE DEF under
  <2> QED
    BY <1>2, <2>1, Zenon DEF FeedHolds
<1>4. CASE c.call # "rollback"
  <2> DEFINE with == [g \in (DOMAIN under) \cup {h} |-> IF g = h THEN c ELSE chain[g]]
  <2>1. PICK t : t = Feed!Rollback(feed, h)
    OBVIOUS
  <2>2. FeedNext(feed, c) = Append(t, c) /\ ChainNext(chain, c) = with
    BY <1>4, <2>1 DEF FeedNext, ChainNext, Feed!Record
  <2>3. \A g \in DOMAIN under : under[g] = chain[g]
    BY DEF Under
  <2> HIDE DEF under
  <2>4. FeedIs(t, under, k) /\ \A i \in 1..k : t[i].height < h
    BY <1>2, <2>1
  <2>5. k \in Nat /\ OfLen(t, k)
    BY <2>4 DEF FeedIs
  <2>6. PICK u : u = Append(t, c)
    OBVIOUS
  <2>7. u = [i \in 1..(k + 1) |-> IF i = k + 1 THEN c ELSE t[i]]
    BY <2>5, <2>6, Appends DEF OfLen
  <2>8. /\ OfLen(u, k + 1)
        /\ u[k + 1] = c /\ \A i \in 1..k : u[i] = t[i]
        /\ \A i \in 1..(k + 1) : i = k + 1 \/ i \in 1..k
        /\ k + 1 \in Nat /\ 1..k \subseteq 1..(k + 1) /\ k + 1 \in 1..(k + 1)
    <3>1. \A i \in 1..(k + 1) : u[i] = IF i = k + 1 THEN c ELSE t[i]
      BY <2>7
    <3>2. OfLen(u, k + 1)
      BY <2>7, <3>1 DEF OfLen
    <3> QED
      BY <2>5, <3>1, <3>2
  <2>9. \A i \in 1..k : {t[i].height, t[i].time, t[i].coinbase, t[i].bytes} \subseteq Int
    BY <2>4 DEF FeedIs
  <2>10. \A i \in 1..(k + 1) : {u[i].height, u[i].time, u[i].coinbase, u[i].bytes} \subseteq Int
    BY <1>4, <2>8, <2>9
  <2>11. ASSUME NEW i \in 1..(k + 1), NEW j \in 1..(k + 1), i < j PROVE u[i].height < u[j].height
    <3>1. i \in 1..k
      BY <2>5, <2>11
    <3>2. CASE j = k + 1
      BY <2>4, <2>8, <3>1, <3>2
    <3>3. CASE j # k + 1
      BY <2>4, <2>8, <2>11, <3>1, <3>3 DEF FeedIs
    <3> QED
      BY <3>2, <3>3
  <2>12. DOMAIN under = {t[i].height : i \in 1..k} /\ \A i \in 1..k : under[t[i].height] = t[i]
    BY <2>4 DEF FeedIs
  <2>13. DOMAIN with = {u[i].height : i \in 1..(k + 1)}
    <3>1. (DOMAIN under) \cup {h} = {u[i].height : i \in 1..(k + 1)}
      BY <2>8, <2>12
    <3> QED
      BY <3>1
  <2>14. ASSUME NEW i \in 1..(k + 1) PROVE with[u[i].height] = u[i]
    <3>1. CASE i = k + 1
      BY <2>8, <3>1
    <3>2. CASE i # k + 1
      <4>1. i \in 1..k /\ u[i] = t[i] /\ t[i].height \in Int /\ t[i].height < h
        BY <2>4, <2>8, <2>9, <3>2
      <4>2. t[i].height \in DOMAIN under /\ t[i].height # h
        BY <2>12, <4>1
      <4>3. with[t[i].height] = chain[t[i].height]
        BY <4>2
      <4> HIDE DEF with
      <4> QED
        BY <2>3, <2>12, <4>1, <4>2, <4>3
    <3> QED
      BY <3>1, <3>2
  <2> HIDE DEF with
  <2>15. FeedIs(u, with, k + 1)
    BY <2>8, <2>10, <2>11, <2>13, <2>14 DEF FeedIs
  <2> QED
    BY <2>2, <2>6, <2>15, Zenon DEF FeedHolds
<1> QED
  BY <1>3, <1>4

\* Both histories, from a call to the next.
CallNext(chained, calls, n, f) ==
  IF n = 0 THEN <<>>
  ELSE IF chained THEN ChainNext(f[n - 1], calls[n]) ELSE FeedNext(f[n - 1], calls[n])
CallsTo(chained, f, m, calls) == f = [n \in {0} \cup 1..m |-> CallNext(chained, calls, n, f)]

LEMMA CallsExist ==
  ASSUME NEW chained \in BOOLEAN, NEW m \in Nat, NEW calls
  PROVE  \E f : CallsTo(chained, f, m, calls)
<1> DEFINE P == {k \in Nat : \E f : CallsTo(chained, f, k, calls)}
<1>1. 0 \in P
  <2>1. {0} \cup 1..0 = {0}
    OBVIOUS
  <2>2. CallsTo(chained, [n \in {0} |-> <<>>], 0, calls)
    BY <2>1 DEF CallsTo, CallNext
  <2> QED
    BY <2>2
<1>2. ASSUME NEW k \in P PROVE k + 1 \in P
  <2>1. PICK f : CallsTo(chained, f, k, calls)
    OBVIOUS
  <2> DEFINE D == {0} \cup 1..(k + 1)
             g == [n \in D |-> IF n = k + 1 THEN CallNext(chained, calls, n, f) ELSE f[n]]
  <2>2. \A n \in D : n # 0 => n - 1 \in D /\ n - 1 # k + 1
    OBVIOUS
  <2>3. \A n \in D : n # k + 1 => n \in {0} \cup 1..k
    OBVIOUS
  <2>4. \A n \in D : g[n] = CallNext(chained, calls, n, g)
    <3> SUFFICES ASSUME NEW n \in D PROVE g[n] = CallNext(chained, calls, n, g)
      OBVIOUS
    <3>1. n # 0 => g[n - 1] = f[n - 1]
      BY <2>2
    <3>2. CallNext(chained, calls, n, g) = CallNext(chained, calls, n, f)
      BY <3>1 DEF CallNext
    <3>3. n # k + 1 => f[n] = CallNext(chained, calls, n, f)
      BY <2>1, <2>3 DEF CallsTo
    <3> QED
      BY <3>2, <3>3
  <2>5. CallsTo(chained, g, k + 1, calls)
    BY <2>4 DEF CallsTo
  <2> HIDE DEF g
  <2> QED
    BY <2>5
<1>3. P \in SUBSET Nat
  OBVIOUS
<1>4. P = Nat
  <2> HIDE DEF P
  <2> QED
    BY <1>1, <1>2, <1>3, NatInduct
<1> QED
  BY <1>4

\* After every history the feed holds the chain.
LEMMA FeedOfChain ==
  ASSUME NEW calls \in Histories
  PROVE  FeedHolds(FeedAfter(calls), ChainOf(calls))
<1> DEFINE m == Len(calls)
           F == CHOOSE f : CallsTo(FALSE, f, m, calls)
           C == CHOOSE f : CallsTo(TRUE, f, m, calls)
<1>1. m \in Nat /\ DOMAIN calls = 1..m
  BY HistoriesAssumption DEF IsList
<1>2. FeedAfter(calls) = F[m]
  BY <1>1 DEF FeedAfter, CallsTo, CallNext, FeedNext
<1>3. ChainOf(calls) = C[m]
  BY <1>1 DEF ChainOf, CallsTo, CallNext, ChainNext, Under
<1>4. CallsTo(FALSE, F, m, calls) /\ CallsTo(TRUE, C, m, calls)
  BY <1>1, CallsExist
<1> HIDE DEF F, C
<1> DEFINE P == {n \in Nat : n <= m => FeedHolds(F[n], C[n])}
<1>5. 0 \in P
  <2>1. F[0] = <<>> /\ C[0] = <<>>
    BY <1>4 DEF CallsTo, CallNext
  <2>2. <<>> = [i \in 1..0 |-> i] /\ 1..0 = {} /\ DOMAIN <<>> = {}
    OBVIOUS
  <2>3. FeedIs(<<>>, <<>>, 0)
    BY <2>2 DEF FeedIs, OfLen
  <2> QED
    BY <2>1, <2>3 DEF FeedHolds
<1>6. ASSUME NEW n \in P PROVE n + 1 \in P
  <2> SUFFICES ASSUME n + 1 <= m
               PROVE  FeedHolds(F[n + 1], C[n + 1])
    OBVIOUS
  <2>1. n \in Nat /\ n <= m /\ n + 1 \in 1..m /\ n + 1 # 0 /\ (n + 1) - 1 = n
    BY <1>1
  <2>2. FeedHolds(F[n], C[n])
    BY <2>1, Zenon
  <2>3. F[n + 1] = FeedNext(F[n], calls[n + 1]) /\ C[n + 1] = ChainNext(C[n], calls[n + 1])
    BY <1>4, <2>1 DEF CallsTo, CallNext
  <2>4. PICK c : c = calls[n + 1]
    OBVIOUS
  <2>5. /\ c.height \in Int
        /\ c.call # "rollback" => {c.time, c.coinbase, c.bytes} \subseteq Int
    BY <1>1, <2>1, <2>4, HistoriesAssumption
  <2> QED
    BY <2>2, <2>3, <2>4, <2>5, CallKeeps
<1>7. P \in SUBSET Nat
  OBVIOUS
<1>8. m \in P
  <2> HIDE DEF P
  <2> QED
    BY <1>1, <1>5, <1>6, <1>7, NatInduct
<1> QED
  BY <1>2, <1>3, <1>8

\* The oracle counts as the other modules do.
LEMMA SameCount == \A S : Feed!Cardinality(S) = Cardinality(S)
  BY Zenon DEF Feed!Cardinality, Cardinality

\* q numbers the numbers of S upwards.
Raised(q, n, S) == Numbers(q, n, S) /\ \A i, j \in 1..n : i < j => q[i] < q[j]

\* t holds the rows of the chain at the heights of S, upwards.
RowsAt(t, chain, S) ==
  \E H, k : Raised(H, k, S) /\ t = [i \in 1..k |-> chain[H[i]]]

\* Rows that are picked from the feed are those of some heights of the chain, upwards.
LEMMA PicksHeights ==
  ASSUME NEW feed, NEW chain, NEW n, FeedIs(feed, chain, n), NEW keep \in SUBSET (1..n)
  PROVE  RowsAt(Feed!Picked(feed, keep), chain, {feed[i].height : i \in keep})
<1> DEFINE S == {feed[i].height : i \in keep}
<1>1. n \in Nat /\ OfLen(feed, n) /\ Len(feed) = n
  BY ListHasLen DEF FeedIs, OfLen
<1>2. PICK e, k : /\ Numbers(e, k, keep)
                  /\ \A i, j \in 1..k : i < j => e[i] < e[j]
                  /\ Feed!Picked(feed, keep) = [i \in 1..k |-> feed[e[i]]]
  <2>1. PickedAs(Feed!Picked(feed, keep), feed, keep)
    <3>1. ASSUME NEW s, OfLen(s, n), Len(s) = n PROVE PickedAs(Feed!Picked(s, keep), s, keep)
      BY <1>1, <3>1, PickedIs DEF OfLen
    <3> QED
      BY <1>1, <3>1
  <2> QED
    BY <2>1 DEF PickedAs
<1>3. k \in Nat /\ e \in [1..k -> keep] /\ \A i \in 1..k : e[i] \in keep /\ e[i] \in 1..n
  BY <1>2 DEF Numbers
<1> DEFINE H == [i \in 1..k |-> feed[e[i]].height]
<1>4. H \in [1..k -> S]
  BY <1>3
<1>5. \A i, j \in 1..k : i < j => H[i] < H[j]
  BY <1>2, <1>3 DEF FeedIs
<1>6. \A i, j \in 1..k : H[i] = H[j] => i = j
  <2>1. \A i \in 1..k : H[i] \in Int
    BY <1>3 DEF FeedIs
  <2> HIDE DEF H
  <2> QED
    BY <1>3, <1>5, <2>1
<1>7. \A x \in S : \E i \in 1..k : H[i] = x
  BY <1>2 DEF Numbers
<1>8. Feed!Picked(feed, keep) = [i \in 1..k |-> chain[H[i]]]
  <2>1. \A i \in 1..k : feed[e[i]] = chain[H[i]]
    BY <1>3 DEF FeedIs
  <2> HIDE DEF H
  <2> QED
    BY <1>2, <2>1
<1> HIDE DEF H, S
<1>9. Raised(H, k, S)
  BY <1>3, <1>4, <1>5, <1>6, <1>7 DEF Raised, Numbers
<1>10. RowsAt(Feed!Picked(feed, keep), chain, S)
  BY <1>8, <1>9, Zenon DEF RowsAt
<1> QED
  BY <1>10 DEF S

\* The newest are those that fewer than TimeSpan are above.
LEMMA NewestAre ==
  ASSUME NEW H, NEW k, NEW S \in SUBSET Int, Raised(H, k, S), NEW span \in Nat \ {0},
         NEW m \in Nat, m = IF k > span THEN span ELSE k
  PROVE  Numbers([i \in 1..m |-> H[k - m + i]], m,
                 {g \in S : Cardinality({f \in S : f > g}) < span})
<1> DEFINE Above(g) == {f \in S : f > g}
           last == {g \in S : Cardinality(Above(g)) < span}
           G == [i \in 1..m |-> H[k - m + i]]
<1>1. /\ k \in Nat /\ \A i \in 1..k : H[i] \in S /\ H[i] \in Int
      /\ \A i, j \in 1..k : i < j => H[i] < H[j]
      /\ \A i, j \in 1..k : H[i] = H[j] => i = j
      /\ \A x \in S : \E i \in 1..k : H[i] = x
  BY DEF Raised, Numbers
<1>2. ASSUME NEW i \in 1..k PROVE Cardinality(Above(H[i])) = k - i
  <2>1. Above(H[i]) = {H[j] : j \in (i + 1)..k}
    <3>1. \A j \in 1..k : H[j] > H[i] <=> j > i
      <4> SUFFICES ASSUME NEW j \in 1..k PROVE H[j] > H[i] <=> j > i
        OBVIOUS
      <4>1. j < i \/ j = i \/ j > i
        BY <1>1
      <4>2. /\ H[i] \in Int /\ H[j] \in Int
            /\ j < i => H[j] < H[i]
            /\ i < j => H[i] < H[j]
        BY <1>1
      <4> QED
        BY <4>1, <4>2
    <3>2. \A j \in 1..k : j > i <=> j \in (i + 1)..k
      BY <1>1
    <3>3. \A j \in (i + 1)..k : j \in 1..k
      BY <1>1
    <3>4. ASSUME NEW f \in Above(H[i]) PROVE f \in {H[j] : j \in (i + 1)..k}
      <4>1. PICK j \in 1..k : H[j] = f
        BY <1>1
      <4>2. H[j] > H[i]
        BY <4>1
      <4> QED
        BY <3>1, <3>2, <4>1, <4>2
    <3>5. ASSUME NEW j \in (i + 1)..k PROVE H[j] \in Above(H[i])
      BY <1>1, <3>1, <3>2, <3>3
    <3> QED
      BY <3>4, <3>5
  <2>2. CASE i = k
    <3>1. (i + 1)..k = {}
      BY <1>1, <2>2
    <3>2. Above(H[i]) = {}
      BY <2>1, <3>1
    <3> QED
      BY <1>1, <2>2, <3>2, FS_EmptySet
  <2>3. CASE i # k
    <3>1. i + 1 \in 1..k /\ k \in (i + 1)..k /\ k - (i + 1) + 1 = k - i
      BY <1>1, <2>3
    <3>2. ASSUME NEW a \in 1..k PROVE Cardinality({H[j] : j \in a..k}) = k - a + 1
      <4>1. Numbers(H, k, S) /\ k \in a..k
        BY <1>1 DEF Raised
      <4> QED
        BY <4>1, NumbersRange
    <3> QED
      BY <2>1, <3>1, <3>2
  <2> QED
    BY <2>2, <2>3
<1>3. /\ m <= k /\ \A i \in 1..m : k - m + i \in 1..k /\ k - (k - m + i) < span
      /\ \A j \in 1..k : k - j < span => j - (k - m) \in 1..m /\ k - m + (j - (k - m)) = j
  BY <1>1
<1> HIDE DEF Above
<1>4. G \in [1..m -> last]
  BY <1>1, <1>2, <1>3
<1>5. \A i, j \in 1..m : G[i] = G[j] => i = j
  <2> SUFFICES ASSUME NEW i \in 1..m, NEW j \in 1..m, G[i] = G[j] PROVE i = j
    OBVIOUS
  <2>1. H[k - m + i] = H[k - m + j]
    OBVIOUS
  <2>2. k - m + i = k - m + j
    BY <1>1, <1>3, <2>1
  <2> QED
    BY <1>1, <2>2
<1>6. \A x \in last : \E i \in 1..m : G[i] = x
  <2> SUFFICES ASSUME NEW x \in last PROVE \E i \in 1..m : G[i] = x
    OBVIOUS
  <2>1. PICK j \in 1..k : H[j] = x
    BY <1>1
  <2>2. k - j < span
    BY <1>2, <2>1
  <2>3. j - (k - m) \in 1..m /\ k - m + (j - (k - m)) = j
    BY <1>3, <2>2
  <2> QED
    BY <2>1, <2>3
<1> HIDE DEF G, last
<1>7. Numbers(G, m, last)
  BY <1>4, <1>5, <1>6 DEF Numbers
<1> QED
  BY <1>7 DEF G, last, Above

\* The median time is that of the chain (oracle.c:18-30).
LEMMA MedianIs ==
  ASSUME NEW feed, NEW chain, NEW n, FeedIs(feed, chain, n), NEW h \in Int
  PROVE  Feed!IsMedianTime(Feed!MedianTime(feed, h), chain, h)
<1> DEFINE keep == {i \in DOMAIN feed : feed[i].height < h}
           S == Feed!ChainBelow(chain, h)
           last == {g \in S : Cardinality({f \in S : f > g}) < TimeSpan}
           times == Feed!LastOf([i \in DOMAIN Feed!Below(feed, h) |-> Feed!Below(feed, h)[i].time],
                                TimeSpan)
<1>1. TimeSpan \in Nat \ {0}
  BY HistoriesAssumption
<1>2. n \in Nat /\ DOMAIN feed = 1..n
  BY DEF FeedIs, OfLen
<1>3. {feed[i].height : i \in keep} = S /\ S \in SUBSET Int
      /\ \A g \in S : chain[g].time \in Int
  <2>1. DOMAIN chain = {feed[i].height : i \in 1..n}
        /\ \A i \in 1..n : chain[feed[i].height] = feed[i] /\ feed[i].height \in Int
                           /\ feed[i].time \in Int
    BY DEF FeedIs
  <2> QED
    BY <1>2, <2>1 DEF Feed!ChainBelow
<1>4. PICK H, k : Raised(H, k, S) /\ Feed!Below(feed, h) = [i \in 1..k |-> chain[H[i]]]
  <2>1. keep \in SUBSET (1..n)
    BY <1>2
  <2> HIDE DEF keep, S
  <2>2. RowsAt(Feed!Picked(feed, keep), chain, {feed[i].height : i \in keep})
    BY <2>1, PicksHeights
  <2>3. Feed!Below(feed, h) = Feed!Picked(feed, keep)
    BY DEF Feed!Below, keep
  <2>4. RowsAt(Feed!Below(feed, h), chain, S)
    BY <1>3, <2>2, <2>3, Zenon
  <2> QED
    BY <2>4 DEF RowsAt
<1>5. k \in Nat /\ \A i \in 1..k : H[i] \in S
  BY <1>4 DEF Raised, Numbers
<1> DEFINE m == IF k > TimeSpan THEN TimeSpan ELSE k
           G == [i \in 1..m |-> H[k - m + i]]
<1>6. m \in Nat /\ m <= k /\ (m = 0 <=> k = 0) /\ m = IF k > TimeSpan THEN TimeSpan ELSE k
  BY <1>1, <1>5
<1>7. times = [i \in 1..m |-> chain[G[i]].time]
  <2>1. PICK t : t = [i \in 1..k |-> chain[H[i]].time]
    OBVIOUS
  <2>2. [i \in DOMAIN Feed!Below(feed, h) |-> Feed!Below(feed, h)[i].time] = t
    BY <1>4, <2>1
  <2>3. OfLen(t, k) /\ \A i \in 1..k : t[i] = chain[H[i]].time
    BY <2>1 DEF OfLen
  <2>4. Len(t) = k
    BY <1>5, <2>3, ListHasLen DEF OfLen
  <2>5. times = SubSeq(t, k - m + 1, k)
    BY <1>1, <1>5, <2>2, <2>4 DEF Feed!LastOf
  <2> HIDE DEF m
  <2>6. k - m + 1 \in 1..(k + 1) /\ k \in ((k - m + 1) - 1)..k
    BY <1>5, <1>6
  <2>7. SubSeq(t, k - m + 1, k) = [i \in 1..(k - (k - m + 1) + 1) |-> t[(k - m + 1) + i - 1]]
    <3>1. PICK a \in 1..(k + 1) : a = k - m + 1
      BY <2>6
    <3>2. SubSeq(t, a, k) = [i \in 1..(k - a + 1) |-> t[a + i - 1]]
      BY <1>5, <2>3, <2>6, <3>1, FirstOnes DEF OfLen
    <3> QED
      BY <3>1, <3>2
  <2>8. /\ k - (k - m + 1) + 1 = m
        /\ \A i \in 1..m : (k - m + 1) + i - 1 = k - m + i /\ k - m + i \in 1..k
    BY <1>5, <1>6
  <2>9. \A i \in 1..m : t[(k - m + 1) + i - 1] = chain[G[i]].time
    BY <2>3, <2>8
  <2> HIDE DEF G, times
  <2> QED
    BY <2>5, <2>7, <2>8, <2>9
<1> HIDE DEF m, S
<1>8. Numbers(G, m, last)
  <2>1. S \in SUBSET Int /\ Raised(H, k, S)
    BY <1>3, <1>4
  <2>2. ASSUME NEW u \in Nat, u = IF k > TimeSpan THEN TimeSpan ELSE k
        PROVE  Numbers([i \in 1..u |-> H[k - u + i]], u, last)
    BY <1>1, <2>1, <2>2, NewestAre
  <2> QED
    BY <1>6, <2>2
<1>9. last \in SUBSET S
  OBVIOUS
<1>10. Feed!MedianTime(feed, h) = IF times = <<>> THEN 0 ELSE Feed!Sorted(times)[Len(times) \div 2 + 1]
  BY DEF Feed!MedianTime
<1>11. /\ last = {} => Feed!IsMedianTime(0, chain, h)
       /\ \A t : (/\ last # {}
                  /\ \E g \in last : chain[g].time = t
                  /\ 2 * Cardinality({g \in last : chain[g].time <= t}) > Cardinality(last)
                  /\ 2 * Cardinality({g \in last : chain[g].time >= t}) >= Cardinality(last))
                 => Feed!IsMedianTime(t, chain, h)
  <2> DEFINE newest == {g \in S : Feed!Cardinality({f \in S : f > g}) < TimeSpan}
  <2>1. newest = last
    BY SameCount
  <2>2. ASSUME NEW t
        PROVE  Feed!IsMedianTime(t, chain, h) <=>
                 IF newest = {} THEN t = 0
                 ELSE /\ \E g \in newest : chain[g].time = t
                      /\ 2 * Feed!Cardinality({g \in newest : chain[g].time <= t})
                           > Feed!Cardinality(newest)
                      /\ 2 * Feed!Cardinality({g \in newest : chain[g].time >= t})
                           >= Feed!Cardinality(newest)
    BY Zenon DEF Feed!IsMedianTime, S
  <2> HIDE DEF newest, last
  <2> QED
    BY <2>1, <2>2, SameCount
<1> HIDE DEF G, last, times
<1>12. CASE m = 0
  <2>1. times = <<>>
    BY <1>7, <1>12
  <2>2. last = {}
    BY <1>8, <1>12 DEF Numbers
  <2> QED
    BY <1>10, <1>11, <2>1, <2>2
<1>13. CASE m # 0
  <2> DEFINE j == m \div 2 + 1
             val == [g \in last |-> chain[g].time]
  <2>1. j \in 1..m /\ 2 * j > m /\ 2 * (m - j + 1) >= m
    <3>1. ASSUME NEW u \in Nat, u # 0
          PROVE  LET d == u \div 2 + 1 IN d \in 1..u /\ 2 * d > u /\ 2 * (u - d + 1) >= u
      BY <3>1
    <3> QED
      BY <1>6, <1>13, <3>1
  <2>2. val \in [last -> Int]
    BY <1>3, <1>9
  <2>3. \A i \in 1..m : G[i] \in last /\ val[G[i]] = chain[G[i]].time
    BY <1>8 DEF Numbers
  <2>4. times = [i \in 1..m |-> val[G[i]]]
    BY <1>7, <2>3
  <2>5. Len(times) = m /\ times # <<>>
    <3>1. OfLen(times, m)
      BY <1>7 DEF OfLen
    <3>2. Len(times) = m
      BY <1>6, <3>1, ListHasLen DEF OfLen
    <3> QED
      BY <1>13, <3>2
  <2>6. \A x \in last : val[x] = chain[x].time
    OBVIOUS
  <2> HIDE DEF j, val
  <2>7. PICK x \in last : /\ Feed!Sorted([i \in 1..m |-> val[G[i]]])[j] = val[x]
                          /\ Cardinality(last) = m /\ Middling(last, val, val[x], j)
    <3>1. IsMiddle(Feed!Sorted([i \in 1..m |-> val[G[i]]])[j], last, val, m, j)
      BY <1>6, <1>8, <2>1, <2>2, MiddleOf
    <3> QED
      BY <3>1 DEF IsMiddle
  <2>8. Feed!MedianTime(feed, h) = val[x]
    BY <1>10, <2>4, <2>5, <2>7 DEF j
  <2>9. /\ {g \in last : val[g] <= val[x]} = {g \in last : chain[g].time <= val[x]}
        /\ {g \in last : val[g] >= val[x]} = {g \in last : chain[g].time >= val[x]}
    BY <2>6
  <2>10. /\ 2 * Cardinality({g \in last : chain[g].time <= val[x]}) > Cardinality(last)
         /\ 2 * Cardinality({g \in last : chain[g].time >= val[x]}) >= Cardinality(last)
    <3>1. PICK low \in Nat, high \in Nat :
            /\ low = Cardinality({g \in last : chain[g].time <= val[x]}) /\ low >= j
            /\ high = Cardinality({g \in last : chain[g].time >= val[x]}) /\ high >= m - j + 1
      BY <2>7, <2>9 DEF Middling
    <3>2. 2 * low > m /\ 2 * high >= m
      BY <1>6, <2>1, <3>1
    <3> QED
      BY <2>7, <3>1, <3>2
  <2> QED
    BY <1>11, <2>6, <2>8, <2>10
<1> QED
  BY <1>12, <1>13

\* A fee is a whole number (oracle.c:43-48).
LEMMA FeeIsNat ==
  ASSUME NEW row, row.coinbase \in Int, row.bytes \in Int
  PROVE  Feed!FeePerByte(row) \in Nat
<1> DEFINE fees == IF row.coinbase > Subsidy THEN row.coinbase - Subsidy ELSE 0
           size == IF row.bytes > 0 THEN row.bytes ELSE 1
<1>1. fees \in Nat /\ size \in Nat \ {0}
  BY HistoriesAssumption
<1>2. Feed!FeePerByte(row) = fees \div size
  BY DEF Feed!FeePerByte
<1> HIDE DEF fees, size
<1>3. fees \div size \in Nat
  BY <1>1
<1> QED
  BY <1>2, <1>3

\* A window of heights holds at most as many of them.
LEMMA WindowFits ==
  ASSUME NEW q, NEW k, NEW S, Numbers(q, k, S), NEW h \in Int, NEW w \in Nat,
         \A g \in S : g \in (h - w)..(h - 1)
  PROVE  k <= w
<1> DEFINE W == (h - w)..(h - 1)
<1>1. k \in Nat /\ S \in SUBSET W
  BY DEF Numbers
<1>2. IsFiniteSet(S) /\ Cardinality(S) = k
  BY NumbersCount
<1>3. IsFiniteSet(W) /\ Cardinality(W) = w
  <2>1. h - w \in Int /\ h - 1 \in Int
    OBVIOUS
  <2>2. /\ IsFiniteSet(W)
        /\ Cardinality(W) = IF h - w > h - 1 THEN 0 ELSE (h - 1) - (h - w) + 1
    BY <2>1, FS_Interval
  <2>3. (IF h - w > h - 1 THEN 0 ELSE (h - 1) - (h - w) + 1) = w
    OBVIOUS
  <2> HIDE DEF W
  <2> QED
    BY <2>2, <2>3
<1>4. Cardinality(S) <= Cardinality(W)
  <2> HIDE DEF W
  <2> QED
    BY <1>1, <1>3, FS_Subset
<1> QED
  BY <1>2, <1>3, <1>4

\* t holds the values of the elements of S, in some order.
ValuesOf(t, val, S) == \E q, n : Numbers(q, n, S) /\ t = [i \in 1..n |-> val[q[i]]]

\* The values that are picked are those of the elements at their places.
LEMMA PicksValues ==
  ASSUME NEW H, NEW k, NEW S, Numbers(H, k, S), NEW val \in [S -> Nat]
  PROVE  LET fees == [i \in 1..k |-> val[H[i]]]
         IN  ValuesOf(Feed!Picked(fees, {i \in 1..k : fees[i] >= 1}), val,
                      {g \in S : val[g] >= 1})
<1> DEFINE fees == [i \in 1..k |-> val[H[i]]]
           keep == {i \in 1..k : fees[i] >= 1}
           T == {g \in S : val[g] >= 1}
<1>1. /\ k \in Nat /\ \A i \in 1..k : H[i] \in S
      /\ \A i, j \in 1..k : H[i] = H[j] => i = j
      /\ \A x \in S : \E i \in 1..k : H[i] = x
  BY DEF Numbers
<1>2. \A i \in 1..k : fees[i] = val[H[i]]
  OBVIOUS
<1>3. OfLen(fees, k) /\ Len(fees) = k
  <2>1. OfLen(fees, k)
    BY <1>2 DEF OfLen
  <2> HIDE DEF fees
  <2> QED
    BY <1>1, <2>1, ListHasLen DEF OfLen
<1>4. keep \in SUBSET (1..k)
  OBVIOUS
<1>5. PickedAs(Feed!Picked(fees, keep), fees, keep)
  <2> HIDE DEF fees, keep
  <2>1. ASSUME NEW s, OfLen(s, k), Len(s) = k PROVE PickedAs(Feed!Picked(s, keep), s, keep)
    BY <1>1, <1>4, <2>1, PickedIs DEF OfLen
  <2> QED
    BY <1>3, <2>1
<1>6. PICK e, l : /\ Numbers(e, l, keep)
                  /\ Feed!Picked(fees, keep) = [i \in 1..l |-> fees[e[i]]]
  <2> HIDE DEF fees, keep
  <2> QED
    BY <1>5, Zenon DEF PickedAs
<1>7. /\ l \in Nat /\ \A i \in 1..l : e[i] \in keep /\ e[i] \in 1..k
      /\ \A i, j \in 1..l : e[i] = e[j] => i = j
      /\ \A x \in keep : \E i \in 1..l : e[i] = x
  <2> HIDE DEF fees
  <2> QED
    BY <1>6 DEF Numbers
<1> DEFINE G == [i \in 1..l |-> H[e[i]]]
<1>8. G \in [1..l -> T]
  <2>1. \A i \in 1..l : H[e[i]] \in S /\ val[H[e[i]]] >= 1
    BY <1>1, <1>2, <1>7
  <2> QED
    BY <2>1
<1>9. \A i, j \in 1..l : G[i] = G[j] => i = j
  BY <1>1, <1>7
<1>10. \A x \in T : \E i \in 1..l : G[i] = x
  <2> SUFFICES ASSUME NEW x \in T PROVE \E i \in 1..l : G[i] = x
    OBVIOUS
  <2>1. PICK j \in 1..k : H[j] = x
    BY <1>1
  <2>2. j \in keep
    BY <1>2, <2>1
  <2>3. PICK i \in 1..l : e[i] = j
    BY <1>7, <2>2
  <2> QED
    BY <2>1, <2>3
<1>11. Feed!Picked(fees, keep) = [i \in 1..l |-> val[G[i]]]
  <2>1. \A i \in 1..l : fees[e[i]] = val[G[i]]
    BY <1>2, <1>7
  <2> HIDE DEF fees, G, keep
  <2> QED
    BY <1>6, <2>1
<1> HIDE DEF G, T
<1>12. Numbers(G, l, T)
  BY <1>7, <1>8, <1>9, <1>10 DEF Numbers
<1> HIDE DEF fees, keep
<1>13. ValuesOf(Feed!Picked(fees, keep), val, T)
  BY <1>11, <1>12, Zenon DEF ValuesOf
<1> QED
  BY <1>13 DEF fees, keep, T

\* The fees of the window that take part are those of the chain.
LEMMA ParticipantsAre ==
  ASSUME NEW feed, NEW chain, NEW n, FeedIs(feed, chain, n), NEW h \in Int
  PROVE  LET paying == {g \in Feed!ChainBelow(chain, h) :
                          g >= h - FeeWindow /\ Feed!FeePerByte(chain[g]) >= 1}
         IN  ValuesOf(Feed!Participants(feed, h), [g \in paying |-> Feed!FeePerByte(chain[g])],
                      paying)
<1> DEFINE keep == {i \in DOMAIN feed : h - FeeWindow <= feed[i].height /\ feed[i].height < h}
           S == {g \in Feed!ChainBelow(chain, h) : g >= h - FeeWindow}
           val == [g \in S |-> Feed!FeePerByte(chain[g])]
           window == Feed!Between(feed, h - FeeWindow, h)
           first == SubSeq(window, 1, IF Len(window) > FeeWindow THEN FeeWindow ELSE Len(window))
           fees == [i \in DOMAIN first |-> Feed!FeePerByte(first[i])]
<1>1. n \in Nat /\ DOMAIN feed = 1..n /\ FeeWindow \in Nat
  BY HistoriesAssumption DEF FeedIs, OfLen
<1>2. /\ {feed[i].height : i \in keep} = S /\ \A g \in S : g \in (h - FeeWindow)..(h - 1)
      /\ \A g \in S : chain[g].coinbase \in Int /\ chain[g].bytes \in Int
  <2>1. DOMAIN chain = {feed[i].height : i \in 1..n}
        /\ \A i \in 1..n : chain[feed[i].height] = feed[i] /\ feed[i].height \in Int
                           /\ feed[i].coinbase \in Int /\ feed[i].bytes \in Int
    BY DEF FeedIs
  <2> QED
    <3> HIDE DEF val, window, first, fees
    <3>1. {feed[i].height : i \in keep} = S
      BY <1>1, <2>1 DEF Feed!ChainBelow
    <3>2. \A g \in S : /\ g \in (h - FeeWindow)..(h - 1)
                      /\ chain[g].coinbase \in Int /\ chain[g].bytes \in Int
      BY <1>1, <2>1 DEF Feed!ChainBelow
    <3> QED
      BY <3>1, <3>2
<1>3. val \in [S -> Nat]
  BY <1>2, FeeIsNat
<1>4. PICK H, k : Raised(H, k, S) /\ window = [i \in 1..k |-> chain[H[i]]]
  <2>1. keep \in SUBSET (1..n)
    BY <1>1
  <2> HIDE DEF keep, S
  <2>2. RowsAt(Feed!Picked(feed, keep), chain, {feed[i].height : i \in keep})
    BY <2>1, PicksHeights
  <2>3. window = Feed!Picked(feed, keep)
    BY DEF Feed!Between, keep
  <2>4. RowsAt(window, chain, S)
    BY <1>2, <2>2, <2>3, Zenon
  <2> QED
    BY <2>4 DEF RowsAt
<1> HIDE DEF window
<1>5. Numbers(H, k, S) /\ k \in Nat /\ \A i \in 1..k : H[i] \in S
  BY <1>4 DEF Raised, Numbers
<1>6. k <= FeeWindow
  <2> HIDE DEF S
  <2> QED
    BY <1>1, <1>2, <1>5, WindowFits
<1>7. OfLen(window, k) /\ Len(window) = k /\ \A i \in 1..k : window[i] = chain[H[i]]
  <2>1. \A i \in 1..k : window[i] = chain[H[i]]
    BY <1>4
  <2>2. OfLen(window, k)
    BY <1>4, <2>1 DEF OfLen
  <2> QED
    BY <1>5, <2>1, <2>2, ListHasLen DEF OfLen
<1>8. first = window
  <2>1. first = SubSeq(window, 1, k)
    BY <1>1, <1>5, <1>6, <1>7
  <2>2. 1 \in 1..(k + 1) /\ k \in (1 - 1)..k
    BY <1>5
  <2>3. SubSeq(window, 1, k) = [i \in 1..(k - 1 + 1) |-> window[1 + i - 1]]
    BY <1>5, <1>7, <2>2, FirstOnes DEF OfLen
  <2>4. k - 1 + 1 = k /\ \A i \in 1..k : 1 + i - 1 = i
    BY <1>5
  <2> HIDE DEF first
  <2> QED
    BY <1>7, <2>1, <2>3, <2>4 DEF OfLen
<1>9. DOMAIN window = 1..k
  BY <1>7 DEF OfLen
<1> HIDE DEF first
<1>10. fees = [i \in 1..k |-> val[H[i]]]
  <2>1. \A i \in 1..k : Feed!FeePerByte(first[i]) = val[H[i]]
    BY <1>5, <1>7, <1>8
  <2> HIDE DEF val, S
  <2> QED
    BY <1>8, <1>9, <2>1
<1> DEFINE T == {g \in S : val[g] >= 1}
<1>11. ValuesOf(Feed!Picked(fees, {i \in DOMAIN fees : fees[i] >= 1}), val, T)
  <2> HIDE DEF val, S, fees
  <2>1. DOMAIN fees = 1..k
    BY <1>10
  <2> QED
    BY <1>3, <1>5, <1>10, <2>1, PicksValues
<1>12. Feed!Participants(feed, h) = Feed!Picked(fees, {i \in DOMAIN fees : fees[i] >= 1})
  BY DEF Feed!Participants, window, first
<1> DEFINE paying == {g \in Feed!ChainBelow(chain, h) :
                        g >= h - FeeWindow /\ Feed!FeePerByte(chain[g]) >= 1}
           pay == [g \in paying |-> Feed!FeePerByte(chain[g])]
<1>13. T = paying
  OBVIOUS
<1>14. \A g \in T : pay[g] = val[g]
  OBVIOUS
<1> HIDE DEF T, val, S, fees, pay, paying
<1>15. PICK q, m : /\ Numbers(q, m, T)
                   /\ Feed!Participants(feed, h) = [i \in 1..m |-> val[q[i]]]
  <2>1. ValuesOf(Feed!Participants(feed, h), val, T)
    BY <1>11, <1>12, Zenon
  <2> QED
    BY <2>1 DEF ValuesOf
<1>16. Feed!Participants(feed, h) = [i \in 1..m |-> pay[q[i]]]
  <2>1. \A i \in 1..m : q[i] \in T
    BY <1>15 DEF Numbers
  <2> QED
    BY <1>14, <1>15, <2>1
<1>17. ValuesOf(Feed!Participants(feed, h), pay, paying)
  BY <1>13, <1>15, <1>16, Zenon DEF ValuesOf
<1> QED
  BY <1>17 DEF pay, paying

\* The rate is that of the chain (oracle.c:33-57).
LEMMA RateIs ==
  ASSUME NEW feed, NEW chain, NEW n, FeedIs(feed, chain, n), NEW h \in Int
  PROVE  Feed!IsRate(Feed!Rate(feed, h), chain, h)
<1> DEFINE paying == {g \in Feed!ChainBelow(chain, h) :
                        g >= h - FeeWindow /\ Feed!FeePerByte(chain[g]) >= 1}
           Fee(g) == Feed!FeePerByte(chain[g])
           pay == [g \in paying |-> Fee(g)]
<1>1. PICK q, m : /\ Numbers(q, m, paying)
                  /\ Feed!Participants(feed, h) = [i \in 1..m |-> pay[q[i]]]
  <2>1. ValuesOf(Feed!Participants(feed, h), pay, paying)
    BY ParticipantsAre
  <2> HIDE DEF pay, paying
  <2> QED
    BY <2>1 DEF ValuesOf
<1>2. pay \in [paying -> Int]
  <2>1. \A g \in paying : chain[g].coinbase \in Int /\ chain[g].bytes \in Int
    <3>1. DOMAIN chain = {feed[i].height : i \in 1..n}
          /\ \A i \in 1..n : chain[feed[i].height] = feed[i]
                             /\ feed[i].coinbase \in Int /\ feed[i].bytes \in Int
      BY DEF FeedIs
    <3> QED
      BY <3>1 DEF Feed!ChainBelow
  <2> QED
    BY <2>1, FeeIsNat
<1>3. \A g \in paying : pay[g] = Fee(g)
  OBVIOUS
<1>4. ASSUME NEW r
      PROVE  Feed!IsRate(r, chain, h) <=>
               IF Feed!Cardinality(paying) < MinSample THEN r = RateFloor
               ELSE \E x \in paying :
                      /\ r = Feed!Clamp(Fee(x) * RefSize)
                      /\ 2 * Feed!Cardinality({g \in paying : Fee(g) <= Fee(x)})
                           >= Feed!Cardinality(paying)
                      /\ 2 * Feed!Cardinality({g \in paying : Fee(g) >= Fee(x)})
                           > Feed!Cardinality(paying)
  BY Zenon DEF Feed!IsRate
<1> HIDE DEF pay, paying, Fee
<1>5. MinSample \in Nat \ {0} /\ m \in Nat /\ \A i \in 1..m : q[i] \in paying
  BY <1>1, HistoriesAssumption DEF Numbers
<1>6. Feed!Cardinality(paying) = m /\ Cardinality(paying) = m
  BY <1>1, NumbersCount, SameCount
<1> DEFINE fees == Feed!Participants(feed, h)
<1>7. Len(fees) = m
  <2>1. \A i \in 1..m : fees[i] = pay[q[i]]
    BY <1>1
  <2>2. OfLen(fees, m)
    BY <1>1, <2>1 DEF OfLen
  <2> HIDE DEF fees
  <2> QED
    BY <1>5, <2>2, ListHasLen DEF OfLen
<1>8. Feed!Rate(feed, h) = IF Len(fees) < MinSample THEN RateFloor
                           ELSE Feed!Clamp(Feed!Sorted(fees)[Feed!Middle(Len(fees))] * RefSize)
  BY DEF Feed!Rate
<1>9. CASE m < MinSample
  <2> HIDE DEF fees
  <2> QED
    BY <1>4, <1>6, <1>7, <1>8, <1>9
<1>10. CASE ~(m < MinSample)
  <2>1. PICK j \in 1..m : j = Feed!Middle(m) /\ 2 * j >= m /\ 2 * (m - j + 1) > m
    <3>1. m >= 1
      BY <1>5, <1>10
    <3>2. ASSUME NEW u \in Nat, u >= 1
          PROVE  LET d == (u - 1) \div 2 + 1
                 IN  d \in 1..u /\ 2 * d >= u /\ 2 * (u - d + 1) > u
      BY <3>2
    <3> QED
      BY <1>5, <3>1, <3>2 DEF Feed!Middle
  <2>2. IsMiddle(Feed!Sorted(fees)[j], paying, pay, m, j)
    <3>1. IsMiddle(Feed!Sorted([i \in 1..m |-> pay[q[i]]])[j], paying, pay, m, j)
      BY <1>1, <1>2, <1>5, MiddleOf
    <3> QED
      BY <1>1, <3>1
  <2>3. PICK x \in paying : /\ Feed!Sorted(fees)[j] = pay[x]
                            /\ Middling(paying, pay, pay[x], j)
    BY <2>2 DEF IsMiddle
  <2>4. /\ {g \in paying : pay[g] <= pay[x]} = {g \in paying : Fee(g) <= Fee(x)}
        /\ {g \in paying : pay[g] >= pay[x]} = {g \in paying : Fee(g) >= Fee(x)}
    BY <1>3
  <2>5. PICK low \in Nat, high \in Nat :
          /\ low = Cardinality({g \in paying : Fee(g) <= Fee(x)}) /\ low >= j
          /\ high = Cardinality({g \in paying : Fee(g) >= Fee(x)}) /\ high >= m - j + 1
    BY <1>6, <2>3, <2>4 DEF Middling
  <2>6. 2 * low >= m /\ 2 * high > m
    BY <1>5, <2>1, <2>5
  <2>7. Feed!Rate(feed, h) = Feed!Clamp(Fee(x) * RefSize)
    <3> HIDE DEF fees
    <3> QED
      BY <1>3, <1>7, <1>8, <1>10, <2>1, <2>3
  <2> QED
    BY <1>4, <1>6, <1>10, <2>5, <2>6, <2>7, SameCount
<1> QED
  BY <1>9, <1>10

-----------------------------------------------------------------------------
(* The fold of a chain of blocks *)

\* An owner and an end for each name.
IsState(s) ==
  /\ s = [n \in DOMAIN s |-> s[n]]
  /\ \A n \in DOMAIN s : s[n].until \in Int /\ s[n].owner # Lapsed

AreBlocks(C) == IsList(C) /\ \A i \in DOMAIN C : C[i].owner # Lapsed

LEMMA BlocksAre ==
  ASSUME NEW C, AreBlocks(C)
  PROVE  Len(C) \in Nat /\ DOMAIN C = 1..Len(C) /\ \A i \in 1..Len(C) : C[i].owner # Lapsed
<1>1. Len(C) \in Nat /\ DOMAIN C = 1..Len(C)
  BY DEF AreBlocks, IsList
<1> QED
  BY <1>1 DEF AreBlocks

LEMMA LapseIs ==
  ASSUME NEW s, IsState(s), NEW h \in Int
  PROVE  /\ IsState(Past!Lapse(s, h))
         /\ DOMAIN Past!Lapse(s, h) = {n \in DOMAIN s : s[n].until > h}
         /\ \A n \in DOMAIN Past!Lapse(s, h) : Past!Lapse(s, h)[n] = s[n]
<1> DEFINE D == {n \in DOMAIN s : s[n].until > h}
<1>1. PICK t : t = Past!Lapse(s, h)
  OBVIOUS
<1>2. t = [n \in D |-> s[n]]
  BY <1>1 DEF Past!Lapse
<1>3. DOMAIN t = D /\ \A n \in D : t[n] = s[n]
  BY <1>2
<1> HIDE DEF D
<1>4. t = [n \in DOMAIN t |-> t[n]]
  BY <1>2, <1>3
<1>5. \A n \in DOMAIN t : t[n].until \in Int /\ t[n].owner # Lapsed
  <2>1. \A n \in D : n \in DOMAIN s
    BY DEF D
  <2> QED
    BY <1>3, <2>1 DEF IsState
<1>6. IsState(t)
  BY <1>4, <1>5, Zenon DEF IsState
<1> QED
  BY <1>1, <1>3, <1>6 DEF D

\* A state is what it says.
LEMMA SameState ==
  ASSUME NEW s, NEW t, IsState(s), IsState(t), DOMAIN s = DOMAIN t,
         \A n \in DOMAIN s : s[n] = t[n]
  PROVE  s = t
<1>1. s = [n \in DOMAIN s |-> s[n]] /\ t = [n \in DOMAIN t |-> t[n]]
  BY Zenon DEF IsState
<1>2. [n \in DOMAIN s |-> s[n]] = [n \in DOMAIN t |-> t[n]]
  OBVIOUS
<1> QED
  BY <1>1, <1>2, Zenon

LEMMA LapseTwice ==
  ASSUME NEW s, IsState(s), NEW g \in Int, NEW h \in Int, g <= h
  PROVE  Past!Lapse(Past!Lapse(s, g), h) = Past!Lapse(s, h)
<1>1. PICK a : a = Past!Lapse(s, g)
  OBVIOUS
<1>2. /\ IsState(a) /\ DOMAIN a = {n \in DOMAIN s : s[n].until > g}
      /\ \A n \in DOMAIN a : a[n] = s[n]
  BY <1>1, LapseIs
<1>3. PICK b, c : b = Past!Lapse(a, h) /\ c = Past!Lapse(s, h)
  OBVIOUS
<1>4. /\ IsState(b) /\ DOMAIN b = {n \in DOMAIN a : a[n].until > h}
      /\ \A n \in DOMAIN b : b[n] = a[n]
  BY <1>2, <1>3, LapseIs
<1>5. /\ IsState(c) /\ DOMAIN c = {n \in DOMAIN s : s[n].until > h}
      /\ \A n \in DOMAIN c : c[n] = s[n]
  BY <1>3, LapseIs
<1>6. \A n \in DOMAIN s : s[n].until \in Int
  BY DEF IsState
<1>7. DOMAIN b = DOMAIN c
  BY <1>2, <1>4, <1>5, <1>6
<1>8. b = c
  BY <1>2, <1>4, <1>5, <1>7, SameState
<1> QED
  BY <1>1, <1>3, <1>8

\* Nothing lapses when every lease goes on.
LEMMA LapseNone ==
  ASSUME NEW s, IsState(s), NEW h \in Int
  PROVE  (\A n \in DOMAIN s : s[n].until > h) <=> Past!Lapse(s, h) = s
<1>1. PICK a : a = Past!Lapse(s, h)
  OBVIOUS
<1>2. /\ IsState(a) /\ DOMAIN a = {n \in DOMAIN s : s[n].until > h}
      /\ \A n \in DOMAIN a : a[n] = s[n]
  BY <1>1, LapseIs
<1>3. ASSUME \A n \in DOMAIN s : s[n].until > h PROVE a = s
  <2>1. DOMAIN a = DOMAIN s
    BY <1>2, <1>3
  <2> QED
    BY <1>2, <2>1, SameState
<1>4. ASSUME a = s PROVE \A n \in DOMAIN s : s[n].until > h
  BY <1>2, <1>4
<1> QED
  BY <1>1, <1>3, <1>4

LEMMA ActIs ==
  ASSUME NEW s, IsState(s), NEW block, block.owner # Lapsed, NEW h \in Nat
  PROVE  /\ IsState(Past!Act(s, block, h))
         /\ ~Past!Carries(block) => Past!Act(s, block, h) = s
<1> DEFINE row(m) == [owner |-> block.owner,
                      until |-> IF Past!Holds(s, m) THEN s[m].until ELSE h + Lease]
           D == DOMAIN s \cup {block.name}
           with == [m \in D |-> IF m = block.name THEN row(m) ELSE s[m]]
<1>1. Past!Act(s, block, h) = with \/ Past!Act(s, block, h) = s
  BY DEF Past!Act
<1>2. ~Past!Carries(block) => Past!Act(s, block, h) = s
  BY DEF Past!Act, Past!Carries
<1>3. \A m \in DOMAIN s : s[m].until \in Int /\ s[m].owner # Lapsed
  BY DEF IsState
<1>4. row(block.name).until \in Int /\ row(block.name).owner # Lapsed
  <2>1. Lease \in Nat
    BY BlocksAssumption
  <2> QED
    BY <1>3, <2>1 DEF Past!Holds
<1> HIDE DEF row
<1>5. PICK t : t = with
  OBVIOUS
<1>6. DOMAIN t = D /\ \A m \in D : t[m] = IF m = block.name THEN row(m) ELSE s[m]
  BY <1>5
<1>7. t = [m \in DOMAIN t |-> t[m]]
  BY <1>5, <1>6
<1>8. \A m \in DOMAIN t : t[m].until \in Int /\ t[m].owner # Lapsed
  <2> SUFFICES ASSUME NEW m \in DOMAIN t PROVE t[m].until \in Int /\ t[m].owner # Lapsed
    OBVIOUS
  <2>1. CASE m = block.name
    BY <1>4, <1>6, <2>1
  <2>2. CASE m # block.name
    BY <1>3, <1>6, <2>2
  <2> QED
    BY <2>1, <2>2
<1>9. IsState(t)
  BY <1>7, <1>8, Zenon DEF IsState
<1> QED
  BY <1>1, <1>2, <1>5, <1>9

\* The state after each block.
StateNext(C, h, f) ==
  IF h = 0 THEN <<>> ELSE Past!Act(Past!Lapse(f[h - 1], h), C[h], h)
StatesTo(f, m, C) == f = [h \in 0..m |-> StateNext(C, h, f)]
StateAt(C, h) == (CHOOSE f : StatesTo(f, Len(C), C))[h]

LEMMA StatesExist ==
  ASSUME NEW m \in Nat, NEW C
  PROVE  \E f : StatesTo(f, m, C)
<1> DEFINE P == {k \in Nat : \E f : StatesTo(f, k, C)}
<1>1. 0 \in P
  <2>1. StatesTo([h \in 0..0 |-> <<>>], 0, C)
    BY DEF StatesTo, StateNext
  <2> QED
    BY <2>1
<1>2. ASSUME NEW k \in P PROVE k + 1 \in P
  <2>1. PICK f : StatesTo(f, k, C)
    OBVIOUS
  <2> DEFINE g == [h \in 0..(k + 1) |-> IF h = k + 1 THEN StateNext(C, h, f) ELSE f[h]]
  <2>2. \A h \in 0..(k + 1) : g[h] = StateNext(C, h, g)
    <3> SUFFICES ASSUME NEW h \in 0..(k + 1) PROVE g[h] = StateNext(C, h, g)
      OBVIOUS
    <3>1. h # 0 => g[h - 1] = f[h - 1]
      OBVIOUS
    <3>2. StateNext(C, h, g) = StateNext(C, h, f)
      BY <3>1 DEF StateNext
    <3>3. h # k + 1 => f[h] = StateNext(C, h, f)
      BY <2>1 DEF StatesTo
    <3> QED
      BY <3>2, <3>3
  <2>3. StatesTo(g, k + 1, C)
    BY <2>2 DEF StatesTo
  <2> HIDE DEF g
  <2> QED
    BY <2>3
<1>3. P \in SUBSET Nat
  OBVIOUS
<1>4. P = Nat
  <2> HIDE DEF P
  <2> QED
    BY <1>1, <1>2, <1>3, NatInduct
<1> QED
  BY <1>4

LEMMA StateSteps ==
  ASSUME NEW C, Len(C) \in Nat
  PROVE  /\ StateAt(C, 0) = <<>>
         /\ \A h \in 1..Len(C) :
              StateAt(C, h) = Past!Act(Past!Lapse(StateAt(C, h - 1), h), C[h], h)
<1> DEFINE f == CHOOSE f : StatesTo(f, Len(C), C)
<1>1. StatesTo(f, Len(C), C)
  BY StatesExist
<1>2. \A h : StateAt(C, h) = f[h]
  BY DEF StateAt
<1> HIDE DEF f
<1>3. \A h \in 0..Len(C) : f[h] = StateNext(C, h, f)
  BY <1>1 DEF StatesTo
<1>4. 0 \in 0..Len(C) /\ \A h \in 1..Len(C) : h \in 0..Len(C) /\ h # 0
  OBVIOUS
<1> QED
  BY <1>2, <1>3, <1>4 DEF StateNext

\* The state depends on the blocks so far.
LEMMA StateOfPrefix ==
  ASSUME NEW C, NEW D, Len(C) \in Nat, Len(D) \in Nat, NEW m \in Nat,
         m <= Len(C), m <= Len(D), \A i \in 1..m : C[i] = D[i]
  PROVE  \A h \in 0..m : StateAt(C, h) = StateAt(D, h)
<1> DEFINE P == {h \in Nat : h <= m => StateAt(C, h) = StateAt(D, h)}
<1>1. 0 \in P
  BY StateSteps
<1>2. ASSUME NEW h \in P PROVE h + 1 \in P
  <2> SUFFICES ASSUME h + 1 <= m PROVE StateAt(C, h + 1) = StateAt(D, h + 1)
    OBVIOUS
  <2>1. /\ h \in Nat /\ h <= m /\ (h + 1) - 1 = h
        /\ h + 1 \in 1..m /\ h + 1 \in 1..Len(C) /\ h + 1 \in 1..Len(D)
    OBVIOUS
  <2>2. StateAt(C, h) = StateAt(D, h)
    BY <2>1, Zenon
  <2>3. StateAt(C, h + 1) = Past!Act(Past!Lapse(StateAt(C, h), h + 1), C[h + 1], h + 1)
    BY <2>1, StateSteps
  <2>4. StateAt(D, h + 1) = Past!Act(Past!Lapse(StateAt(D, h), h + 1), D[h + 1], h + 1)
    BY <2>1, StateSteps
  <2> QED
    BY <2>1, <2>2, <2>3, <2>4
<1>3. P \in SUBSET Nat
  OBVIOUS
<1>4. P = Nat
  <2> HIDE DEF P
  <2> QED
    BY <1>1, <1>2, <1>3, NatInduct
<1> QED
  BY <1>4

LEMMA StateIs ==
  ASSUME NEW C, AreBlocks(C)
  PROVE  \A h \in 0..Len(C) : IsState(StateAt(C, h))
<1> DEFINE P == {h \in Nat : h <= Len(C) => IsState(StateAt(C, h))}
<1>1. Len(C) \in Nat /\ \A i \in 1..Len(C) : C[i].owner # Lapsed
  BY BlocksAre
<1>2. 0 \in P
  <2>1. IsState(<<>>)
    <3>1. <<>> = [n \in {} |-> n] /\ DOMAIN <<>> = {}
      OBVIOUS
    <3> QED
      BY <3>1 DEF IsState
  <2> QED
    BY <1>1, <2>1, StateSteps
<1>3. ASSUME NEW h \in P PROVE h + 1 \in P
  <2> SUFFICES ASSUME h + 1 <= Len(C) PROVE IsState(StateAt(C, h + 1))
    OBVIOUS
  <2>1. h \in Nat /\ h <= Len(C) /\ (h + 1) - 1 = h /\ h + 1 \in 1..Len(C) /\ h + 1 \in Nat
    BY <1>1
  <2>2. IsState(StateAt(C, h))
    BY <2>1, Zenon
  <2>3. StateAt(C, h + 1) = Past!Act(Past!Lapse(StateAt(C, h), h + 1), C[h + 1], h + 1)
    BY <1>1, <2>1, StateSteps
  <2>4. IsState(Past!Lapse(StateAt(C, h), h + 1))
    <3>1. ASSUME NEW i \in Int PROVE IsState(Past!Lapse(StateAt(C, h), i))
      BY <2>2, LapseIs
    <3> QED
      BY <2>1, <3>1
  <2> QED
    BY <1>1, <2>1, <2>3, <2>4, ActIs
<1>4. P \in SUBSET Nat
  OBVIOUS
<1>5. P = Nat
  <2> HIDE DEF P
  <2> QED
    BY <1>2, <1>3, <1>4, NatInduct
<1> QED
  BY <1>1, <1>5

\* No action in the blocks after g up to h.
Idle(C, g, h) == \A i \in (g + 1)..h : ~Past!Carries(C[i])

\* A state that stands at an earlier block without actions since catches up.
LEMMA CatchesUp ==
  ASSUME NEW C, AreBlocks(C), NEW h \in 1..Len(C), NEW g \in 0..(h - 1), Idle(C, g, h - 1)
  PROVE  /\ Past!Lapse(StateAt(C, g), h) = Past!Lapse(StateAt(C, h - 1), h)
         /\ Past!Act(Past!Lapse(StateAt(C, g), h), C[h], h) = StateAt(C, h)
<1> DEFINE P == {d \in Nat : g + d <= h - 1 =>
                   Past!Lapse(StateAt(C, g + d), h) = Past!Lapse(StateAt(C, g), h)}
<1>1. Len(C) \in Nat /\ \A i \in 1..Len(C) : C[i].owner # Lapsed
  BY BlocksAre
<1>2. 0 \in P
  <2>1. g + 0 = g
    OBVIOUS
  <2> QED
    BY <2>1
<1>3. ASSUME NEW d \in P PROVE d + 1 \in P
  <2> SUFFICES ASSUME g + (d + 1) <= h - 1
               PROVE  Past!Lapse(StateAt(C, g + (d + 1)), h) = Past!Lapse(StateAt(C, g), h)
    OBVIOUS
  <2>1. PICK k \in Nat : k = g + d
    OBVIOUS
  <2>2. /\ d \in Nat /\ g + (d + 1) = k + 1 /\ k <= h - 1 /\ (k + 1) - 1 = k
        /\ k + 1 \in 1..Len(C) /\ k + 1 \in (g + 1)..(h - 1) /\ k \in 0..Len(C)
        /\ k + 1 \in Nat /\ h \in Nat /\ k + 1 <= h
    BY <1>1, <2>1
  <2>3. Past!Lapse(StateAt(C, k), h) = Past!Lapse(StateAt(C, g), h)
    BY <2>1, <2>2, Zenon
  <2>4. StateAt(C, k + 1) = Past!Act(Past!Lapse(StateAt(C, k), k + 1), C[k + 1], k + 1)
    BY <1>1, <2>2, StateSteps
  <2>5. IsState(StateAt(C, k))
    BY <2>2, StateIs
  <2>6. IsState(Past!Lapse(StateAt(C, k), k + 1))
    <3>1. ASSUME NEW i \in Int PROVE IsState(Past!Lapse(StateAt(C, k), i))
      BY <2>5, LapseIs
    <3> QED
      BY <2>2, <3>1
  <2>7. ~Past!Carries(C[k + 1])
    BY <2>2 DEF Idle
  <2>8. StateAt(C, k + 1) = Past!Lapse(StateAt(C, k), k + 1)
    BY <1>1, <2>2, <2>4, <2>6, <2>7, ActIs
  <2>9. Past!Lapse(Past!Lapse(StateAt(C, k), k + 1), h) = Past!Lapse(StateAt(C, k), h)
    BY <2>2, <2>5, LapseTwice
  <2> QED
    BY <2>2, <2>3, <2>8, <2>9
<1>4. P \in SUBSET Nat
  OBVIOUS
<1>5. P = Nat
  <2> HIDE DEF P
  <2> QED
    BY <1>2, <1>3, <1>4, NatInduct
<1>6. Past!Lapse(StateAt(C, g), h) = Past!Lapse(StateAt(C, h - 1), h)
  <2>1. (h - 1) - g \in Nat /\ g + ((h - 1) - g) = h - 1
    BY <1>1
  <2>2. (h - 1) - g \in P
    BY <1>5, <2>1
  <2> QED
    BY <2>1, <2>2
<1>7. StateAt(C, h) = Past!Act(Past!Lapse(StateAt(C, h - 1), h), C[h], h)
  BY <1>1, StateSteps
<1> QED
  BY <1>6, <1>7

\* Without actions and lapses the state stays.
LEMMA StaysQuiet ==
  ASSUME NEW C, AreBlocks(C), NEW h \in 0..Len(C), NEW g \in 0..h, Idle(C, g, h),
         Past!Lapse(StateAt(C, g), h) = StateAt(C, g)
  PROVE  \A j \in g..h : StateAt(C, j) = StateAt(C, g)
<1> DEFINE s == StateAt(C, g)
           P == {d \in Nat : g + d <= h => StateAt(C, g + d) = s}
<1>1. Len(C) \in Nat /\ \A i \in 1..Len(C) : C[i].owner # Lapsed
  BY BlocksAre
<1>2. IsState(s) /\ \A n \in DOMAIN s : s[n].until \in Int /\ s[n].until > h
  <2>1. IsState(s) /\ h \in Int
    BY <1>1, StateIs
  <2>2. \A n \in DOMAIN s : s[n].until > h
    BY <2>1, LapseNone
  <2>3. \A n \in DOMAIN s : s[n].until \in Int
    BY <2>1 DEF IsState
  <2> QED
    BY <2>1, <2>2, <2>3
<1> HIDE DEF s
<1>3. 0 \in P
  <2>1. g + 0 = g
    OBVIOUS
  <2> QED
    BY <2>1 DEF s
<1>4. ASSUME NEW d \in P PROVE d + 1 \in P
  <2> SUFFICES ASSUME g + (d + 1) <= h PROVE StateAt(C, g + (d + 1)) = s
    OBVIOUS
  <2>1. PICK k \in Nat : k = g + d
    OBVIOUS
  <2>2. /\ d \in Nat /\ g + (d + 1) = k + 1 /\ k <= h /\ (k + 1) - 1 = k
        /\ k + 1 \in 1..Len(C) /\ k + 1 \in (g + 1)..h
        /\ k + 1 \in Nat /\ h \in Nat /\ k + 1 <= h
    BY <1>1, <2>1
  <2>3. StateAt(C, k) = s
    BY <2>1, <2>2, Zenon
  <2>4. StateAt(C, k + 1) = Past!Act(Past!Lapse(s, k + 1), C[k + 1], k + 1)
    BY <1>1, <2>2, <2>3, StateSteps
  <2>5. Past!Lapse(s, k + 1) = s
    <3>1. \A n \in DOMAIN s : s[n].until > k + 1
      BY <1>2, <2>2
    <3> QED
      BY <1>2, <2>2, <3>1, LapseNone
  <2>6. ~Past!Carries(C[k + 1])
    BY <2>2 DEF Idle
  <2> QED
    BY <1>1, <1>2, <2>2, <2>4, <2>5, <2>6, ActIs
<1>5. P \in SUBSET Nat
  OBVIOUS
<1>6. P = Nat
  <2> HIDE DEF P
  <2> QED
    BY <1>3, <1>4, <1>5, NatInduct
<1>7. ASSUME NEW j \in g..h PROVE StateAt(C, j) = s
  <2>1. j - g \in Nat /\ g + (j - g) = j /\ j <= h
    BY <1>1
  <2>2. j - g \in P
    BY <1>6, <2>1
  <2> QED
    BY <2>1, <2>2
<1> QED
  BY <1>7 DEF s

-----------------------------------------------------------------------------
(* The rows of who held a name *)

Held(s, n) == IF n \in DOMAIN s THEN s[n].owner ELSE Lapsed

\* The owner that rows say of a name at a height.
RecordedIn(E, n, h) == Past!Recorded([epochs |-> E], n, h)
RowsOf(E, n, h) == {e \in E : e.name = n /\ e.start <= h}

\* Rows up to a height, one for a name and a start at most.
AreRows(E, X) ==
  /\ \A e \in E : e.start \in 1..X
  /\ \A e, f \in E : e.name = f.name /\ e.start = f.start => e = f

LEMMA RecordedIs ==
  ASSUME NEW E, NEW n, NEW h
  PROVE  /\ RowsOf(E, n, h) = {} => RecordedIn(E, n, h) = Lapsed
         /\ \A X \in Nat : AreRows(E, X) =>
              \A r \in RowsOf(E, n, h) :
                (\A f \in RowsOf(E, n, h) : f.start <= r.start) => RecordedIn(E, n, h) = r.owner
<1> DEFINE R == RowsOf(E, n, h)
           last == CHOOSE e \in R : \A f \in R : f.start <= e.start
<1>1. RecordedIn(E, n, h) = IF R = {} THEN Lapsed ELSE last.owner
  BY DEF RecordedIn, Past!Recorded, Past!Rows, Past!Latest, RowsOf
<1>2. \A e \in R : e \in E /\ e.name = n
  BY DEF RowsOf
<1> HIDE DEF R
<1>3. ASSUME NEW X \in Nat, AreRows(E, X), NEW r \in R, \A f \in R : f.start <= r.start
      PROVE  RecordedIn(E, n, h) = r.owner
  <2>1. last \in R /\ \A f \in R : f.start <= last.start
    BY <1>3
  <2> HIDE DEF last
  <2>2. last.start \in Int /\ r.start \in Int /\ last \in E /\ r \in E /\ last.name = r.name
    BY <1>2, <1>3, <2>1 DEF AreRows
  <2>3. last.start = r.start
    BY <1>3, <2>1, <2>2
  <2>4. last = r
    BY <1>3, <2>2, <2>3 DEF AreRows
  <2> QED
    BY <1>1, <1>3, <2>4
<1> QED
  BY <1>1, <1>3 DEF R

\* Rows up to X say at every later height what they say at X.
LEMMA RecordedLater ==
  ASSUME NEW E, NEW X \in Nat, AreRows(E, X), NEW h \in Nat, X <= h
  PROVE  \A n : RecordedIn(E, n, h) = RecordedIn(E, n, X)
<1>1. ASSUME NEW n PROVE RecordedIn(E, n, h) = RecordedIn(E, n, X)
  <2>1. {e \in E : e.name = n /\ e.start <= h} = {e \in E : e.name = n /\ e.start <= X}
    BY DEF AreRows
  <2> QED
    BY <2>1 DEF RecordedIn, Past!Recorded, Past!Rows
<1> QED
  BY <1>1

\* The rows that are written for a state that the rows do not say yet (db.c:533-570).
NewRows(E, s, h) ==
  LET Changed == {n \in DOMAIN s : RecordedIn(E, n, h) # s[n].owner}
      Open == {n \in {e.name : e \in E} : RecordedIn(E, n, h) # Lapsed}
  IN  {[name |-> n, start |-> h, owner |-> s[n].owner] : n \in Changed}
        \cup {[name |-> n, start |-> h, owner |-> Lapsed] : n \in Open \ DOMAIN s}

LEMMA NoNewRows ==
  ASSUME NEW E, NEW s, NEW h, \A n : RecordedIn(E, n, h) = Held(s, n)
  PROVE  Past!PutEpoch(E, NewRows(E, s, h)) = E
<1>1. \A n \in DOMAIN s : RecordedIn(E, n, h) = s[n].owner
  BY DEF Held
<1>2. \A n : n \notin DOMAIN s => RecordedIn(E, n, h) = Lapsed
  BY DEF Held
<1>3. NewRows(E, s, h) = {}
  BY <1>1, <1>2 DEF NewRows
<1> QED
  BY <1>3 DEF Past!PutEpoch

LEMMA RowsWritten ==
  ASSUME NEW E, NEW X \in Nat, AreRows(E, X), NEW h \in Nat, X < h, NEW s
  PROVE  LET after == Past!PutEpoch(E, NewRows(E, s, h))
         IN  /\ AreRows(after, h)
             /\ \A n : RecordedIn(after, n, h) = Held(s, n)
             /\ \A n : \A g \in 0..(h - 1) : RecordedIn(after, n, g) = RecordedIn(E, n, g)
<1> DEFINE told == {n \in DOMAIN s : RecordedIn(E, n, h) # s[n].owner}
                     \cup ({n \in {e.name : e \in E} : RecordedIn(E, n, h) # Lapsed} \ DOMAIN s)
           NewRow(n) == [name |-> n, start |-> h, owner |-> Held(s, n)]
           new == {NewRow(n) : n \in told}
           after == E \cup new
<1>1. NewRows(E, s, h) = new
  <2> DEFINE A == {n \in DOMAIN s : RecordedIn(E, n, h) # s[n].owner}
             B == {n \in {e.name : e \in E} : RecordedIn(E, n, h) # Lapsed} \ DOMAIN s
  <2>1. NewRows(E, s, h) = {[name |-> n, start |-> h, owner |-> s[n].owner] : n \in A}
                             \cup {[name |-> n, start |-> h, owner |-> Lapsed] : n \in B}
    BY DEF NewRows
  <2>2. \A n \in A : NewRow(n) = [name |-> n, start |-> h, owner |-> s[n].owner]
    BY DEF Held
  <2>3. \A n \in B : NewRow(n) = [name |-> n, start |-> h, owner |-> Lapsed]
    BY DEF Held
  <2>4. told = A \cup B
    OBVIOUS
  <2> HIDE DEF A, B, told, NewRow
  <2> QED
    BY <2>1, <2>2, <2>3, <2>4
<1>2. \A n : NewRow(n).name = n /\ NewRow(n).start = h /\ NewRow(n).owner = Held(s, n)
  OBVIOUS
<1>3. \A e \in E : e.start \in Int /\ e.start >= 1 /\ e.start <= X /\ e.start < h
  BY DEF AreRows
<1> HIDE DEF NewRow, told
<1>4. \A e \in new : e.start = h /\ e = NewRow(e.name) /\ e.name \in told
  BY <1>2
<1>5. Past!PutEpoch(E, new) = after
  <2>1. \A e \in E : ~\E f \in new : f.name = e.name /\ f.start = e.start
    BY <1>3, <1>4
  <2>2. {e \in E : ~\E f \in new : f.name = e.name /\ f.start = e.start} = E
    BY <2>1
  <2> HIDE DEF new
  <2>3. Past!PutEpoch(E, new) = {e \in E : ~\E f \in new : f.name = e.name /\ f.start = e.start} \cup new
    BY DEF Past!PutEpoch
  <2> QED
    BY <2>2, <2>3
<1> HIDE DEF new
<1>6. AreRows(after, h)
  <2>1. \A e \in after : e.start \in 1..h
    BY <1>3, <1>4
  <2>2. ASSUME NEW e \in after, NEW f \in after, e.name = f.name, e.start = f.start PROVE e = f
    <3>1. CASE e \in E /\ f \in E
      BY <2>2, <3>1 DEF AreRows
    <3>2. CASE e \in new
      <4>1. f \in new
        BY <1>3, <1>4, <2>2, <3>2
      <4> QED
        BY <1>4, <2>2, <3>2, <4>1
    <3>3. CASE f \in new
      <4>1. e \in new
        BY <1>3, <1>4, <2>2, <3>3
      <4> QED
        BY <1>4, <2>2, <3>3, <4>1
    <3> QED
      BY <3>1, <3>2, <3>3
  <2> HIDE DEF after
  <2> QED
    BY <2>1, <2>2 DEF AreRows
<1>7. ASSUME NEW n PROVE RecordedIn(after, n, h) = Held(s, n)
  <2>1. CASE n \in told
    <3>1. NewRow(n) \in new
      BY <2>1 DEF new
    <3>2. NewRow(n) \in RowsOf(after, n, h)
      BY <1>2, <3>1 DEF RowsOf
    <3>3. \A f \in RowsOf(after, n, h) : f.start <= NewRow(n).start
      BY <1>2 DEF RowsOf
    <3> HIDE DEF after
    <3>4. RecordedIn(after, n, h) = NewRow(n).owner
      BY <1>6, <3>2, <3>3, RecordedIs
    <3> QED
      BY <1>2, <3>4
  <2>2. CASE n \notin told
    <3>1. {e \in after : e.name = n /\ e.start <= h} = {e \in E : e.name = n /\ e.start <= h}
      BY <1>4, <2>2
    <3>2. RecordedIn(after, n, h) = RecordedIn(E, n, h)
      BY <3>1, Zenon DEF RecordedIn, Past!Recorded, Past!Rows
    <3>3. RecordedIn(E, n, h) = Held(s, n)
      <4>1. CASE n \in DOMAIN s
        BY <2>2, <4>1 DEF told, Held
      <4>2. CASE n \notin DOMAIN s
        <5>1. CASE \E e \in E : e.name = n
          BY <2>2, <4>2, <5>1 DEF told, Held
        <5>2. CASE ~\E e \in E : e.name = n
          <6>1. RowsOf(E, n, h) = {}
            BY <5>2 DEF RowsOf
          <6> QED
            BY <4>2, <6>1, RecordedIs DEF Held
        <5> QED
          BY <5>1, <5>2
      <4> QED
        BY <4>1, <4>2
    <3> QED
      BY <3>2, <3>3
  <2> QED
    BY <2>1, <2>2
<1>8. ASSUME NEW n, NEW g \in 0..(h - 1) PROVE RecordedIn(after, n, g) = RecordedIn(E, n, g)
  <2>1. {e \in after : e.name = n /\ e.start <= g} = {e \in E : e.name = n /\ e.start <= g}
    BY <1>4
  <2> HIDE DEF after
  <2> QED
    BY <2>1, Zenon DEF RecordedIn, Past!Recorded, Past!Rows
<1> QED
  BY <1>1, <1>5, <1>6, <1>7, <1>8

-----------------------------------------------------------------------------
(* What the rows say while blocks are folded *)

\* The last block at or below h that the rows know of, if those up to T were replayed.
KnownAt(C, T, h) == IF h <= T THEN Replayed(C, h) ELSE h

\* The rows E tell of the chain C up to X; the state s, with H blocks behind it, is that of
\* the last one with an action.
Tells(E, s, H, C, X, T) ==
  /\ H \in Nat /\ X \in Nat /\ H <= X /\ X <= Len(C) /\ T \in Int
  /\ AreRows(E, X)
  /\ \A n : \A h \in 0..X : RecordedIn(E, n, h) = Held(StateAt(C, KnownAt(C, T, h)), n)
  /\ \E g \in 0..H :
       /\ KnownAt(C, T, g) = g /\ Idle(C, g, H) /\ s = StateAt(C, g)
       /\ H = X => KnownAt(C, T, X) \in g..X

\* The rows after a block is folded (sync.c:171-174, 195-197).
FoldedRows(E, s, block, h) ==
  IF Past!Carries(block) \/ Past!Lapse(s, h) # s
  THEN Past!PutEpoch(E, NewRows(E, Past!Act(Past!Lapse(s, h), block, h), h)) ELSE E

Further(X, h) == IF h <= X THEN X ELSE h

LEMMA FoldTells ==
  ASSUME NEW C, AreBlocks(C), NEW E, NEW s, NEW H, NEW X, NEW T, Tells(E, s, H, C, X, T),
         NEW h \in 1..Len(C), h = H + 1, KnownAt(C, T, h) = h
  PROVE  Tells(FoldedRows(E, s, C[h], h), Past!Act(Past!Lapse(s, h), C[h], h), h, C,
               Further(X, h), T)
<1>1. Len(C) \in Nat /\ \A i \in 1..Len(C) : C[i].owner # Lapsed
  BY BlocksAre
<1>2. /\ H \in Nat /\ X \in Nat /\ H <= X /\ X <= Len(C) /\ T \in Int /\ AreRows(E, X)
      /\ \A n : \A k \in 0..X : RecordedIn(E, n, k) = Held(StateAt(C, KnownAt(C, T, k)), n)
  BY DEF Tells
<1>3. PICK g \in 0..H :
        /\ KnownAt(C, T, g) = g /\ Idle(C, g, H) /\ s = StateAt(C, g)
        /\ H = X => KnownAt(C, T, X) \in g..X
  BY DEF Tells
<1> DEFINE after == Past!Act(Past!Lapse(s, h), C[h], h)
           F == FoldedRows(E, s, C[h], h)
<1>4. after = StateAt(C, h)
  <2>1. g \in 0..(h - 1) /\ H = h - 1
    BY <1>2
  <2> QED
    BY <1>3, <2>1, CatchesUp
<1>5. Idle(C, h, h) /\ h \in 0..h
  BY DEF Idle
<1>6. CASE h <= X
  <2>1. \A n : RecordedIn(E, n, h) = Held(after, n)
    BY <1>2, <1>4, <1>6
  <2>2. F = E
    <3> HIDE DEF after
    <3>1. Past!PutEpoch(E, NewRows(E, after, h)) = E
      BY <2>1, NoNewRows
    <3> QED
      BY <3>1 DEF FoldedRows, after
  <2>3. h = X => KnownAt(C, T, X) \in h..X
    BY <1>2
  <2>4. Further(X, h) = X
    BY <1>6 DEF Further
  <2> HIDE DEF F, after
  <2>5. Tells(F, after, h, C, X, T)
    BY <1>2, <1>4, <1>5, <1>6, <2>2, <2>3 DEF Tells
  <2> QED
    BY <2>4, <2>5 DEF F, after
<1>7. CASE ~(h <= X)
  <2>1. H = X /\ X < h /\ h \in Nat /\ X <= h /\ Further(X, h) = h
    BY <1>2, <1>7 DEF Further
  <2>2. /\ AreRows(F, h)
        /\ \A n : RecordedIn(F, n, h) = Held(after, n)
        /\ \A n : \A k \in 0..X : RecordedIn(F, n, k) = RecordedIn(E, n, k)
    <3>1. CASE Past!Carries(C[h]) \/ Past!Lapse(s, h) # s
      <4>1. F = Past!PutEpoch(E, NewRows(E, after, h))
        BY <3>1 DEF FoldedRows
      <4> HIDE DEF F, after
      <4>2. /\ AreRows(F, h) /\ \A n : RecordedIn(F, n, h) = Held(after, n)
            /\ \A n : \A k \in 0..(h - 1) : RecordedIn(F, n, k) = RecordedIn(E, n, k)
        BY <1>2, <2>1, <4>1, RowsWritten
      <4>3. h - 1 = X
        BY <1>2, <2>1
      <4> QED
        BY <4>2, <4>3
    <3>2. CASE ~(Past!Carries(C[h]) \/ Past!Lapse(s, h) # s)
      <4>1. F = E
        BY <3>2 DEF FoldedRows
      <4>2. IsState(s)
        BY <1>1, <1>2, <1>3, StateIs
      <4>3. after = s
        BY <1>1, <2>1, <3>2, <4>2, ActIs
      <4> HIDE DEF F, after
      <4>4. AreRows(E, h)
        BY <1>2, <2>1 DEF AreRows
      <4>5. \A n : RecordedIn(E, n, h) = RecordedIn(E, n, X)
        BY <1>2, <2>1, RecordedLater
      <4>6. StateAt(C, KnownAt(C, T, X)) = StateAt(C, g)
        <5>1. Idle(C, g, h)
          <6>1. \A i \in (g + 1)..h : i \in (g + 1)..H \/ i = h
            BY <1>2
          <6> QED
            BY <1>3, <3>2, <6>1 DEF Idle
        <5>2. h \in 0..Len(C) /\ g \in 0..h /\ \A k \in g..X : k \in g..h
          BY <1>1, <1>2, <2>1
        <5>3. \A j \in g..h : StateAt(C, j) = StateAt(C, g)
          BY <1>3, <3>2, <5>1, <5>2, StaysQuiet
        <5> QED
          BY <1>3, <2>1, <5>2, <5>3
      <4>7. \A n : RecordedIn(E, n, X) = Held(s, n)
        <5>1. X \in 0..X
          BY <1>2
        <5> QED
          BY <1>2, <1>3, <4>6, <5>1
      <4> QED
        BY <4>1, <4>3, <4>4, <4>5, <4>7
    <3> QED
      BY <3>1, <3>2
  <2> HIDE DEF F, after
  <2>3. ASSUME NEW n, NEW k \in 0..h
        PROVE  RecordedIn(F, n, k) = Held(StateAt(C, KnownAt(C, T, k)), n)
    <3>1. CASE k = h
      BY <1>4, <2>2, <3>1
    <3>2. CASE k # h
      <4>1. k \in 0..X
        BY <1>2, <2>1, <3>2
      <4> QED
        BY <1>2, <2>2, <4>1
    <3> QED
      BY <3>1, <3>2
  <2>4. KnownAt(C, T, h) \in h..h /\ h <= Len(C) /\ h <= h
    BY <2>1
  <2>5. Tells(F, after, h, C, h, T)
    BY <1>2, <1>4, <1>5, <2>1, <2>2, <2>3, <2>4 DEF Tells
  <2> QED
    BY <2>1, <2>5 DEF F, after
<1> QED
  BY <1>6, <1>7

\* A block that a replay leaves out changes nothing.
LEMMA SkipTells ==
  ASSUME NEW C, AreBlocks(C), NEW E, NEW s, NEW H, NEW X, NEW T, Tells(E, s, H, C, X, T),
         NEW h \in 1..Len(C), h = H + 1, ~Past!Carries(C[h]),
         \/ h <= X /\ T < 0
         \/ H = X /\ KnownAt(C, T, h) = KnownAt(C, T, H)
  PROVE  Tells(E, s, h, C, Further(X, h), T)
<1>1. Len(C) \in Nat
  BY BlocksAre
<1>2. /\ H \in Nat /\ X \in Nat /\ H <= X /\ X <= Len(C) /\ T \in Int /\ AreRows(E, X)
      /\ \A n : \A k \in 0..X : RecordedIn(E, n, k) = Held(StateAt(C, KnownAt(C, T, k)), n)
  BY DEF Tells
<1>3. PICK g \in 0..H :
        /\ KnownAt(C, T, g) = g /\ Idle(C, g, H) /\ s = StateAt(C, g)
        /\ H = X => KnownAt(C, T, X) \in g..X
  BY DEF Tells
<1>4. g \in 0..h /\ Idle(C, g, h)
  <2>1. \A i \in (g + 1)..h : i \in (g + 1)..H \/ i = h
    BY <1>2
  <2> QED
    BY <1>2, <1>3, <2>1 DEF Idle
<1>5. CASE h <= X
  <2>1. Further(X, h) = X /\ T < 0
    BY <1>2, <1>5 DEF Further
  <2>2. h = X => KnownAt(C, T, X) \in g..X
    BY <1>2, <1>4, <2>1 DEF KnownAt
  <2>3. Tells(E, s, h, C, X, T)
    BY <1>2, <1>3, <1>4, <1>5, <2>2 DEF Tells
  <2> QED
    BY <2>1, <2>3
<1>6. CASE ~(h <= X)
  <2>1. H = X /\ X < h /\ X <= h /\ h \in Nat /\ Further(X, h) = h
        /\ KnownAt(C, T, h) = KnownAt(C, T, X)
    BY <1>2, <1>6 DEF Further
  <2>2. AreRows(E, h) /\ \A n : RecordedIn(E, n, h) = RecordedIn(E, n, X)
    BY <1>2, <2>1, RecordedLater DEF AreRows
  <2>3. ASSUME NEW n, NEW k \in 0..h
        PROVE  RecordedIn(E, n, k) = Held(StateAt(C, KnownAt(C, T, k)), n)
    <3>1. CASE k = h
      <4>1. X \in 0..X
        BY <1>2
      <4> QED
        BY <1>2, <2>1, <2>2, <3>1, <4>1
    <3>2. CASE k # h
      <4>1. k \in 0..X
        BY <1>2, <2>1, <3>2
      <4> QED
        BY <1>2, <4>1
    <3> QED
      BY <3>1, <3>2
  <2>4. KnownAt(C, T, h) \in g..h /\ h <= Len(C) /\ h <= h
    BY <1>2, <1>3, <2>1
  <2>5. Tells(E, s, h, C, h, T)
    BY <1>2, <1>3, <1>4, <2>1, <2>2, <2>3, <2>4 DEF Tells
  <2> QED
    BY <2>1, <2>5
<1> QED
  BY <1>5, <1>6

-----------------------------------------------------------------------------
(* The coins of watched addresses *)

\* A coin is funded in one block, and spent in one at most, not before.
Paying(C) ==
  /\ \A f, g \in 1..Len(C) : \A c \in C[f].funds : c \in C[g].funds => f = g
  /\ \A f, g \in 1..Len(C) : \A c \in C[f].spends : c \in C[g].spends => f = g
  /\ \A s \in 1..Len(C) : \A c \in C[s].spends : \E f \in 1..s : c \in C[f].funds

CoinRow(c, f, s) == [coin |-> c, at |-> f, spent |-> s]

\* What a row says: the coin is funded at f, and spent at s or not up to Y.
Paid(C, Y, c, f, s) ==
  /\ f \in 1..Y /\ c \in C[f].funds
  /\ \/ s \in 1..Y /\ c \in C[s].spends
     \/ s = Never /\ \A g \in 1..Y : c \notin C[g].spends

\* The rows U are those of the coins of C up to Y.
PaysOf(U, C, Y) ==
  /\ \A u \in U : u = CoinRow(u.coin, u.at, u.spent) /\ Paid(C, Y, u.coin, u.at, u.spent)
  /\ \A f \in 1..Y : \A c \in C[f].funds : \E u \in U : u.coin = c /\ u.at = f

LEMMA Pays ==
  ASSUME NEW C, AreBlocks(C), Payable(C)
  PROVE  /\ Paying(C)
         /\ \A f \in 1..Len(C) : C[f].funds \cup C[f].spends \subseteq Coins(C)
         /\ \A c \in Coins(C) : \E f \in 1..Len(C) : c \in C[f].funds
<1>1. Len(C) \in Nat /\ DOMAIN C = 1..Len(C)
  BY BlocksAre
<1>2. \A i \in 1..Len(C) : \A c \in C[i].funds \cup C[i].spends : c \in Coins(C)
  <2>1. Range(C) = {C[i] : i \in 1..Len(C)}
    BY <1>1 DEF Range
  <2> QED
    BY <2>1 DEF Coins
<1>3. ASSUME NEW c \in Coins(C)
      PROVE  /\ \E f : Funds(C, c) = {f}
             /\ \A s, t \in Spends(C, c) : s = t
             /\ \A f \in Funds(C, c), s \in Spends(C, c) : f <= s
  <2>1. /\ Cardinality(Funds(C, c)) = 1 /\ Cardinality(Spends(C, c)) <= 1
        /\ \A f \in Funds(C, c), s \in Spends(C, c) : f <= s
    BY DEF Payable
  <2>2. Funds(C, c) \subseteq 1..Len(C) /\ Spends(C, c) \subseteq 1..Len(C)
    BY <1>1 DEF Funds, Spends
  <2>3. IsFiniteSet(1..Len(C))
    BY <1>1, FS_Interval
  <2>4. IsFiniteSet(Funds(C, c)) /\ IsFiniteSet(Spends(C, c))
    BY <2>2, <2>3, FS_Subset
  <2>5. \E f : Funds(C, c) = {f}
    BY <2>1, <2>4, FS_Singleton
  <2>6. \A s, t \in Spends(C, c) : s = t
    <3>1. Cardinality(Spends(C, c)) \in Nat
      BY <2>4, FS_CardinalityType
    <3>2. Cardinality(Spends(C, c)) = 0 \/ Cardinality(Spends(C, c)) = 1
      BY <2>1, <3>1
    <3>3. Spends(C, c) = {} \/ \E s : Spends(C, c) = {s}
      BY <2>4, <3>2, FS_EmptySet, FS_Singleton
    <3> QED
      BY <3>3
  <2> QED
    BY <2>1, <2>5, <2>6
<1>4. ASSUME NEW f \in 1..Len(C), NEW g \in 1..Len(C), NEW c \in C[f].funds, c \in C[g].funds
      PROVE  f = g
  <2>1. c \in Coins(C) /\ f \in Funds(C, c) /\ g \in Funds(C, c)
    BY <1>1, <1>2, <1>4 DEF Funds
  <2> QED
    BY <1>3, <2>1
<1>5. ASSUME NEW f \in 1..Len(C), NEW g \in 1..Len(C), NEW c \in C[f].spends, c \in C[g].spends
      PROVE  f = g
  <2>1. c \in Coins(C) /\ f \in Spends(C, c) /\ g \in Spends(C, c)
    BY <1>1, <1>2, <1>5 DEF Spends
  <2> QED
    BY <1>3, <2>1
<1>6. ASSUME NEW s \in 1..Len(C), NEW c \in C[s].spends
      PROVE  \E f \in 1..s : c \in C[f].funds
  <2>1. c \in Coins(C) /\ s \in Spends(C, c)
    BY <1>1, <1>2 DEF Spends
  <2>2. PICK f : f \in Funds(C, c) /\ f <= s
    BY <1>3, <2>1
  <2> QED
    BY <1>1, <2>2 DEF Funds
<1>7. ASSUME NEW c \in Coins(C) PROVE \E f \in 1..Len(C) : c \in C[f].funds
  <2>1. PICK f : f \in Funds(C, c)
    BY <1>3
  <2> QED
    BY <1>1, <2>1 DEF Funds
<1> QED
  BY <1>2, <1>4, <1>5, <1>6, <1>7 DEF Paying

\* What begins with as many blocks pays alike so far.
LEMMA PayingPrefix ==
  ASSUME NEW C, NEW D, Len(C) \in Nat, Len(D) \in Nat, Len(D) <= Len(C),
         \A i \in 1..Len(D) : C[i] = D[i], Paying(C)
  PROVE  Paying(D)
<1>1. \A i \in 1..Len(D) : i \in 1..Len(C) /\ C[i] = D[i] /\ \A f \in 1..i : f \in 1..Len(D)
  OBVIOUS
<1>2. \A f, g \in 1..Len(D) : \A c \in D[f].funds : c \in D[g].funds => f = g
  BY <1>1 DEF Paying
<1>3. \A f, g \in 1..Len(D) : \A c \in D[f].spends : c \in D[g].spends => f = g
  BY <1>1 DEF Paying
<1>4. ASSUME NEW s \in 1..Len(D), NEW c \in D[s].spends
      PROVE  \E f \in 1..s : c \in D[f].funds
  <2>1. s \in 1..Len(C) /\ c \in C[s].spends
    BY <1>1, <1>4
  <2>2. PICK f \in 1..s : c \in C[f].funds
    BY <2>1 DEF Paying
  <2> QED
    BY <1>1, <2>2
<1> QED
  BY <1>2, <1>3, <1>4 DEF Paying

LEMMA PaysPrefix ==
  ASSUME NEW C, NEW D, NEW Y \in Nat, \A i \in 1..Y : C[i] = D[i], NEW U, PaysOf(U, C, Y)
  PROVE  PaysOf(U, D, Y)
<1>1. ASSUME NEW c, NEW f, NEW s, Paid(C, Y, c, f, s) PROVE Paid(D, Y, c, f, s)
  BY <1>1 DEF Paid
<1>2. \A u \in U : u = CoinRow(u.coin, u.at, u.spent) /\ Paid(D, Y, u.coin, u.at, u.spent)
  BY <1>1, Zenon DEF PaysOf
<1>3. \A f \in 1..Y : \A c \in D[f].funds : \E u \in U : u.coin = c /\ u.at = f
  BY DEF PaysOf
<1> QED
  BY <1>2, <1>3, Zenon DEF PaysOf

\* The rows of a block that is folded: what it funds has a row once, what it spends is
\* spent there (sync.c:60-71, db.c:423-470).
LEMMA WatchedPays ==
  ASSUME NEW C, Len(C) \in Nat, Paying(C), NEW U, NEW Y \in 0..Len(C), PaysOf(U, C, Y),
         NEW h \in 1..Len(C), h <= Y + 1
  PROVE  PaysOf(Past!Watched(U, C[h], h), C, Further(Y, h))
<1> DEFINE new == {c \in C[h].funds : ~\E u \in U : u.coin = c}
           put == U \cup {CoinRow(c, h, Never) : c \in new}
           Spent(u) == IF u.coin \in C[h].spends THEN CoinRow(u.coin, u.at, h) ELSE u
           W == {Spent(u) : u \in put}
           Z == Further(Y, h)
<1>1. Z \in Nat /\ Z <= Len(C) /\ h \in 1..Z /\ Y <= Z /\ \A g \in 1..Z : g \in 1..Y \/ g = h
  BY DEF Further
<1>2. Past!UtxoPut(U, C[h].funds, h) = put
  <2>1. C[h].funds \ {u.coin : u \in U} = new
    OBVIOUS
  <2>2. Past!UtxoPut(U, C[h].funds, h) = U \cup {CoinRow(c, h, Never) : c \in C[h].funds \ {u.coin : u \in U}}
    BY Zenon DEF Past!UtxoPut, CoinRow
  <2> QED
    BY <2>1, <2>2, Zenon
<1>3. \A u \in U : u = CoinRow(u.coin, u.at, u.spent) /\ Paid(C, Y, u.coin, u.at, u.spent)
  BY DEF PaysOf
<1>4. \A c, f, s : CoinRow(c, f, s).coin = c /\ CoinRow(c, f, s).at = f /\ CoinRow(c, f, s).spent = s
  BY DEF CoinRow
<1>5. \A u \in put : u = CoinRow(u.coin, u.at, u.spent)
  <2> HIDE DEF new
  <2> QED
    BY <1>3, <1>4
<1>6. Past!Watched(U, C[h], h) = W
  <2>1. \A u \in put : Spent(u) = IF u.coin \in C[h].spends THEN [u EXCEPT !.spent = h] ELSE u
    <3> HIDE DEF put
    <3> SUFFICES ASSUME NEW u \in put PROVE [u EXCEPT !.spent = h] = CoinRow(u.coin, u.at, h)
      OBVIOUS
    <3>1. PICK c, f, s : u = CoinRow(c, f, s)
      BY <1>5
    <3>2. [CoinRow(c, f, s) EXCEPT !.spent = h] = CoinRow(c, f, h)
      BY DEF CoinRow
    <3> QED
      BY <1>4, <3>1, <3>2
  <2>2. Past!Watched(U, C[h], h)
          = {IF u.coin \in C[h].spends THEN [u EXCEPT !.spent = h] ELSE u : u \in put}
    BY <1>2, Zenon DEF Past!Watched, Past!UtxoSpend
  <2> HIDE DEF put, Spent
  <2> QED
    BY <2>1, <2>2
<1> HIDE DEF Z
<1>7. \A u \in put : /\ Spent(u).coin = u.coin /\ Spent(u).at = u.at
                     /\ Spent(u) = CoinRow(u.coin, u.at, Spent(u).spent)
  <2> HIDE DEF put
  <2> QED
    BY <1>4, <1>5
<1>8. ASSUME NEW u \in put
      PROVE  u.at \in 1..Z /\ u.coin \in C[u.at].funds
  <2>1. CASE u \in U
    <3>1. u.at \in 1..Y /\ u.coin \in C[u.at].funds
      BY <1>3, <2>1 DEF Paid
    <3> QED
      BY <1>1, <3>1
  <2>2. CASE u \notin U
    <3>1. PICK c \in new : u = CoinRow(c, h, Never)
      BY <2>2
    <3>2. c \in C[h].funds
      BY DEF new
    <3> QED
      BY <1>1, <1>4, <3>1, <3>2
  <2> QED
    BY <2>1, <2>2
<1>9. ASSUME NEW u \in put PROVE Paid(C, Z, u.coin, u.at, Spent(u).spent)
  <2>1. CASE u.coin \in C[h].spends
    <3>1. Spent(u).spent = h
      BY <1>4, <2>1
    <3> QED
      BY <1>1, <1>8, <2>1, <3>1 DEF Paid
  <2>2. CASE u.coin \notin C[h].spends
    <3>1. Spent(u) = u
      BY <2>2
    <3> HIDE DEF Spent
    <3>2. CASE u \in U
      <4>1. Paid(C, Y, u.coin, u.at, u.spent)
        BY <1>3, <3>2
      <4>2. CASE u.spent \in 1..Y /\ u.coin \in C[u.spent].spends
        <5>1. u.spent \in 1..Z
          BY <1>1, <4>2
        <5> QED
          BY <1>8, <3>1, <4>2, <5>1 DEF Paid
      <4>3. CASE u.spent = Never /\ \A g \in 1..Y : u.coin \notin C[g].spends
        BY <1>1, <1>8, <2>2, <3>1, <4>3 DEF Paid
      <4> QED
        BY <4>1, <4>2, <4>3 DEF Paid
    <3>3. CASE u \notin U
      <4>1. PICK c \in new : u = CoinRow(c, h, Never)
        BY <3>3
      <4>2. c \in C[h].funds /\ u.coin = c /\ u.spent = Never
        BY <1>4, <4>1 DEF new
      <4>3. ASSUME NEW g \in 1..Y, c \in C[g].spends PROVE FALSE
        <5>1. PICK f \in 1..g : c \in C[f].funds
          BY <4>3 DEF Paying
        <5>2. f \in 1..Len(C) /\ f \in 1..Y
          BY <5>1
        <5>3. f = h
          BY <4>2, <5>1, <5>2 DEF Paying
        <5>4. \E v \in U : v.coin = c
          BY <5>1, <5>2 DEF PaysOf
        <5> QED
          BY <4>1, <5>4 DEF new
      <4> QED
        BY <1>1, <1>8, <2>2, <3>1, <4>2, <4>3 DEF Paid
    <3> QED
      BY <3>2, <3>3
  <2> QED
    BY <2>1, <2>2
<1>10. ASSUME NEW f \in 1..Z, NEW c \in C[f].funds
       PROVE  \E u \in put : u.coin = c /\ u.at = f
  <2>1. CASE \E u \in U : u.coin = c
    <3>1. PICK u \in U : u.coin = c
      BY <2>1
    <3>2. u.at \in 1..Y /\ c \in C[u.at].funds
      BY <1>3, <3>1 DEF Paid
    <3>3. u.at \in 1..Len(C) /\ f \in 1..Len(C)
      BY <1>1, <3>2
    <3>4. u.at = f
      BY <3>2, <3>3 DEF Paying
    <3> QED
      BY <3>1, <3>4
  <2>2. CASE ~\E u \in U : u.coin = c
    <3>1. f = h
      BY <1>1, <2>2 DEF PaysOf
    <3>2. c \in new
      BY <2>2, <3>1
    <3> HIDE DEF new
    <3>3. CoinRow(c, h, Never) \in put
      BY <3>2
    <3> QED
      BY <1>4, <3>1, <3>3
  <2> QED
    BY <2>1, <2>2
<1> HIDE DEF put, Spent
<1>11. \A w \in W : w = CoinRow(w.coin, w.at, w.spent) /\ Paid(C, Z, w.coin, w.at, w.spent)
  <2> SUFFICES ASSUME NEW w \in W
               PROVE  w = CoinRow(w.coin, w.at, w.spent) /\ Paid(C, Z, w.coin, w.at, w.spent)
    OBVIOUS
  <2>1. PICK u \in put : w = Spent(u)
    OBVIOUS
  <2> QED
    BY <1>7, <1>9, <2>1
<1>12. \A f \in 1..Z : \A c \in C[f].funds : \E w \in W : w.coin = c /\ w.at = f
  <2> SUFFICES ASSUME NEW f \in 1..Z, NEW c \in C[f].funds
               PROVE  \E w \in W : w.coin = c /\ w.at = f
    OBVIOUS
  <2>1. PICK u \in put : u.coin = c /\ u.at = f
    BY <1>10
  <2>2. Spent(u) \in W
    OBVIOUS
  <2> QED
    BY <1>7, <2>1, <2>2
<1> HIDE DEF W
<1>13. PaysOf(W, C, Z)
  BY <1>11, <1>12, Zenon DEF PaysOf
<1> QED
  BY <1>6, <1>13 DEF Z

\* Rows that are cut at a fork.
CutCoins(U, h) ==
  {IF u.spent # Never /\ u.spent > h THEN [u EXCEPT !.spent = Never] ELSE u :
     u \in {v \in U : v.at <= h}}

LEMMA CutPays ==
  ASSUME NEW C, Len(C) \in Nat, Paying(C), NEW U, NEW Y \in 0..Len(C), PaysOf(U, C, Y),
         NEW X \in 0..Y
  PROVE  PaysOf(CutCoins(U, X), C, X)
<1> DEFINE V == {v \in U : v.at <= X}
           Cut(u) == IF u.spent # Never /\ u.spent > X THEN CoinRow(u.coin, u.at, Never) ELSE u
           W == {Cut(u) : u \in V}
<1>1. Never \notin Nat
  BY BlocksAssumption
<1>2. \A u \in V : /\ u = CoinRow(u.coin, u.at, u.spent) /\ Paid(C, Y, u.coin, u.at, u.spent)
                   /\ u.at <= X
  BY DEF PaysOf
<1>3. \A c, f, s : CoinRow(c, f, s).coin = c /\ CoinRow(c, f, s).at = f /\ CoinRow(c, f, s).spent = s
  BY DEF CoinRow
<1>4. \A f \in 1..Y : \A c \in C[f].funds : f <= X => \E u \in V : u.coin = c /\ u.at = f
  BY DEF PaysOf
<1> HIDE DEF V
<1>5. CutCoins(U, X) = W
  <2>1. ASSUME NEW u \in V
        PROVE  Cut(u) = IF u.spent # Never /\ u.spent > X THEN [u EXCEPT !.spent = Never] ELSE u
    <3>1. PICK c, f, s : u = CoinRow(c, f, s)
      BY <1>2
    <3>2. [CoinRow(c, f, s) EXCEPT !.spent = Never] = CoinRow(c, f, Never)
      BY DEF CoinRow
    <3>3. [u EXCEPT !.spent = Never] = CoinRow(u.coin, u.at, Never)
      BY <1>3, <3>1, <3>2
    <3> QED
      BY <3>3, Zenon
  <2>2. CutCoins(U, X)
          = {IF u.spent # Never /\ u.spent > X THEN [u EXCEPT !.spent = Never] ELSE u : u \in V}
    BY Zenon DEF CutCoins, V
  <2> HIDE DEF Cut
  <2> QED
    BY <2>1, <2>2
<1>6. ASSUME NEW u \in V
      PROVE  /\ Cut(u).coin = u.coin /\ Cut(u).at = u.at
             /\ Cut(u) = CoinRow(u.coin, u.at, Cut(u).spent)
             /\ Paid(C, X, u.coin, u.at, Cut(u).spent)
  <2>1. u = CoinRow(u.coin, u.at, u.spent) /\ Paid(C, Y, u.coin, u.at, u.spent) /\ u.at <= X
    BY <1>2
  <2>2. u.at \in 1..X /\ u.coin \in C[u.at].funds
    BY <2>1 DEF Paid
  <2>3. CASE u.spent # Never /\ u.spent > X
    <3>1. Cut(u) = CoinRow(u.coin, u.at, Never)
      BY <2>3, Zenon
    <3> HIDE DEF Cut
    <3>2. u.spent \in 1..Y /\ u.coin \in C[u.spent].spends
      BY <2>1, <2>3 DEF Paid
    <3>3. \A g \in 1..X : u.coin \notin C[g].spends
      BY <2>3, <3>2 DEF Paying
    <3> QED
      BY <1>3, <2>2, <3>1, <3>3 DEF Paid
  <2>4. CASE ~(u.spent # Never /\ u.spent > X)
    <3>1. Cut(u) = u
      BY <2>4, Zenon
    <3> HIDE DEF Cut
    <3>2. u.spent = Never \/ u.spent \in 1..X
      BY <2>1, <2>4 DEF Paid
    <3>3. Paid(C, X, u.coin, u.at, u.spent)
      BY <1>1, <2>1, <2>2, <3>2 DEF Paid
    <3> QED
      BY <2>1, <3>1, <3>3
  <2> QED
    BY <2>3, <2>4
<1> HIDE DEF Cut
<1>7. \A w \in W : w = CoinRow(w.coin, w.at, w.spent) /\ Paid(C, X, w.coin, w.at, w.spent)
  <2> SUFFICES ASSUME NEW w \in W
               PROVE  w = CoinRow(w.coin, w.at, w.spent) /\ Paid(C, X, w.coin, w.at, w.spent)
    OBVIOUS
  <2>1. PICK u \in V : w = Cut(u)
    OBVIOUS
  <2> QED
    BY <1>6, <2>1
<1>8. \A f \in 1..X : \A c \in C[f].funds : \E w \in W : w.coin = c /\ w.at = f
  <2> SUFFICES ASSUME NEW f \in 1..X, NEW c \in C[f].funds
               PROVE  \E w \in W : w.coin = c /\ w.at = f
    OBVIOUS
  <2>1. f \in 1..Y /\ f <= X
    OBVIOUS
  <2>2. PICK u \in V : u.coin = c /\ u.at = f
    BY <1>4, <2>1
  <2>3. Cut(u) \in W
    OBVIOUS
  <2> QED
    BY <1>6, <2>2, <2>3
<1> HIDE DEF W
<1>9. PaysOf(W, C, X)
  BY <1>7, <1>8, Zenon DEF PaysOf
<1> QED
  BY <1>5, <1>9

\* What is unspent at the end is what no block spends.
LEMMA UnspentIs ==
  ASSUME NEW C, AreBlocks(C), Payable(C), NEW U, PaysOf(U, C, Len(C))
  PROVE  {u.coin : u \in {v \in U : v.spent = Never}} = {c \in Coins(C) : Spends(C, c) = {}}
<1> DEFINE L == {u.coin : u \in {v \in U : v.spent = Never}}
           S == {c \in Coins(C) : Spends(C, c) = {}}
<1>1. Len(C) \in Nat /\ DOMAIN C = 1..Len(C) /\ Never \notin Nat
  BY BlocksAre, BlocksAssumption
<1>2. /\ \A f \in 1..Len(C) : C[f].funds \cup C[f].spends \subseteq Coins(C)
      /\ \A c \in Coins(C) : \E f \in 1..Len(C) : c \in C[f].funds
  BY Pays
<1>3. ASSUME NEW u \in U, u.spent = Never PROVE u.coin \in S
  <2>1. Paid(C, Len(C), u.coin, u.at, u.spent)
    BY DEF PaysOf
  <2>2. u.coin \in Coins(C)
    BY <1>2, <2>1 DEF Paid
  <2>3. \A g \in 1..Len(C) : u.coin \notin C[g].spends
    BY <1>1, <1>3, <2>1 DEF Paid
  <2>4. Spends(C, u.coin) = {}
    BY <1>1, <2>3 DEF Spends
  <2> QED
    BY <2>2, <2>4
<1>4. ASSUME NEW c \in S PROVE \E u \in U : u.coin = c /\ u.spent = Never
  <2>1. PICK f \in 1..Len(C) : c \in C[f].funds
    BY <1>2
  <2>2. PICK u \in U : u.coin = c /\ u.at = f
    BY <2>1 DEF PaysOf
  <2>3. Paid(C, Len(C), u.coin, u.at, u.spent)
    BY DEF PaysOf
  <2>4. \A g \in 1..Len(C) : c \notin C[g].spends
    BY <1>1 DEF Spends
  <2>5. u.spent = Never
    BY <2>2, <2>3, <2>4 DEF Paid
  <2> QED
    BY <2>2, <2>5
<1>5. \A c \in L : c \in S
  <2> HIDE DEF S
  <2> QED
    BY <1>3
<1>6. \A c \in S : c \in L
  <2> HIDE DEF S
  <2> QED
    BY <1>4
<1> HIDE DEF L, S
<1>7. L = S
  BY <1>5, <1>6
<1> QED
  BY <1>7 DEF L, S

-----------------------------------------------------------------------------
(* The substrate *)

\* Blocks that are kept: with an action, or coins.
Seen(block) == Past!Carries(block) \/ block.funds \cup block.spends # {}

\* The substrate R keeps of C what was seen up to H.
RawsOf(R, C, H) ==
  /\ DOMAIN R = {g \in 1..H : Seen(C[g])}
  /\ \A g \in 1..H : Seen(C[g]) => R[g] = C[g]

RawsWith(R, U, block, h) ==
  IF Past!Carries(block) \/ Past!Touches(U, block)
  THEN [g \in DOMAIN R \cup {h} |-> IF g = h THEN block ELSE R[g]] ELSE R

LEMMA RawsKept ==
  ASSUME NEW C, Len(C) \in Nat, Paying(C), NEW U, NEW h \in 1..Len(C), PaysOf(U, C, h - 1),
         NEW R, RawsOf(R, C, h - 1)
  PROVE  RawsOf(RawsWith(R, U, C[h], h), C, h)
<1> DEFINE S == RawsWith(R, U, C[h], h)
<1>1. h - 1 \in Nat /\ \A g \in 1..h : g \in 1..(h - 1) \/ g = h
  OBVIOUS
<1>2. DOMAIN R = {g \in 1..(h - 1) : Seen(C[g])} /\ \A g \in 1..(h - 1) : Seen(C[g]) => R[g] = C[g]
  BY DEF RawsOf
<1>3. (Past!Carries(C[h]) \/ Past!Touches(U, C[h])) <=> Seen(C[h])
  <2>1. Past!Touches(U, C[h]) => C[h].funds \cup C[h].spends # {}
    BY DEF Past!Touches
  <2>2. ASSUME C[h].funds = {}, NEW c \in C[h].spends PROVE Past!Touches(U, C[h])
    <3>1. PICK f \in 1..h : c \in C[f].funds
      BY <2>2 DEF Paying
    <3>2. f \in 1..(h - 1)
      BY <1>1, <2>2, <3>1
    <3>3. \E u \in U : u.coin = c
      BY <3>1, <3>2 DEF PaysOf
    <3> QED
      BY <3>3 DEF Past!Touches
  <2>3. C[h].funds # {} => Past!Touches(U, C[h])
    BY DEF Past!Touches
  <2> QED
    BY <2>1, <2>2, <2>3 DEF Seen
<1>4. CASE Seen(C[h])
  <2>1. S = [g \in DOMAIN R \cup {h} |-> IF g = h THEN C[h] ELSE R[g]]
    BY <1>3, <1>4 DEF RawsWith
  <2> HIDE DEF S
  <2>2. DOMAIN S = DOMAIN R \cup {h} /\ S[h] = C[h] /\ \A g \in DOMAIN R : g # h => S[g] = R[g]
    BY <2>1
  <2>3. DOMAIN S = {g \in 1..h : Seen(C[g])}
    BY <1>1, <1>2, <1>4, <2>2
  <2>4. \A g \in 1..h : Seen(C[g]) => S[g] = C[g]
    BY <1>1, <1>2, <2>2
  <2>5. RawsOf(S, C, h)
    BY <2>3, <2>4, Zenon DEF RawsOf
  <2> QED
    BY <2>5 DEF S
<1>5. CASE ~Seen(C[h])
  <2>1. S = R
    BY <1>3, <1>5 DEF RawsWith
  <2> HIDE DEF S
  <2>2. DOMAIN R = {g \in 1..h : Seen(C[g])}
    BY <1>1, <1>2, <1>5
  <2>3. \A g \in 1..h : Seen(C[g]) => R[g] = C[g]
    BY <1>1, <1>2, <1>5
  <2>4. RawsOf(S, C, h)
    BY <2>1, <2>2, <2>3, Zenon DEF RawsOf
  <2> QED
    BY <2>4 DEF S
<1> QED
  BY <1>4, <1>5

-----------------------------------------------------------------------------
(* What the steps of a node do to its tables *)

Db(E, R, U) == [epochs |-> E, from |-> 0, raws |-> R, utxos |-> U]
Node(db, s, h) == [db |-> db, state |-> s, height |-> h]

LEMMA DbIs ==
  \A E, R, U : /\ Db(E, R, U).epochs = E /\ Db(E, R, U).from = 0
               /\ Db(E, R, U).raws = R /\ Db(E, R, U).utxos = U
BY DEF Db

LEMMA NodeIs ==
  \A db, s, h : Node(db, s, h).db = db /\ Node(db, s, h).state = s /\ Node(db, s, h).height = h
BY DEF Node

LEMMA NodeChanges ==
  \A db, s, h, x : /\ [Node(db, s, h) EXCEPT !.db = x] = Node(x, s, h)
                   /\ [Node(db, s, h) EXCEPT !.state = x] = Node(db, x, h)
                   /\ [Node(db, s, h) EXCEPT !.height = x] = Node(db, s, x)
BY DEF Node

LEMMA DbChanges ==
  \A E, R, U, V : /\ [Db(E, R, U) EXCEPT !.epochs = V] = Db(V, R, U)
                  /\ [Db(E, R, U) EXCEPT !.raws = V] = Db(E, V, U)
                  /\ [Db(E, R, U) EXCEPT !.utxos = V] = Db(E, R, V)
BY DEF Db

\* A node with another substrate, and other rows of coins.
Altered(node, A, B) == [node EXCEPT !.db.raws = A, !.db.utxos = B]

LEMMA AlteredIs ==
  ASSUME NEW E, NEW R, NEW U, NEW s, NEW h, NEW A, NEW B
  PROVE  Altered(Node(Db(E, R, U), s, h), A, B) = Node(Db(E, A, B), s, h)
<1>1. ASSUME NEW d
      PROVE  /\ [Node(d, s, h) EXCEPT !.db.raws = A] = Node([d EXCEPT !.raws = A], s, h)
             /\ [Node(d, s, h) EXCEPT !.db.utxos = B] = Node([d EXCEPT !.utxos = B], s, h)
  BY DEF Node
<1>2. PICK d, e : d = Db(E, R, U) /\ e = Db(E, A, U)
  OBVIOUS
<1>3. [d EXCEPT !.raws = A] = e /\ [e EXCEPT !.utxos = B] = Db(E, A, B)
  BY <1>2, DbChanges
<1>4. [Node(d, s, h) EXCEPT !.db.raws = A] = Node(e, s, h)
  BY <1>1, <1>3, Zenon
<1>5. [Node(e, s, h) EXCEPT !.db.utxos = B] = Node(Db(E, A, B), s, h)
  BY <1>1, <1>3, Zenon
<1> QED
  BY <1>2, <1>4, <1>5, Zenon DEF Altered

\* History goes on from where it began.
LEMMA MarkStays ==
  \A E, R, U, h : Past!Mark(Db(E, R, U), h) = Db(E, R, U)
<1>1. 0 # Never
  BY BlocksAssumption
<1>2. ASSUME NEW d, NEW h, d.from = 0 PROVE Past!Mark(d, h) = d
  BY <1>1, <1>2 DEF Past!Mark
<1> QED
  BY <1>2, DbIs

LEMMA UpdateIs ==
  ASSUME NEW E, NEW R, NEW U, NEW s, NEW h
  PROVE  Past!Update(Db(E, R, U), s, h) = Db(Past!PutEpoch(E, NewRows(E, s, h)), R, U)
<1> DEFINE d == Db(E, R, U)
           Changed == {n \in DOMAIN s : Past!Recorded(d, n, h) # s[n].owner}
           Open == {n \in {e.name : e \in d.epochs} : Past!Recorded(d, n, h) # Lapsed}
           new == {[name |-> n, start |-> h, owner |-> s[n].owner] : n \in Changed}
                    \cup {[name |-> n, start |-> h, owner |-> Lapsed] : n \in Open \ DOMAIN s}
<1>1. d.epochs = E
  BY DbIs
<1> HIDE DEF d
<1>2. \A n : Past!Recorded(d, n, h) = RecordedIn(E, n, h)
  <2>1. [epochs |-> E].epochs = E
    OBVIOUS
  <2> QED
    BY <1>1, <2>1, Zenon DEF RecordedIn, Past!Recorded, Past!Rows
<1>3. new = NewRows(E, s, h)
  BY <1>1, <1>2 DEF NewRows
<1>4. Past!Update(d, s, h) = Past!Mark([d EXCEPT !.epochs = Past!PutEpoch(d.epochs, new)], h)
  BY Zenon DEF Past!Update
<1> HIDE DEF new
<1>5. [d EXCEPT !.epochs = Past!PutEpoch(d.epochs, new)]
        = Db(Past!PutEpoch(E, NewRows(E, s, h)), R, U)
  <2>1. \A V : [d EXCEPT !.epochs = V] = Db(V, R, U)
    BY DbChanges DEF d
  <2> QED
    BY <1>1, <1>3, <2>1
<1> QED
  BY <1>4, <1>5, MarkStays DEF d

\* The state after a block.
Folded(s, block, h) == Past!Act(Past!Lapse(s, h), block, h)

LEMMA FoldsIs ==
  ASSUME NEW E, NEW R, NEW U, NEW s, NEW j, NEW block, NEW h
  PROVE  LET folded == Past!Folds(Node(Db(E, R, U), s, j), block, h)
         IN  /\ folded.state = Folded(s, block, h)
             /\ folded.utxos = Past!Watched(U, block, h)
             /\ folded.lapses <=> Past!Lapse(s, h) # s
<1>1. Node(Db(E, R, U), s, j).state = s /\ Node(Db(E, R, U), s, j).db.utxos = U
  BY DbIs, NodeIs
<1> QED
  BY <1>1 DEF Past!Folds, Folded

LEMMA KeptIs ==
  ASSUME NEW E, NEW R, NEW S, NEW U, NEW s, NEW j, NEW block, NEW h
  PROVE  Past!Kept(Db(E, S, U), Past!Folds(Node(Db(E, R, U), s, j), block, h), block, h)
           = Db(FoldedRows(E, s, block, h), S, Past!Watched(U, block, h))
<1> DEFINE folded == Past!Folds(Node(Db(E, R, U), s, j), block, h)
           V == Past!Watched(U, block, h)
           b == Past!Lapse(s, h)
<1>1. folded.state = Folded(s, block, h) /\ folded.utxos = V /\ (folded.lapses <=> b # s)
  BY FoldsIs
<1> HIDE DEF folded
<1>2. [Db(E, S, U) EXCEPT !.utxos = folded.utxos] = Db(E, S, V)
  BY <1>1, DbChanges
<1>3. Past!Kept(Db(E, S, U), folded, block, h)
        = IF Past!Carries(block) \/ folded.lapses
          THEN Past!Update(Db(E, S, V), folded.state, h) ELSE Db(E, S, V)
  BY <1>2, Zenon DEF Past!Kept
<1>4. Past!Update(Db(E, S, V), folded.state, h)
        = Db(Past!PutEpoch(E, NewRows(E, Folded(s, block, h), h)), S, V)
  BY <1>1, UpdateIs
<1>5. CASE Past!Carries(block) \/ b # s
  <2>1. FoldedRows(E, s, block, h) = Past!PutEpoch(E, NewRows(E, Folded(s, block, h), h))
    BY <1>5 DEF FoldedRows, Folded
  <2> HIDE DEF V, b
  <2> QED
    BY <1>1, <1>3, <1>4, <1>5, <2>1 DEF folded, V
<1>6. CASE ~(Past!Carries(block) \/ b # s)
  <2>1. FoldedRows(E, s, block, h) = E
    BY <1>6 DEF FoldedRows
  <2> HIDE DEF V, b
  <2> QED
    BY <1>1, <1>3, <1>6, <2>1 DEF folded, V
<1> QED
  BY <1>5, <1>6

LEMMA ConnectIs ==
  ASSUME NEW E, NEW R, NEW U, NEW s, NEW j, NEW block
  PROVE  Past!Connect(Node(Db(E, R, U), s, j), block)
           = Node(Db(FoldedRows(E, s, block, j + 1), RawsWith(R, U, block, j + 1),
                     Past!Watched(U, block, j + 1)), Folded(s, block, j + 1), j + 1)
<1> DEFINE node == Node(Db(E, R, U), s, j)
           h == j + 1
           folded == Past!Folds(node, block, h)
           S == RawsWith(R, U, block, h)
           raws == IF Past!Carries(block) \/ Past!Touches(node.db.utxos, block)
                   THEN [g \in DOMAIN node.db.raws \cup {node.height + 1} |->
                           IF g = node.height + 1 THEN block ELSE node.db.raws[g]]
                   ELSE node.db.raws
<1>1. node.db = Db(E, R, U) /\ node.height = j
  BY NodeIs
<1>2. node.db.raws = R /\ node.db.utxos = U
  BY <1>1, DbIs
<1> HIDE DEF node
<1>3. raws = S
  BY <1>1, <1>2 DEF RawsWith
<1> HIDE DEF raws, S
<1>4. Past!Connect(node, block)
        = Node(Past!Kept([node.db EXCEPT !.raws = raws],
                         Past!Folds(node, block, node.height + 1), block, node.height + 1),
               Past!Folds(node, block, node.height + 1).state, node.height + 1)
  BY Zenon DEF Past!Connect, Node, raws
<1>5. [node.db EXCEPT !.raws = raws] = Db(E, S, U)
  BY <1>1, <1>3, DbChanges
<1>6. folded.state = Folded(s, block, h)
  BY FoldsIs DEF node
<1>7. Past!Kept(Db(E, S, U), folded, block, h)
        = Db(FoldedRows(E, s, block, h), S, Past!Watched(U, block, h))
  BY KeptIs DEF node
<1> HIDE DEF folded, h
<1>8. node.height + 1 = h
  BY <1>1 DEF h
<1>9. Past!Connect(node, block)
        = Node(Db(FoldedRows(E, s, block, h), S, Past!Watched(U, block, h)),
               Folded(s, block, h), h)
  BY <1>4, <1>5, <1>6, <1>7, <1>8, Zenon DEF folded
<1> QED
  BY <1>9 DEF node, h, S

LEMMA ReplayIs ==
  ASSUME NEW E, NEW R, NEW U, NEW s, NEW j, NEW h
  PROVE  Past!Replay(Node(Db(E, R, U), s, j), h)
           = Node(Db(FoldedRows(E, s, R[h], h), R, Past!Watched(U, R[h], h)),
                  Folded(s, R[h], h), h)
<1> DEFINE node == Node(Db(E, R, U), s, j)
           folded == Past!Folds(node, R[h], h)
<1>1. node.db = Db(E, R, U) /\ node.db.raws = R
  BY DbIs, NodeIs
<1>2. folded.state = Folded(s, R[h], h)
  BY FoldsIs
<1>3. Past!Kept(Db(E, R, U), folded, R[h], h)
        = Db(FoldedRows(E, s, R[h], h), R, Past!Watched(U, R[h], h))
  BY KeptIs
<1> HIDE DEF node
<1>4. Past!Replay(node, h) = Node(Past!Kept(node.db, Past!Folds(node, node.db.raws[h], h), node.db.raws[h], h),
                               Past!Folds(node, node.db.raws[h], h).state, h)
  BY Zenon DEF Past!Replay, Node
<1> HIDE DEF folded
<1>5. Past!Replay(node, h)
        = Node(Db(FoldedRows(E, s, R[h], h), R, Past!Watched(U, R[h], h)), Folded(s, R[h], h), h)
  BY <1>1, <1>2, <1>3, <1>4, Zenon DEF folded
<1> QED
  BY <1>5 DEF node

CutRaws(R, h) == [g \in {k \in DOMAIN R : k <= h} |-> R[g]]

LEMMA PruneIs ==
  ASSUME NEW E, NEW R, NEW U, NEW h
  PROVE  Past!Prune(Db(E, R, U), h) = Db({e \in E : e.start <= h}, CutRaws(R, h), CutCoins(U, h))
<1> DEFINE d == Db(E, R, U)
           cut == {e \in E : e.start <= h}
<1>1. d.raws = R /\ d.epochs = E /\ d.utxos = U
  BY DbIs
<1>2. ASSUME NEW A, NEW B, NEW D
      PROVE  [d EXCEPT !.raws = A, !.epochs = B, !.utxos = D] = Db(B, A, D)
  <2>1. [d EXCEPT !.raws = A] = Db(E, A, U)
    BY DbChanges
  <2>2. [Db(E, A, U) EXCEPT !.epochs = B] = Db(B, A, U)
    BY DbChanges
  <2>3. [Db(B, A, U) EXCEPT !.utxos = D] = Db(B, A, D)
    BY DbChanges
  <2> HIDE DEF d
  <2> QED
    BY <2>1, <2>2, <2>3, Zenon
<1> HIDE DEF d
<1>3. Past!Prune(d, h)
        = [d EXCEPT !.raws = CutRaws(d.raws, h), !.epochs = {e \in d.epochs : e.start <= h},
                    !.utxos = CutCoins(d.utxos, h)]
  BY Zenon DEF Past!Prune, CutRaws, CutCoins
<1>4. {e \in d.epochs : e.start <= h} = cut
  BY <1>1
<1> HIDE DEF cut
<1>5. Past!Prune(d, h) = Db(cut, CutRaws(R, h), CutCoins(U, h))
  BY <1>1, <1>2, <1>3, <1>4, Zenon
<1> QED
  BY <1>5 DEF d, cut

LEMMA WipeIs ==
  ASSUME NEW E, NEW R, NEW U
  PROVE  Past!Mark(Past!Wipe(Db(E, R, U)), 0) = Db({}, R, U)
<1>1. PICK d : d = Past!Wipe(Db(E, R, U))
  OBVIOUS
<1>2. d = [epochs |-> {}, from |-> Never, raws |-> R, utxos |-> U]
  BY <1>1 DEF Past!Wipe, Db
<1>3. [d EXCEPT !.from = 0] = Db({}, R, U)
  BY <1>2 DEF Db
<1>4. d.from = Never
  BY <1>2
<1> QED
  BY <1>1, <1>3, <1>4 DEF Past!Mark

-----------------------------------------------------------------------------
(* Blocks that are connected, and blocks that are replayed *)

StepNext(back, start, blocks, k, f) ==
  IF k = 0 THEN start
  ELSE IF back
       THEN IF k \in DOMAIN start.db.raws THEN Past!Replay(f[k - 1], k) ELSE f[k - 1]
       ELSE Past!Connect(f[k - 1], blocks[k])
StepsTo(back, start, blocks, f, m) == f = [k \in 0..m |-> StepNext(back, start, blocks, k, f)]

LEMMA StepsExist ==
  ASSUME NEW back \in BOOLEAN, NEW start, NEW blocks, NEW m \in Nat
  PROVE  \E f : StepsTo(back, start, blocks, f, m)
<1> DEFINE P == {k \in Nat : \E f : StepsTo(back, start, blocks, f, k)}
<1>1. 0 \in P
  <2>1. StepsTo(back, start, blocks, [k \in 0..0 |-> start], 0)
    BY DEF StepsTo, StepNext
  <2> QED
    BY <2>1
<1>2. ASSUME NEW k \in P PROVE k + 1 \in P
  <2>1. PICK f : StepsTo(back, start, blocks, f, k)
    OBVIOUS
  <2> DEFINE g == [n \in 0..(k + 1) |->
                     IF n = k + 1 THEN StepNext(back, start, blocks, n, f) ELSE f[n]]
  <2>2. \A n \in 0..(k + 1) : g[n] = StepNext(back, start, blocks, n, g)
    <3> SUFFICES ASSUME NEW n \in 0..(k + 1) PROVE g[n] = StepNext(back, start, blocks, n, g)
      OBVIOUS
    <3>1. n # 0 => g[n - 1] = f[n - 1]
      OBVIOUS
    <3>2. StepNext(back, start, blocks, n, g) = StepNext(back, start, blocks, n, f)
      BY <3>1 DEF StepNext
    <3>3. n # k + 1 => f[n] = StepNext(back, start, blocks, n, f)
      BY <2>1 DEF StepsTo
    <3> QED
      BY <3>2, <3>3
  <2>3. StepsTo(back, start, blocks, g, k + 1)
    BY <2>2 DEF StepsTo
  <2> HIDE DEF g
  <2> QED
    BY <2>3
<1>3. P \in SUBSET Nat
  OBVIOUS
<1>4. P = Nat
  <2> HIDE DEF P
  <2> QED
    BY <1>1, <1>2, <1>3, NatInduct
<1> QED
  BY <1>4

\* The nodes on the way.
Connects(f, node, blocks) ==
  f[0] = node /\ \A k \in 1..Len(blocks) : f[k] = Past!Connect(f[k - 1], blocks[k])
Replays(f, node, h) ==
  /\ f[0] = node
  /\ \A k \in 1..h : f[k] = IF k \in DOMAIN node.db.raws THEN Past!Replay(f[k - 1], k) ELSE f[k - 1]

LEMMA ExtendedIs ==
  ASSUME NEW node, NEW blocks, Len(blocks) \in Nat
  PROVE  \E f : Connects(f, node, blocks) /\ Past!Extended(node, blocks) = f[Len(blocks)]
<1> DEFINE n == Len(blocks)
           f == CHOOSE f : StepsTo(FALSE, node, blocks, f, n)
<1>1. Past!Extended(node, blocks) = f[n]
  BY DEF Past!Extended, StepsTo, StepNext
<1>2. StepsTo(FALSE, node, blocks, f, n)
  BY StepsExist
<1> HIDE DEF f
<1>3. \A k \in 0..n : f[k] = StepNext(FALSE, node, blocks, k, f)
  BY <1>2 DEF StepsTo
<1>4. 0 \in 0..n /\ \A k \in 1..n : k \in 0..n /\ k # 0
  OBVIOUS
<1>5. Connects(f, node, blocks)
  BY <1>3, <1>4 DEF StepNext, Connects
<1> QED
  BY <1>1, <1>5

LEMMA RollbackIs ==
  ASSUME NEW node, NEW h \in Nat
  PROVE  \E f : /\ Replays(f, Node(Past!Prune(node.db, h), <<>>, 0), h)
                /\ Past!Rollback(node, h) = [f[h] EXCEPT !.height = h]
<1> DEFINE pruned == Node(Past!Prune(node.db, h), <<>>, 0)
           f == CHOOSE f : StepsTo(TRUE, pruned, <<>>, f, h)
<1>1. Past!Rollback(node, h) = [f[h] EXCEPT !.height = h]
  BY DEF Past!Rollback, StepsTo, StepNext, Node
<1>2. StepsTo(TRUE, pruned, <<>>, f, h)
  BY StepsExist
<1> HIDE DEF f, pruned
<1>3. \A k \in 0..h : f[k] = StepNext(TRUE, pruned, <<>>, k, f)
  BY <1>2 DEF StepsTo
<1>4. 0 \in 0..h /\ \A k \in 1..h : k \in 0..h /\ k # 0
  OBVIOUS
<1>5. Replays(f, pruned, h)
  BY <1>3, <1>4 DEF StepNext, Replays
<1> QED
  BY <1>1, <1>5 DEF pruned

-----------------------------------------------------------------------------
(* A node on a chain *)

\* The substrate R, the rows of names up to X and of coins up to Y, the state behind H blocks.
On(node, R, C, T, H, X, Y) ==
  \E E, U, s, j : node = Node(Db(E, R, U), s, j) /\ Tells(E, s, H, C, X, T) /\ PaysOf(U, C, Y)

Stands(node, C, T, H, X, Y) == node.height = H /\ \E R : On(node, R, C, T, H, X, Y)

\* The state and the substrate of a node that connected all blocks.
Mirrors(node, C, H) == node.state = StateAt(C, H) /\ RawsOf(node.db.raws, C, H)

LEMMA ConnectStands ==
  ASSUME NEW C, AreBlocks(C), Paying(C), NEW node, NEW T, NEW H, NEW X,
         NEW Y \in 0..Len(C), Stands(node, C, T, H, X, Y), H <= Y,
         NEW h \in 1..Len(C), h = H + 1, KnownAt(C, T, h) = h
  PROVE  /\ Stands(Past!Connect(node, C[h]), C, T, h, Further(X, h), Further(Y, h))
         /\ Mirrors(node, C, H) /\ Y = H => Mirrors(Past!Connect(node, C[h]), C, h)
<1>1. PICK E, R, U, s, j : node = Node(Db(E, R, U), s, j) /\ Tells(E, s, H, C, X, T) /\ PaysOf(U, C, Y)
  BY DEF Stands, On
<1>2. j = H /\ node.state = s /\ node.db.raws = R
  BY <1>1, NodeIs, DbIs DEF Stands
<1>3. Len(C) \in Nat /\ H \in Nat
  BY <1>1, BlocksAre DEF Tells
<1> DEFINE F == FoldedRows(E, s, C[h], h)
           S == RawsWith(R, U, C[h], h)
           V == Past!Watched(U, C[h], h)
           t == Folded(s, C[h], h)
           next == Past!Connect(node, C[h])
<1>4. next = Node(Db(F, S, V), t, h)
  BY <1>1, <1>2, ConnectIs
<1>5. Tells(F, t, h, C, Further(X, h), T)
  BY <1>1, FoldTells DEF Folded
<1>6. PaysOf(V, C, Further(Y, h))
  BY <1>1, <1>3, WatchedPays
<1> HIDE DEF F, V, t, next
<1>7. Stands(next, C, T, h, Further(X, h), Further(Y, h))
  <2>1. On(next, S, C, T, h, Further(X, h), Further(Y, h))
    BY <1>4, <1>5, <1>6 DEF On
  <2>2. next.height = h
    BY <1>4, NodeIs
  <2> QED
    BY <2>1, <2>2, Zenon DEF Stands
<1>8. ASSUME Mirrors(node, C, H), Y = H PROVE Mirrors(next, C, h)
  <2>1. next.state = t /\ next.db.raws = S
    BY <1>4, NodeIs, DbIs
  <2>2. s = StateAt(C, H) /\ RawsOf(R, C, H)
    BY <1>2, <1>8 DEF Mirrors
  <2>3. h - 1 = H
    BY <1>3
  <2>4. t = StateAt(C, h)
    BY <1>3, <2>2, <2>3, StateSteps DEF t, Folded
  <2>5. RawsOf(S, C, h)
    BY <1>1, <1>3, <1>8, <2>2, <2>3, RawsKept
  <2> QED
    BY <2>1, <2>4, <2>5 DEF Mirrors
<1> QED
  BY <1>7, <1>8 DEF next

\* Blocks that continue the chain of a node.
LEMMA ExtendStands ==
  ASSUME NEW C, AreBlocks(C), Paying(C), NEW node, NEW T, NEW H \in Nat,
         NEW X \in 0..Len(C), NEW Y \in 0..Len(C), Stands(node, C, T, H, X, Y), H <= X, H <= Y,
         NEW blocks, Len(blocks) \in Nat, H + Len(blocks) = Len(C),
         \A k \in 1..Len(blocks) : blocks[k] = C[H + k] /\ KnownAt(C, T, H + k) = H + k
  PROVE  /\ Stands(Past!Extended(node, blocks), C, T, Len(C), Len(C), Len(C))
         /\ Mirrors(node, C, H) /\ Y = H => Mirrors(Past!Extended(node, blocks), C, Len(C))
<1> DEFINE n == Len(blocks)
           Good(x, k) == /\ Stands(x, C, T, H + k, Further(X, H + k), Further(Y, H + k))
                         /\ Mirrors(node, C, H) /\ Y = H => Mirrors(x, C, H + k)
<1>1. PICK f : Connects(f, node, blocks) /\ Past!Extended(node, blocks) = f[n]
  BY ExtendedIs
<1>2. Len(C) \in Nat
  BY BlocksAre
<1> DEFINE P == {k \in Nat : k <= n => Good(f[k], k)}
<1>3. 0 \in P
  <2>1. H + 0 = H /\ Further(X, H) = X /\ Further(Y, H) = Y /\ f[0] = node
    BY <1>1 DEF Further, Connects
  <2> QED
    BY <2>1
<1>4. ASSUME NEW k \in P PROVE k + 1 \in P
  <2> SUFFICES ASSUME k + 1 <= n PROVE Good(f[k + 1], k + 1)
    OBVIOUS
  <2>1. PICK h \in Nat : h = H + (k + 1)
    OBVIOUS
  <2>2. PICK i \in Nat : i = H + k
    OBVIOUS
  <2>3. /\ k \in Nat /\ k <= n /\ k + 1 \in 1..n /\ (k + 1) - 1 = k
        /\ h \in 1..Len(C) /\ h = i + 1
    BY <1>2, <2>1, <2>2
  <2>4. Good(f[k], k)
    BY <2>3, Zenon
  <2>5. PICK x, y : x = f[k] /\ y = f[k + 1]
    OBVIOUS
  <2>6. y = Past!Connect(x, C[h]) /\ KnownAt(C, T, h) = h
    BY <1>1, <2>1, <2>3, <2>5 DEF Connects
  <2>7. PICK Z : Z = Further(Y, i)
    OBVIOUS
  <2>8. PICK W : W = Further(X, i)
    OBVIOUS
  <2>9. /\ Z \in 0..Len(C) /\ i <= Z /\ Further(Z, h) = Further(Y, h)
        /\ Further(W, h) = Further(X, h) /\ (Y = H => Z = i)
    BY <1>2, <2>2, <2>3, <2>7, <2>8 DEF Further
  <2>10. Stands(x, C, T, i, W, Z) /\ (Mirrors(node, C, H) /\ Y = H => Mirrors(x, C, i))
    BY <2>2, <2>4, <2>5, <2>7, <2>8, Zenon
  <2>11. /\ Stands(y, C, T, h, Further(W, h), Further(Z, h))
         /\ Mirrors(x, C, i) /\ Z = i => Mirrors(y, C, h)
    BY <2>3, <2>6, <2>9, <2>10, ConnectStands
  <2> QED
    BY <2>1, <2>5, <2>9, <2>10, <2>11, Zenon
<1>5. P \in SUBSET Nat
  OBVIOUS
<1>6. n \in P
  <2> HIDE DEF P
  <2> QED
    BY <1>3, <1>4, <1>5, NatInduct
<1>7. H + n = Len(C) /\ Further(X, Len(C)) = Len(C) /\ Further(Y, Len(C)) = Len(C)
  BY <1>2 DEF Further
<1>8. Good(f[n], n)
  <2>1. n \in Nat /\ n <= n
    OBVIOUS
  <2> HIDE DEF Good
  <2> QED
    BY <1>6, <2>1
<1> QED
  BY <1>1, <1>7, <1>8, Zenon

\* A replay of the substrate, over rows that are those of the chain or that are gone.
LEMMA RollbackStands ==
  ASSUME NEW C, AreBlocks(C), Paying(C), NEW node, NEW h \in 0..Len(C), NEW R, NEW T, NEW X,
         X = 0 \/ X = h,
         On(Node(Past!Prune(node.db, h), <<>>, 0), R, C, T, 0, X, h),
         \A k \in 1..h :
           /\ k \in DOMAIN R => R[k] = C[k] /\ KnownAt(C, T, k) = k
           /\ k \notin DOMAIN R =>
                /\ ~Past!Carries(C[k])
                /\ \/ k <= X /\ T < 0
                   \/ X = 0 /\ KnownAt(C, T, k) = KnownAt(C, T, k - 1)
  PROVE  Stands(Past!Rollback(node, h), C, T, h, h, h)
<1> DEFINE pruned == Node(Past!Prune(node.db, h), <<>>, 0)
<1>1. PICK f : Replays(f, pruned, h) /\ Past!Rollback(node, h) = [f[h] EXCEPT !.height = h]
  BY RollbackIs
<1>2. Len(C) \in Nat /\ h \in Nat
  BY BlocksAre
<1>3. pruned.db.raws = R
  BY NodeIs, DbIs DEF On
<1> HIDE DEF pruned
<1> DEFINE P == {k \in Nat : k <= h => On(f[k], R, C, T, k, Further(X, k), h)}
<1>4. 0 \in P
  <2>1. Further(X, 0) = X /\ f[0] = pruned
    BY <1>1, <1>2 DEF Further, Replays
  <2> QED
    BY <2>1 DEF pruned
<1>5. ASSUME NEW k \in P PROVE k + 1 \in P
  <2> SUFFICES ASSUME k + 1 <= h PROVE On(f[k + 1], R, C, T, k + 1, Further(X, k + 1), h)
    OBVIOUS
  <2>1. PICK i \in Nat : i = k + 1
    OBVIOUS
  <2>2. PICK x, y : x = f[k] /\ y = f[i]
    OBVIOUS
  <2>3. PICK W : W = Further(X, k)
    OBVIOUS
  <2>4. /\ k \in Nat /\ k <= h /\ i \in 1..h /\ i - 1 = k /\ i \in 1..Len(C) /\ i <= h + 1
        /\ h \in 0..Len(C) /\ Further(W, i) = Further(X, i) /\ Further(h, i) = h
        /\ (X = 0 => W = k) /\ (i <= X => i <= W)
    BY <1>2, <2>1, <2>3 DEF Further
  <2>5. On(x, R, C, T, k, W, h)
    BY <2>2, <2>3, <2>4, Zenon
  <2>6. PICK E, U, s, j : x = Node(Db(E, R, U), s, j) /\ Tells(E, s, k, C, W, T) /\ PaysOf(U, C, h)
    BY <2>5 DEF On
  <2>7. y = IF i \in DOMAIN R THEN Past!Replay(x, i) ELSE x
    BY <1>1, <1>3, <2>2, <2>4 DEF Replays
  <2>8. CASE i \in DOMAIN R
    <3>1. R[i] = C[i] /\ KnownAt(C, T, i) = i
      BY <2>4, <2>8
    <3> DEFINE F == FoldedRows(E, s, C[i], i)
               V == Past!Watched(U, C[i], i)
               t == Folded(s, C[i], i)
    <3>2. y = Node(Db(F, R, V), t, i)
      BY <2>6, <2>7, <2>8, <3>1, ReplayIs
    <3>3. Tells(F, t, i, C, Further(X, i), T)
      BY <2>1, <2>4, <2>6, <3>1, FoldTells DEF Folded
    <3>4. PaysOf(V, C, h)
      BY <1>2, <2>4, <2>6, WatchedPays
    <3> HIDE DEF F, V, t
    <3>5. On(y, R, C, T, i, Further(X, i), h)
      BY <3>2, <3>3, <3>4 DEF On
    <3> QED
      BY <2>1, <2>2, <3>5
  <2>9. CASE i \notin DOMAIN R
    <3>1. /\ ~Past!Carries(C[i])
          /\ \/ i <= W /\ T < 0
             \/ k = W /\ KnownAt(C, T, i) = KnownAt(C, T, k)
      BY <2>4, <2>9
    <3>2. Tells(E, s, i, C, Further(X, i), T)
      BY <2>1, <2>4, <2>6, <3>1, SkipTells
    <3>3. On(y, R, C, T, i, Further(X, i), h)
      BY <2>6, <2>7, <2>9, <3>2 DEF On
    <3> QED
      BY <2>1, <2>2, <3>3
  <2> QED
    BY <2>8, <2>9
<1>6. P \in SUBSET Nat
  OBVIOUS
<1>7. h \in P
  <2> HIDE DEF P
  <2> QED
    BY <1>2, <1>4, <1>5, <1>6, NatInduct
<1>8. Further(X, h) = h
  BY <1>2 DEF Further
<1>9. On(f[h], R, C, T, h, h, h)
  BY <1>2, <1>7, <1>8
<1>10. PICK E, U, s, j : f[h] = Node(Db(E, R, U), s, j) /\ Tells(E, s, h, C, h, T) /\ PaysOf(U, C, h)
  BY <1>9 DEF On
<1>11. [Node(Db(E, R, U), s, j) EXCEPT !.height = h] = Node(Db(E, R, U), s, h)
  BY DEF Node
<1>12. Past!Rollback(node, h) = Node(Db(E, R, U), s, h)
  BY <1>1, <1>10, <1>11
<1>13. On(Past!Rollback(node, h), R, C, T, h, h, h)
  BY <1>10, <1>12 DEF On
<1>14. Past!Rollback(node, h).height = h
  BY <1>12, NodeIs
<1> QED
  BY <1>13, <1>14, Zenon DEF Stands

-----------------------------------------------------------------------------
(* What the rows tell of other chains *)

LEMMA ReplayedNone == \A C : Replayed(C, 0) = 0
<1> SUFFICES ASSUME NEW C PROVE Replayed(C, 0) = 0
  OBVIOUS
<1>1. {g \in 1..0 : Past!Carries(C[g]) \/ C[g].funds \cup C[g].spends # {}} = {}
  OBVIOUS
<1>2. Replayed(C, 0) = Max({0} \cup {g \in 1..0 : Past!Carries(C[g]) \/ C[g].funds \cup C[g].spends # {}})
  BY Zenon DEF Replayed
<1>3. {0} \cup {} = {0}
  OBVIOUS
<1>4. Max({0}) = 0
  BY DEF Max
<1> QED
  BY <1>1, <1>2, <1>3, <1>4, Zenon

LEMMA TellsNothing ==
  ASSUME NEW C, AreBlocks(C), NEW T \in Int
  PROVE  Tells({}, <<>>, 0, C, 0, T)
<1>1. Len(C) \in Nat /\ StateAt(C, 0) = <<>>
  BY BlocksAre, StateSteps
<1>2. KnownAt(C, T, 0) = 0
  BY ReplayedNone DEF KnownAt
<1>3. AreRows({}, 0)
  BY DEF AreRows
<1>4. \A n : \A h \in 0..0 : RecordedIn({}, n, h) = Held(StateAt(C, KnownAt(C, T, h)), n)
  <2> SUFFICES ASSUME NEW n, NEW h \in 0..0
               PROVE  RecordedIn({}, n, h) = Held(StateAt(C, KnownAt(C, T, h)), n)
    OBVIOUS
  <2>1. h = 0
    OBVIOUS
  <2>2. RowsOf({}, n, h) = {}
    BY DEF RowsOf
  <2>3. RecordedIn({}, n, h) = Lapsed
    BY <2>2, RecordedIs
  <2>4. n \notin DOMAIN <<>>
    OBVIOUS
  <2>5. Held(<<>>, n) = Lapsed
    BY <2>4 DEF Held
  <2> QED
    BY <1>1, <1>2, <2>1, <2>3, <2>5
<1>5. Idle(C, 0, 0) /\ 0 \in 0..0
  BY DEF Idle
<1> QED
  BY <1>1, <1>2, <1>3, <1>4, <1>5 DEF Tells

\* Rows that are cut tell of the chain up to the cut.
LEMMA CutTells ==
  ASSUME NEW C, AreBlocks(C), NEW E, NEW s, NEW H, NEW X, NEW T, Tells(E, s, H, C, X, T), T < 0,
         NEW h \in 0..X
  PROVE  Tells({e \in E : e.start <= h}, <<>>, 0, C, h, T)
<1> DEFINE F == {e \in E : e.start <= h}
<1>1. Len(C) \in Nat /\ StateAt(C, 0) = <<>>
  BY BlocksAre, StateSteps
<1>2. /\ X \in Nat /\ X <= Len(C) /\ T \in Int /\ AreRows(E, X)
      /\ \A n : \A k \in 0..X : RecordedIn(E, n, k) = Held(StateAt(C, KnownAt(C, T, k)), n)
  BY DEF Tells
<1>3. AreRows(F, h)
  <2>1. \A e \in F : e \in E /\ e.start \in 1..h
    BY <1>2 DEF AreRows
  <2> HIDE DEF F
  <2> QED
    BY <1>2, <2>1 DEF AreRows
<1>4. ASSUME NEW n, NEW k \in 0..h
      PROVE  RecordedIn(F, n, k) = Held(StateAt(C, KnownAt(C, T, k)), n)
  <2>1. {e \in F : e.name = n /\ e.start <= k} = {e \in E : e.name = n /\ e.start <= k}
    BY <1>2 DEF AreRows
  <2> HIDE DEF F
  <2>2. RecordedIn(F, n, k) = RecordedIn(E, n, k)
    BY <2>1, Zenon DEF RecordedIn, Past!Recorded, Past!Rows
  <2>3. k \in 0..X
    BY <1>2
  <2> QED
    BY <1>2, <2>2, <2>3
<1>5. KnownAt(C, T, 0) = 0 /\ KnownAt(C, T, h) \in 0..h
  BY <1>2 DEF KnownAt
<1>6. Idle(C, 0, 0) /\ 0 \in 0..0
  BY DEF Idle
<1> HIDE DEF F
<1>7. Tells(F, <<>>, 0, C, h, T)
  BY <1>1, <1>2, <1>3, <1>4, <1>5, <1>6 DEF Tells
<1> QED
  BY <1>7 DEF F

\* A chain that begins with the same blocks.
LEMMA TellsPrefix ==
  ASSUME NEW C, AreBlocks(C), NEW D, AreBlocks(D),
         NEW E, NEW s, NEW H, NEW X, NEW T, Tells(E, s, H, C, X, T), T < 0,
         X <= Len(D), \A i \in 1..X : C[i] = D[i]
  PROVE  Tells(E, s, H, D, X, T)
<1>1. Len(C) \in Nat /\ Len(D) \in Nat
  BY BlocksAre
<1>2. /\ H \in Nat /\ X \in Nat /\ H <= X /\ X <= Len(C) /\ T \in Int /\ AreRows(E, X)
      /\ \A n : \A k \in 0..X : RecordedIn(E, n, k) = Held(StateAt(C, KnownAt(C, T, k)), n)
  BY DEF Tells
<1>3. PICK g \in 0..H :
        /\ KnownAt(C, T, g) = g /\ Idle(C, g, H) /\ s = StateAt(C, g)
        /\ H = X => KnownAt(C, T, X) \in g..X
  BY DEF Tells
<1>4. \A k \in 0..X : StateAt(C, k) = StateAt(D, k)
  BY <1>1, <1>2, StateOfPrefix
<1>5. \A k \in 0..X : KnownAt(C, T, k) = k /\ KnownAt(D, T, k) = k
  BY <1>2 DEF KnownAt
<1>6. \A n : \A k \in 0..X : RecordedIn(E, n, k) = Held(StateAt(D, KnownAt(D, T, k)), n)
  BY <1>2, <1>4, <1>5
<1>7. g \in 0..X /\ X \in 0..X /\ \A i \in (g + 1)..H : i \in 1..X
  BY <1>2
<1>8. Idle(D, g, H)
  BY <1>3, <1>7 DEF Idle
<1>9. s = StateAt(D, g) /\ KnownAt(D, T, g) = g /\ KnownAt(D, T, X) \in g..X
  BY <1>2, <1>3, <1>4, <1>5, <1>7
<1> QED
  BY <1>1, <1>2, <1>6, <1>8, <1>9 DEF Tells

LEMMA OnPrefix ==
  ASSUME NEW C, AreBlocks(C), NEW D, AreBlocks(D),
         NEW node, NEW R, NEW H, NEW X, NEW T, On(node, R, C, T, H, X, X), T < 0,
         X <= Len(D), \A i \in 1..X : C[i] = D[i]
  PROVE  On(node, R, D, T, H, X, X)
<1>1. PICK E, U, s, j : node = Node(Db(E, R, U), s, j) /\ Tells(E, s, H, C, X, T) /\ PaysOf(U, C, X)
  BY DEF On
<1>2. Tells(E, s, H, D, X, T)
  BY <1>1, TellsPrefix
<1>3. X \in Nat
  BY <1>1 DEF Tells
<1>4. PaysOf(U, D, X)
  BY <1>1, <1>3, PaysPrefix
<1> QED
  BY <1>1, <1>2, <1>4 DEF On

-----------------------------------------------------------------------------
(* Parts of chains *)

LEMMA BlocksPart ==
  ASSUME NEW a, AreBlocks(a), NEW m \in 1..(Len(a) + 1), NEW n \in 0..Len(a)
  PROVE  /\ AreBlocks(SubSeq(a, m, n))
         /\ Len(SubSeq(a, m, n)) = IF m <= n THEN n - m + 1 ELSE 0
         /\ \A i \in 1..Len(SubSeq(a, m, n)) : SubSeq(a, m, n)[i] = a[m + i - 1]
<1> DEFINE S == {a[i] : i \in 1..Len(a)}
<1>1. Len(a) \in Nat /\ \A i \in 1..Len(a) : a[i] \in S /\ a[i].owner # Lapsed
  BY BlocksAre
<1>2. \A x \in S : x.owner # Lapsed
  BY <1>1
<1> HIDE DEF S
<1>3. m \in Int /\ n \in Int /\ \A i \in m..n : a[i] \in S
  BY <1>1
<1>4. PICK p : p = SubSeq(a, m, n)
  OBVIOUS
<1>5. /\ p \in Seq(S) /\ Len(p) = IF m <= n THEN n - m + 1 ELSE 0
      /\ \A i \in 1..(n - m + 1) : p[i] = a[m + i - 1]
  BY <1>3, <1>4, SubSeqProperties
<1>6. \A i \in 1..Len(p) : i \in 1..(n - m + 1)
  BY <1>1, <1>5
<1>7. IsList(p) /\ Len(p) \in Nat /\ DOMAIN p = 1..Len(p) /\ \A i \in 1..Len(p) : p[i] \in S
  BY <1>5, SeqIsList
<1>8. AreBlocks(p)
  BY <1>2, <1>7 DEF AreBlocks
<1> QED
  BY <1>4, <1>5, <1>6, <1>8

\* c is a, then b.
Joins(c, a, b) ==
  /\ Len(c) = Len(a) + Len(b)
  /\ \A i \in 1..Len(a) : c[i] = a[i]
  /\ \A i \in 1..Len(b) : c[Len(a) + i] = b[i]

LEMMA BlocksJoined ==
  ASSUME NEW a, AreBlocks(a), NEW b, AreBlocks(b)
  PROVE  AreBlocks(a \o b) /\ Joins(a \o b, a, b)
<1> DEFINE S == {a[i] : i \in 1..Len(a)} \cup {b[i] : i \in 1..Len(b)}
<1>1. /\ Len(a) \in Nat /\ DOMAIN a = 1..Len(a) /\ \A i \in 1..Len(a) : a[i].owner # Lapsed
      /\ Len(b) \in Nat /\ DOMAIN b = 1..Len(b) /\ \A i \in 1..Len(b) : b[i].owner # Lapsed
  BY BlocksAre
<1>2. \A x \in S : x.owner # Lapsed
  BY <1>1
<1>3. IsList(a) /\ IsList(b) /\ (\A i \in DOMAIN a : a[i] \in S) /\ (\A i \in DOMAIN b : b[i] \in S)
  BY <1>1 DEF AreBlocks
<1> HIDE DEF S
<1>4. a \in Seq(S) /\ b \in Seq(S)
  BY <1>3, ListIsSeq
<1>5. PICK c : c = a \o b
  OBVIOUS
<1>6. /\ c \in Seq(S) /\ Len(c) = Len(a) + Len(b)
      /\ \A i \in 1..(Len(a) + Len(b)) : c[i] = IF i <= Len(a) THEN a[i] ELSE b[i - Len(a)]
  BY <1>4, <1>5, ConcatProperties
<1>7. IsList(c) /\ Len(c) \in Nat /\ DOMAIN c = 1..Len(c) /\ \A i \in 1..Len(c) : c[i] \in S
  BY <1>6, SeqIsList
<1>8. AreBlocks(c)
  BY <1>2, <1>7 DEF AreBlocks
<1>9. \A i \in 1..Len(a) : c[i] = a[i]
  BY <1>1, <1>6
<1>10. ASSUME NEW i \in 1..Len(b) PROVE c[Len(a) + i] = b[i]
  <2>1. Len(a) + i \in 1..(Len(a) + Len(b)) /\ ~(Len(a) + i <= Len(a)) /\ Len(a) + i - Len(a) = i
    BY <1>1
  <2> QED
    BY <1>6, <2>1
<1>11. Joins(c, a, b)
  BY <1>6, <1>9, <1>10 DEF Joins
<1> QED
  BY <1>5, <1>8, <1>11

\* The first blocks of a chain.
LEMMA UntilIs ==
  ASSUME NEW first, AreBlocks(first), NEW k \in 0..Len(first)
  PROVE  /\ AreBlocks(Until(first, k)) /\ Len(Until(first, k)) = k
         /\ \A i \in 1..k : Until(first, k)[i] = first[i]
<1>1. Len(first) \in Nat /\ k \in Nat /\ 1 \in 1..(Len(first) + 1)
  BY BlocksAre
<1>2. PICK u : u = Until(first, k)
  OBVIOUS
<1>3. AreBlocks(u) /\ Len(u) = (IF 1 <= k THEN k - 1 + 1 ELSE 0)
      /\ \A i \in 1..Len(u) : u[i] = first[1 + i - 1]
  BY <1>1, <1>2, BlocksPart DEF Until
<1>4. Len(u) = k
  BY <1>1, <1>3
<1>5. \A i \in 1..k : 1 + i - 1 = i
  BY <1>1
<1>6. \A i \in 1..k : u[i] = first[i]
  BY <1>3, <1>4, <1>5
<1> QED
  BY <1>2, <1>3, <1>4, <1>6

\* The same, with others behind them.
IsChain(C, first, k, coming) == C = Until(first, k) \o coming
Continues(C, first, k, coming) ==
  /\ Len(C) = k + Len(coming)
  /\ \A i \in 1..k : C[i] = first[i]
  /\ \A i \in 1..Len(coming) : C[k + i] = coming[i]

LEMMA ChainIs ==
  ASSUME NEW first, AreBlocks(first), NEW k \in 0..Len(first), NEW coming, AreBlocks(coming),
         NEW C, IsChain(C, first, k, coming)
  PROVE  AreBlocks(C) /\ Continues(C, first, k, coming)
<1>1. PICK u : u = Until(first, k)
  OBVIOUS
<1>2. AreBlocks(u) /\ Len(u) = k /\ \A i \in 1..k : u[i] = first[i]
  BY <1>1, UntilIs
<1>3. C = u \o coming
  BY <1>1 DEF IsChain
<1>4. AreBlocks(C) /\ Joins(C, u, coming)
  BY <1>2, <1>3, BlocksJoined
<1> QED
  BY <1>2, <1>4 DEF Joins, Continues

-----------------------------------------------------------------------------
(* A node that connected a chain *)

LEMMA StandingStands ==
  ASSUME NEW C, AreBlocks(C), Paying(C)
  PROVE  /\ Stands(Standing(C), C, -1, Len(C), Len(C), Len(C))
         /\ Mirrors(Standing(C), C, Len(C))
<1>1. Len(C) \in Nat
  BY BlocksAre
<1> DEFINE fresh == Node(Db({}, <<>>, {}), <<>>, 0)
<1>2. Past!Fresh = fresh
  BY DEF Past!Fresh, Node, Db
<1>3. Tells({}, <<>>, 0, C, 0, -1)
  BY TellsNothing
<1>4. PaysOf({}, C, 0)
  BY DEF PaysOf
<1>5. On(fresh, <<>>, C, -1, 0, 0, 0)
  BY <1>3, <1>4 DEF On
<1>6. fresh.height = 0 /\ fresh.state = <<>> /\ fresh.db.raws = <<>>
  BY NodeIs, DbIs
<1> HIDE DEF fresh
<1>7. Stands(fresh, C, -1, 0, 0, 0)
  BY <1>5, <1>6 DEF Stands
<1>8. RawsOf(<<>>, C, 0)
  <2>1. DOMAIN <<>> = {} /\ 1..0 = {}
    OBVIOUS
  <2> QED
    BY <2>1 DEF RawsOf
<1>9. Mirrors(fresh, C, 0)
  BY <1>1, <1>6, <1>8, StateSteps DEF Mirrors
<1>10. \A k \in 1..Len(C) : C[k] = C[0 + k] /\ KnownAt(C, -1, 0 + k) = 0 + k
  <2> SUFFICES ASSUME NEW k \in 1..Len(C) PROVE C[k] = C[0 + k] /\ KnownAt(C, -1, 0 + k) = 0 + k
    OBVIOUS
  <2>1. 0 + k = k /\ ~(k <= -1)
    BY <1>1
  <2> QED
    BY <2>1 DEF KnownAt
<1>11. 0 \in Nat /\ 0 \in 0..Len(C) /\ 0 <= 0 /\ 0 + Len(C) = Len(C)
  BY <1>1
<1>12. /\ Stands(Past!Extended(fresh, C), C, -1, Len(C), Len(C), Len(C))
       /\ Mirrors(fresh, C, 0) /\ 0 = 0 => Mirrors(Past!Extended(fresh, C), C, Len(C))
  BY <1>1, <1>7, <1>10, <1>11, ExtendStands
<1> QED
  BY <1>2, <1>9, <1>12 DEF Standing

LEMMA StandingState ==
  ASSUME NEW C, AreBlocks(C), Paying(C), NEW h \in 0..Len(C)
  PROVE  Standing(Until(C, h)).state = StateAt(C, h)
<1>1. Len(C) \in Nat
  BY BlocksAre
<1>2. PICK D : D = Until(C, h)
  OBVIOUS
<1>3. AreBlocks(D) /\ Len(D) = h /\ \A i \in 1..h : D[i] = C[i]
  BY <1>2, UntilIs
<1>4. Paying(D)
  BY <1>1, <1>3, PayingPrefix
<1>5. Standing(D).state = StateAt(D, h)
  BY <1>3, <1>4, StandingStands DEF Mirrors
<1>6. StateAt(D, h) = StateAt(C, h)
  <2>1. h \in 0..h /\ h \in Nat /\ h <= Len(C) /\ h <= Len(D) /\ Len(D) \in Nat
    BY <1>1, <1>3
  <2> QED
    BY <1>1, <1>3, <2>1, StateOfPrefix
<1> QED
  BY <1>2, <1>5, <1>6

Unspents(C) == {c \in Coins(C) : Spends(C, c) = {}}

\* The owner that a node names at a height, if the state was s at the last one it knows of.
Answers(node, n, h, s) ==
  Past!OwnerAt(node.db, node.state, n, h) = IF n \in DOMAIN s THEN s[n].owner ELSE Unheld

\* What the tables of a node answer that has all blocks of a chain (db.c:596-621).
LEMMA TablesTell ==
  ASSUME NEW C, AreBlocks(C), Payable(C), NEW node, NEW T,
         Stands(node, C, T, Len(C), Len(C), Len(C))
  PROVE  /\ \A h \in 0..Len(C) : \A n : KnownAt(C, T, h) \in 0..Len(C) =>
              Answers(node, n, h, StateAt(C, KnownAt(C, T, h)))
         /\ Past!Unspent(node.db) = Unspents(C)
<1> DEFINE L == Len(C)
<1>1. PICK R, E, U, s, j : node = Node(Db(E, R, U), s, j) /\ Tells(E, s, L, C, L, T) /\ PaysOf(U, C, L)
  BY DEF Stands, On
<1>2. /\ node.state = s /\ node.db.epochs = E /\ node.db.utxos = U /\ node.db.from = 0
      /\ L \in Nat /\ 0 # Never
  BY <1>1, NodeIs, DbIs, BlocksAre, BlocksAssumption
<1>3. Past!Unspent(node.db) = Unspents(C)
  BY <1>1, <1>2, UnspentIs DEF Past!Unspent, Unspents
<1>4. /\ AreRows(E, L)
      /\ \A n : \A h \in 0..L : RecordedIn(E, n, h) = Held(StateAt(C, KnownAt(C, T, h)), n)
  BY <1>1 DEF Tells
<1>5. PICK g \in 0..L : KnownAt(C, T, g) = g /\ s = StateAt(C, g)
  BY <1>1 DEF Tells
<1>6. \A k \in 0..L : \A n \in DOMAIN StateAt(C, k) : StateAt(C, k)[n].owner # Lapsed
  BY StateIs DEF IsState
<1>7. \A e \in E : e.start \in Int /\ e.start >= 1
  BY <1>4 DEF AreRows
<1>8. ASSUME NEW h \in 0..L, NEW n, KnownAt(C, T, h) \in 0..L
      PROVE  Past!OwnerAt(node.db, node.state, n, h)
               = IF n \in DOMAIN StateAt(C, KnownAt(C, T, h))
                 THEN StateAt(C, KnownAt(C, T, h))[n].owner ELSE Unheld
  <2> DEFINE t == StateAt(C, KnownAt(C, T, h))
             rows == Past!Rows(node.db, n, h)
             ever == {e \in E : e.name = n}
             begins == {e \in ever : \A f \in ever : e.start <= f.start}
  <2>1. Past!Recorded(node.db, n, h) = Held(t, n)
    <3>1. [epochs |-> E].epochs = E
      OBVIOUS
    <3>2. Past!Recorded(node.db, n, h) = RecordedIn(E, n, h)
      BY <1>2, <3>1, Zenon DEF RecordedIn, Past!Recorded, Past!Rows
    <3> QED
      BY <1>4, <3>2
  <2>2. n \in DOMAIN t => t[n].owner # Lapsed
    BY <1>6, <1>8
  <2>3. rows = {} => Past!Recorded(node.db, n, h) = Lapsed
    BY DEF Past!Recorded
  <2>4. ~(\E e \in begins : e.start = 0)
    BY <1>7
  <2>5. ASSUME ever = {}, n \in DOMAIN s PROVE FALSE
    <3>1. RowsOf(E, n, g) = {}
      BY <2>5 DEF RowsOf
    <3>2. RecordedIn(E, n, g) = Lapsed
      BY <3>1, RecordedIs
    <3>3. Held(s, n) = Lapsed
      BY <1>4, <1>5, <3>2
    <3> QED
      BY <1>5, <1>6, <2>5, <3>3 DEF Held
  <2> HIDE DEF t, rows, ever, begins
  <2>6. Past!OwnerAt(node.db, node.state, n, h)
          = IF rows # {}
            THEN IF Past!Recorded(node.db, n, h) = Lapsed THEN Unheld
                 ELSE Past!Recorded(node.db, n, h)
            ELSE IF 0 = Never \/ 0 > h THEN Uncovered
            ELSE IF \/ (ever = {} /\ Past!Holds(s, n)) \/ \E e \in begins : e.start = 0
                 THEN Uncovered ELSE Unheld
    BY <1>2, Zenon DEF Past!OwnerAt, rows, ever, begins
  <2>7. CASE n \in DOMAIN t
    <3>1. Past!Recorded(node.db, n, h) = t[n].owner /\ t[n].owner # Lapsed
      BY <2>1, <2>2, <2>7 DEF Held
    <3> QED
      BY <2>3, <2>6, <2>7, <3>1 DEF t
  <2>8. CASE n \notin DOMAIN t
    <3>1. Past!Recorded(node.db, n, h) = Lapsed
      BY <2>1, <2>8 DEF Held
    <3>2. ~(0 = Never \/ 0 > h)
      BY <1>2
    <3>3. ~(ever = {} /\ Past!Holds(s, n))
      BY <2>5 DEF Past!Holds
    <3>4. Past!OwnerAt(node.db, node.state, n, h) = Unheld
      BY <2>4, <2>6, <3>1, <3>2, <3>3
    <3> QED
      BY <2>8, <3>4 DEF t
  <2> QED
    BY <2>7, <2>8
<1> QED
  BY <1>3, <1>8 DEF Answers

-----------------------------------------------------------------------------
(* The way back *)

LEMMA ReplayedSteps ==
  ASSUME NEW C, NEW k \in Nat, k > 0
  PROVE  /\ Seen(C[k]) => Replayed(C, k) = k
         /\ ~Seen(C[k]) => Replayed(C, k) = Replayed(C, k - 1)
<1> DEFINE S(h) == {g \in 1..h : Past!Carries(C[g]) \/ C[g].funds \cup C[g].spends # {}}
<1>1. \A h : Replayed(C, h) = Max({0} \cup S(h))
  BY Zenon DEF Replayed
<1>2. \A g : (Past!Carries(C[g]) \/ C[g].funds \cup C[g].spends # {}) <=> Seen(C[g])
  BY DEF Seen
<1>3. \A g \in 1..k : g \in 1..(k - 1) \/ g = k
  OBVIOUS
<1>4. CASE Seen(C[k])
  <2> DEFINE Z == {0} \cup S(k)
  <2>1. k \in S(k) /\ \A g \in S(k) : g \in 1..k
    BY <1>2, <1>4
  <2> HIDE DEF S
  <2>2. k \in Z /\ \A g \in Z : g \in Int /\ g <= k
    BY <2>1
  <2> HIDE DEF Z
  <2>3. Max(Z) = k
    <3>1. \E x \in Z : \A y \in Z : x >= y
      BY <2>2
    <3>2. Max(Z) \in Z /\ \A y \in Z : Max(Z) >= y
      BY <3>1 DEF Max
    <3>3. PICK x : x = Max(Z)
      OBVIOUS
    <3>4. x \in Z /\ x >= k
      BY <2>2, <3>2, <3>3, Zenon
    <3>5. x \in Int /\ x <= k
      BY <2>2, <3>4
    <3>6. x = k
      BY <3>4, <3>5
    <3> QED
      BY <3>3, <3>6
  <2> QED
    BY <1>1, <1>4, <2>3 DEF Z
<1>5. CASE ~Seen(C[k])
  <2>1. S(k) = S(k - 1)
    BY <1>2, <1>3, <1>5
  <2> HIDE DEF S
  <2> QED
    BY <1>1, <1>5, <2>1
<1> QED
  BY <1>4, <1>5

LEMMA ReplayedIn ==
  ASSUME NEW C, NEW h \in Nat
  PROVE  Replayed(C, h) \in 0..h
<1> DEFINE P == {k \in Nat : Replayed(C, k) \in 0..k}
<1>1. 0 \in P
  BY ReplayedNone
<1>2. ASSUME NEW k \in P PROVE k + 1 \in P
  <2>1. k + 1 \in Nat /\ k + 1 > 0 /\ (k + 1) - 1 = k
    OBVIOUS
  <2>2. Replayed(C, k + 1) = k + 1 \/ Replayed(C, k + 1) = Replayed(C, k)
    BY <2>1, ReplayedSteps
  <2> QED
    BY <2>1, <2>2
<1>3. P \in SUBSET Nat
  OBVIOUS
<1>4. P = Nat
  <2> HIDE DEF P
  <2> QED
    BY <1>1, <1>2, <1>3, NatInduct
<1> QED
  BY <1>4

LEMMA CutRawsIs ==
  \A R, h : /\ DOMAIN CutRaws(R, h) = {k \in DOMAIN R : k <= h}
            /\ \A k \in DOMAIN CutRaws(R, h) : CutRaws(R, h)[k] = R[k]
BY DEF CutRaws

\* D begins with the first k blocks of C.
Begins(D, C, k) == AreBlocks(D) /\ Paying(D) /\ k <= Len(D) /\ \A i \in 1..k : C[i] = D[i]

\* A rollback to a height up to which the substrate has every action (sync.c:191-220).
LEMMA BackTo ==
  ASSUME NEW C, AreBlocks(C), NEW k \in 0..Len(C), NEW D, Begins(D, C, k),
         NEW E, NEW R, NEW U, NEW s, NEW j, NEW H, NEW X, Tells(E, s, H, C, X, -1), k <= X,
         PaysOf(CutCoins(U, k), C, k),
         \A i \in 1..k : /\ i \in DOMAIN R => R[i] = C[i]
                         /\ i \notin DOMAIN R => ~Past!Carries(C[i])
  PROVE  Stands(Past!Rollback(Node(Db(E, R, U), s, j), k), D, -1, k, k, k)
<1> DEFINE node == Node(Db(E, R, U), s, j)
           F == {e \in E : e.start <= k}
           S == CutRaws(R, k)
           V == CutCoins(U, k)
           pruned == Node(Past!Prune(node.db, k), <<>>, 0)
<1>1. /\ Len(C) \in Nat /\ X \in Nat /\ k \in Nat
      /\ AreBlocks(D) /\ Paying(D) /\ k <= Len(D) /\ \A i \in 1..k : C[i] = D[i]
  BY BlocksAre DEF Tells, Begins
<1>2. Len(D) \in Nat
  BY <1>1, BlocksAre
<1>3. pruned = Node(Db(F, S, V), <<>>, 0)
  BY NodeIs, PruneIs
<1>4. k \in 0..X
  BY <1>1
<1>5. Tells(F, <<>>, 0, C, k, -1)
  BY <1>4, CutTells
<1>6. DOMAIN S = {i \in DOMAIN R : i <= k} /\ \A i \in DOMAIN S : S[i] = R[i]
  BY CutRawsIs
<1> HIDE DEF node, F, S, V, pruned
<1>7. On(pruned, S, C, -1, 0, k, k)
  BY <1>3, <1>5 DEF On, V
<1>8. On(pruned, S, D, -1, 0, k, k)
  BY <1>1, <1>7, OnPrefix
<1>9. k \in 0..Len(D) /\ (k = 0 \/ k = k)
  BY <1>1, <1>2
<1>10. ASSUME NEW i \in 1..k
       PROVE  /\ i \in DOMAIN S => S[i] = D[i] /\ KnownAt(D, -1, i) = i
              /\ i \notin DOMAIN S =>
                   /\ ~Past!Carries(D[i])
                   /\ \/ i <= k /\ -1 < 0
                      \/ k = 0 /\ KnownAt(D, -1, i) = KnownAt(D, -1, i - 1)
  <2>1. i \in Nat /\ i <= k /\ ~(i <= -1) /\ -1 < 0 /\ C[i] = D[i]
    BY <1>1
  <2>2. KnownAt(D, -1, i) = i
    BY <2>1 DEF KnownAt
  <2> QED
    BY <1>6, <2>1, <2>2
<1>11. Stands(Past!Rollback(node, k), D, -1, k, k, k)
  BY <1>1, <1>8, <1>9, <1>10, RollbackStands DEF pruned
<1> QED
  BY <1>11 DEF node

\* What is known of a node that connected a chain.
StandsOf(node, C, E, R, U) ==
  /\ node = Node(Db(E, R, U), StateAt(C, Len(C)), Len(C))
  /\ Tells(E, StateAt(C, Len(C)), Len(C), C, Len(C), -1)
  /\ PaysOf(U, C, Len(C)) /\ RawsOf(R, C, Len(C))

LEMMA StandingIs ==
  ASSUME NEW C, AreBlocks(C), Paying(C)
  PROVE  \E E, R, U : StandsOf(Standing(C), C, E, R, U)
<1>1. PICK R, E, U, s, j :
        Standing(C) = Node(Db(E, R, U), s, j) /\ Tells(E, s, Len(C), C, Len(C), -1)
        /\ PaysOf(U, C, Len(C))
  BY StandingStands DEF Stands, On
<1>2. Standing(C).height = Len(C) /\ Mirrors(Standing(C), C, Len(C))
  BY StandingStands DEF Stands
<1>3. s = StateAt(C, Len(C)) /\ j = Len(C) /\ RawsOf(R, C, Len(C))
  BY <1>1, <1>2, NodeIs, DbIs DEF Mirrors
<1>4. StandsOf(Standing(C), C, E, R, U)
  BY <1>1, <1>3 DEF StandsOf
<1> QED
  BY <1>4

LEMMA RollbackBack ==
  ASSUME NEW C, AreBlocks(C), Paying(C), NEW k \in 0..Len(C), NEW D, Begins(D, C, k)
  PROVE  Stands(Past!Rollback(Standing(C), k), D, -1, k, k, k)
<1>1. Len(C) \in Nat /\ k <= Len(C) /\ k \in Nat
  BY BlocksAre
<1>2. PICK E, R, U : StandsOf(Standing(C), C, E, R, U)
  BY StandingIs
<1> DEFINE s == StateAt(C, Len(C))
<1>3. /\ Standing(C) = Node(Db(E, R, U), s, Len(C)) /\ Tells(E, s, Len(C), C, Len(C), -1)
      /\ PaysOf(U, C, Len(C)) /\ RawsOf(R, C, Len(C))
  BY <1>2 DEF StandsOf
<1>4. PaysOf(CutCoins(U, k), C, k)
  <2>1. Len(C) \in 0..Len(C) /\ k \in 0..Len(C)
    BY <1>1
  <2> QED
    BY <1>1, <1>3, <2>1, CutPays
<1>5. \A i \in 1..k : /\ i \in DOMAIN R => R[i] = C[i]
                      /\ i \notin DOMAIN R => ~Past!Carries(C[i])
  <2>1. \A i \in 1..k : i \in 1..Len(C)
    BY <1>1
  <2> QED
    BY <1>3, <2>1 DEF RawsOf, Seen
<1> HIDE DEF s
<1>6. Stands(Past!Rollback(Node(Db(E, R, U), s, Len(C)), k), D, -1, k, k, k)
  BY <1>1, <1>3, <1>4, <1>5, BackTo
<1> QED
  BY <1>3, <1>6

LEMMA ResumeBack ==
  ASSUME NEW C, AreBlocks(C), Paying(C), NEW k \in 0..Len(C), NEW D, Begins(D, C, Len(C))
  PROVE  Stands(Past!Resumed(Standing(C), Standing(Until(C, k))), D, -1, k, Len(C), Len(C))
<1> DEFINE L == Len(C)
           s == StateAt(C, L)
           t == StateAt(C, k)
           back == Past!Resumed(Standing(C), Standing(Until(C, k)))
<1>1. L \in Nat /\ k <= L /\ k \in Nat
  BY BlocksAre
<1>2. PICK E, R, U : StandsOf(Standing(C), C, E, R, U)
  BY StandingIs
<1>3. /\ Standing(C) = Node(Db(E, R, U), s, L) /\ Tells(E, s, L, C, L, -1) /\ PaysOf(U, C, L)
  BY <1>2 DEF StandsOf
<1>4. Standing(Until(C, k)).state = t /\ Standing(Until(C, k)).height = k
  <2>1. /\ AreBlocks(Until(C, k)) /\ Len(Until(C, k)) = k
        /\ \A i \in 1..k : Until(C, k)[i] = C[i]
    BY UntilIs
  <2>2. Paying(Until(C, k))
    BY <1>1, <2>1, PayingPrefix
  <2>3. Standing(Until(C, k)).height = k
    BY <2>1, <2>2, StandingStands DEF Stands
  <2> QED
    BY <2>3, StandingState
<1>5. back = Node(Db(E, R, U), t, k)
  <2>1. [Node(Db(E, R, U), s, L) EXCEPT !.state = t] = Node(Db(E, R, U), t, L)
    BY NodeChanges
  <2>2. [Node(Db(E, R, U), t, L) EXCEPT !.height = k] = Node(Db(E, R, U), t, k)
    BY NodeChanges
  <2> HIDE DEF t, s
  <2> QED
    BY <1>3, <1>4, <2>1, <2>2, Zenon DEF Past!Resumed
<1>6. Tells(E, t, k, C, L, -1)
  <2>1. KnownAt(C, -1, k) = k /\ KnownAt(C, -1, L) = L /\ Idle(C, k, k) /\ k \in 0..k
    BY <1>1 DEF KnownAt, Idle
  <2>2. /\ AreRows(E, L)
        /\ \A n : \A h \in 0..L : RecordedIn(E, n, h) = Held(StateAt(C, KnownAt(C, -1, h)), n)
    BY <1>3 DEF Tells
  <2>3. L \in k..L
    BY <1>1
  <2> HIDE DEF L
  <2>4. L <= Len(C)
    BY <1>1 DEF L
  <2> QED
    BY <1>1, <2>1, <2>2, <2>3, <2>4 DEF Tells
<1> HIDE DEF s, t, back
<1>7. On(back, R, C, -1, k, L, L)
  BY <1>3, <1>5, <1>6 DEF On
<1>8. On(back, R, D, -1, k, L, L)
  BY <1>7, OnPrefix DEF Begins
<1>9. back.height = k
  BY <1>5, NodeIs
<1>10. Stands(back, D, -1, k, L, L)
  BY <1>8, <1>9, Zenon DEF Stands
<1> QED
  BY <1>10 DEF back

LEMMA RefoldBack ==
  ASSUME NEW C, AreBlocks(C), Paying(C), NEW D, Begins(D, C, Len(C))
  PROVE  Stands(Past!Refolded(Standing(C)), D, Len(C), Len(C), Len(C), Len(C))
<1> DEFINE L == Len(C)
           s == StateAt(C, L)
           F == {e \in {} : e.start <= L}
<1>1. L \in Nat
  BY BlocksAre
<1>2. PICK E, R, U : StandsOf(Standing(C), C, E, R, U)
  BY StandingIs
<1>3. Standing(C) = Node(Db(E, R, U), s, L) /\ PaysOf(U, C, L) /\ RawsOf(R, C, L)
  BY <1>2 DEF StandsOf
<1>4. AreBlocks(D) /\ Paying(D) /\ L <= Len(D) /\ (\A i \in 1..L : C[i] = D[i]) /\ Len(D) \in Nat
  BY BlocksAre DEF Begins
<1> DEFINE node == Node(Db({}, R, U), s, L)
           S == CutRaws(R, L)
           V == CutCoins(U, L)
           pruned == Node(Past!Prune(node.db, L), <<>>, 0)
<1>5. Past!Refolded(Standing(C)) = Past!Rollback(node, L)
  <2>1. Past!Mark(Past!Wipe(Db(E, R, U)), 0) = Db({}, R, U)
    BY WipeIs
  <2>2. Standing(C).db = Db(E, R, U) /\ Standing(C).height = L
    BY <1>3, NodeIs
  <2>3. \A d : [Node(Db(E, R, U), s, L) EXCEPT !.db = d] = Node(d, s, L)
    BY DEF Node
  <2> HIDE DEF L, s
  <2> QED
    BY <1>3, <2>1, <2>2, <2>3, Zenon DEF Past!Refolded
<1>6. pruned = Node(Db({}, S, V), <<>>, 0)
  <2>1. F = {}
    OBVIOUS
  <2>2. node.db = Db({}, R, U) /\ Past!Prune(Db({}, R, U), L) = Db(F, S, V)
    BY NodeIs, PruneIs
  <2> QED
    BY <2>1, <2>2
<1>7. PaysOf(V, D, L)
  <2>1. L \in 0..Len(C) /\ L \in 0..L
    BY <1>1
  <2>2. PaysOf(V, C, L)
    BY <1>1, <1>3, <2>1, CutPays
  <2> HIDE DEF V
  <2> QED
    BY <1>1, <1>4, <2>2, PaysPrefix
<1>8. Tells({}, <<>>, 0, D, 0, L)
  BY <1>1, <1>4, TellsNothing
<1>9. DOMAIN S = {i \in DOMAIN R : i <= L} /\ \A i \in DOMAIN S : S[i] = R[i]
  BY CutRawsIs
<1> HIDE DEF node, S, V, pruned
<1>10. On(pruned, S, D, L, 0, 0, L)
  BY <1>6, <1>7, <1>8 DEF On
<1>11. ASSUME NEW i \in 1..L
       PROVE  /\ i \in DOMAIN S => S[i] = D[i] /\ KnownAt(D, L, i) = i
              /\ i \notin DOMAIN S =>
                   /\ ~Past!Carries(D[i])
                   /\ \/ i <= 0 /\ L < 0
                      \/ 0 = 0 /\ KnownAt(D, L, i) = KnownAt(D, L, i - 1)
  <2>1. i \in Nat /\ i > 0 /\ i <= L /\ i - 1 <= L /\ C[i] = D[i]
    BY <1>1, <1>4
  <2>2. i \in DOMAIN S <=> Seen(C[i])
    BY <1>3, <1>9, <2>1 DEF RawsOf
  <2>3. i \in DOMAIN S => S[i] = C[i]
    BY <1>3, <1>9, <2>2 DEF RawsOf
  <2>4. /\ Seen(D[i]) => Replayed(D, i) = i
        /\ ~Seen(D[i]) => Replayed(D, i) = Replayed(D, i - 1)
    BY <2>1, ReplayedSteps
  <2>5. KnownAt(D, L, i) = Replayed(D, i) /\ KnownAt(D, L, i - 1) = Replayed(D, i - 1)
    BY <2>1 DEF KnownAt
  <2>6. ~Seen(D[i]) => ~Past!Carries(D[i])
    BY DEF Seen
  <2> QED
    BY <2>1, <2>2, <2>3, <2>4, <2>5, <2>6
<1>12. Stands(Past!Rollback(node, L), D, L, L, L, L)
  <2>1. L \in 0..Len(D) /\ (0 = 0 \/ 0 = L)
    BY <1>1, <1>4
  <2> HIDE DEF L
  <2> QED
    BY <1>4, <1>10, <1>11, <2>1, RollbackStands DEF pruned
<1> QED
  BY <1>5, <1>12

\* The walk back of the wallet ends where the rows of coins are those of the chain: a
\* coin below the oldest that seems unspent lost no spend (sync.c:983-1008).
LEMMA RewalkBack ==
  ASSUME NEW C, AreBlocks(C), Paying(C)
  PROVE  \E k \in 0..Len(C) :
           /\ Past!Rewalked(Damaged(C)).height = k
           /\ \A D : Begins(D, C, k) => Stands(Past!Rewalked(Damaged(C)), D, -1, k, k, k)
<1> DEFINE L == Len(C)
           s == StateAt(C, L)
           carriers == {h \in DOMAIN C : Past!Carries(C[h])}
           R == [h \in carriers |-> C[h]]
           Kept(u) == IF u.spent \in carriers THEN u ELSE [u EXCEPT !.spent = Never]
<1>1. L \in Nat /\ DOMAIN C = 1..L /\ Never \notin Nat
  BY BlocksAre, BlocksAssumption
<1>2. PICK E, Q, U : StandsOf(Standing(C), C, E, Q, U)
  BY StandingIs
<1>3. Standing(C) = Node(Db(E, Q, U), s, L) /\ Tells(E, s, L, C, L, -1) /\ PaysOf(U, C, L)
  BY <1>2 DEF StandsOf
<1> DEFINE W == {Kept(u) : u \in U}
           node == Node(Db(E, R, W), s, L)
<1>4. Damaged(C) = node
  <2>1. Altered(Node(Db(E, Q, U), s, L), R, W) = node
    BY AlteredIs
  <2>2. Standing(C).db.utxos = U
    BY <1>3, NodeIs, DbIs
  <2>3. Damaged(C) = Altered(Standing(C), R, {Kept(u) : u \in Standing(C).db.utxos})
    BY Zenon DEF Damaged, Altered
  <2> HIDE DEF s, L, R, Kept, node
  <2> QED
    BY <1>3, <2>1, <2>2, <2>3, Zenon
<1>5. node.db.utxos = W /\ node.height = L
  BY NodeIs, DbIs
<1>6. \A u \in U : u = CoinRow(u.coin, u.at, u.spent) /\ Paid(C, L, u.coin, u.at, u.spent)
  BY <1>3 DEF PaysOf
<1>7. \A u \in U : /\ Kept(u) = u \/ Kept(u).spent = Never
                   /\ Kept(u).at = u.at /\ u.at \in 1..L
  <2> SUFFICES ASSUME NEW u \in U
               PROVE  /\ Kept(u) = u \/ Kept(u).spent = Never
                      /\ Kept(u).at = u.at /\ u.at \in 1..L
    OBVIOUS
  <2> HIDE DEF carriers
  <2>1. PICK c, f, g : u = CoinRow(c, f, g)
    BY <1>6
  <2>2. [CoinRow(c, f, g) EXCEPT !.spent = Never] = CoinRow(c, f, Never)
    BY DEF CoinRow
  <2>3. /\ CoinRow(c, f, g).at = f /\ CoinRow(c, f, Never).at = f /\ CoinRow(c, f, Never).spent = Never
    BY DEF CoinRow
  <2>4. u.at \in 1..L
    BY <1>6 DEF Paid
  <2>5. Kept(u) = u \/ Kept(u) = CoinRow(c, f, Never)
    BY <2>1, <2>2
  <2> HIDE DEF Kept
  <2> QED
    BY <2>1, <2>3, <2>4, <2>5
<1>8. DOMAIN R = carriers /\ \A i \in carriers : R[i] = C[i]
  OBVIOUS
<1>9. \A i \in 1..L : i \in carriers <=> Past!Carries(C[i])
  BY <1>1
<1> DEFINE at == {u.at : u \in {v \in W : v.spent = Never}}
           oldest == Past!OldestUnspent(node.db)
<1>10. oldest = IF at = {} THEN Never ELSE Past!Min(at)
  BY <1>5 DEF Past!OldestUnspent
<1> HIDE DEF oldest, Kept, R, node, s, carriers
<1>11. CASE at = {}
  <2>1. \A u \in U : Kept(u) = u
    <3> SUFFICES ASSUME NEW u \in U, Kept(u) # u PROVE FALSE
      OBVIOUS
    <3>1. Kept(u).spent = Never /\ Kept(u) \in W
      BY <1>7
    <3> HIDE DEF W
    <3> QED
      BY <1>11, <3>1
  <2>2. W = U
    BY <2>1
  <2> HIDE DEF W, at
  <2>3. Past!Rewalked(Damaged(C)) = node
    BY <1>4, <1>10, <1>11 DEF Past!Rewalked, oldest
  <2>4. ASSUME NEW D, Begins(D, C, L) PROVE Stands(node, D, -1, L, L, L)
    <3>1. On(node, R, C, -1, L, L, L)
      BY <1>3, <2>2 DEF On, node
    <3>2. On(node, R, D, -1, L, L, L)
      BY <2>4, <3>1, OnPrefix DEF Begins
    <3> HIDE DEF L
    <3> QED
      BY <1>5, <3>2, Zenon DEF Stands
  <2>5. L \in 0..L
    BY <1>1
  <2> QED
    BY <1>5, <2>3, <2>4, <2>5
<1>12. CASE at # {}
  <2>1. at \in SUBSET Nat
    <3> HIDE DEF W
    <3>1. \A w \in W : w.at \in 1..L
      BY <1>7 DEF W
    <3> QED
      BY <1>1, <3>1
  <2>2. PICK m \in at : \A x \in at : m <= x
    <3> HIDE DEF at
    <3> QED
      BY <1>12, <2>1, LeastOf
  <2>3. Past!Min(at) = m
    <3> HIDE DEF at
    <3>1. \A x \in at : x \in Nat
      BY <2>1
    <3> QED
      BY <2>2, <3>1 DEF Past!Min
  <2>4. oldest = m
    <3> HIDE DEF at
    <3> QED
      BY <1>10, <1>12, <2>3
  <2>5. m \in 1..L
    BY <1>7
  <2>6. PICK k : k = m - 1
    OBVIOUS
  <2>7. k \in 0..L /\ k \in Nat /\ k < L /\ k <= L /\ m # Never /\ k < m
    BY <1>1, <2>5, <2>6
  <2>8. Past!Rewalked(Damaged(C)) = Past!Rollback(node, k)
    <3> HIDE DEF at, L, W
    <3> QED
      BY <1>4, <1>5, <2>4, <2>6, <2>7 DEF Past!Rewalked, oldest
  <2>9. CutCoins(W, k) = CutCoins(U, k)
    <3>1. {v \in W : v.at <= k} = {v \in U : v.at <= k}
      <4>1. ASSUME NEW u \in U, u.at <= k PROVE Kept(u) = u
        <5>1. CASE Kept(u).spent = Never
          <6>1. Kept(u) \in W /\ Kept(u).at = u.at /\ u.at \in Int
            BY <1>7
          <6>2. u.at \in at
            BY <5>1, <6>1
          <6> HIDE DEF at
          <6> QED
            BY <2>2, <2>5, <2>7, <4>1, <6>1, <6>2
        <5>2. CASE Kept(u).spent # Never
          BY <1>7, <5>2
        <5> QED
          BY <5>1, <5>2
      <4>2. \A w \in W : w.at <= k => w \in U
        BY <1>7, <4>1
      <4>3. \A u \in U : u.at <= k => u \in W
        BY <4>1
      <4> HIDE DEF W
      <4> QED
        BY <4>2, <4>3
    <3> HIDE DEF W
    <3> QED
      BY <3>1, Zenon DEF CutCoins
  <2>10. PaysOf(CutCoins(W, k), C, k)
    <3>1. L \in 0..L
      BY <1>1
    <3> HIDE DEF W
    <3> QED
      BY <1>1, <1>3, <2>7, <2>9, <3>1, CutPays
  <2>11. \A i \in 1..k : /\ i \in DOMAIN R => R[i] = C[i]
                         /\ i \notin DOMAIN R => ~Past!Carries(C[i])
    <3>1. \A i \in 1..k : i \in 1..L
      BY <2>7
    <3> QED
      BY <1>8, <1>9, <3>1
  <2>12. ASSUME NEW D, Begins(D, C, k) PROVE Stands(Past!Rollback(node, k), D, -1, k, k, k)
    <3> HIDE DEF W
    <3> QED
      BY <1>3, <2>7, <2>10, <2>11, <2>12, BackTo DEF node
  <2>13. PICK d : d = Past!Rollback(node, k)
    OBVIOUS
  <2>14. Begins(C, C, k)
    BY <2>7 DEF Begins
  <2>15. d.height = k
    BY <2>12, <2>13, <2>14 DEF Stands
  <2> HIDE DEF W, L
  <2> QED
    BY <2>7, <2>8, <2>12, <2>13, <2>15 DEF L
<1> QED
  BY <1>11, <1>12

-----------------------------------------------------------------------------
(* The tables after every way back *)

\* Behind k blocks, with rows of the chain C as far as that, or farther.
Regains(back, C, T, k) ==
  \E X, Y \in 0..Len(C) : k <= X /\ k <= Y /\ Stands(back, C, T, k, X, Y)

\* The tables say what is known of the chain.
Answered(node, C, T) ==
  /\ \A h \in 0..Len(C) : \A n :
       Answers(node, n, h, Standing(Until(C, KnownAt(C, T, h))).state)
  /\ Past!Unspent(node.db) = Unspents(C)

LEMMA TablesAfter ==
  ASSUME NEW first, AreBlocks(first), NEW k \in 0..Len(first), NEW coming, AreBlocks(coming),
         NEW C, IsChain(C, first, k, coming), Payable(C),
         NEW back, NEW T \in Int, T <= k, Regains(back, C, T, k),
         NEW node, node = Past!Extended(back, coming)
  PROVE  Answered(node, C, T)
<1>1. AreBlocks(C) /\ Continues(C, first, k, coming)
  BY ChainIs
<1>2. /\ Len(first) \in Nat /\ Len(coming) \in Nat /\ Len(C) \in Nat /\ k \in Nat
      /\ Len(C) = k + Len(coming)
  BY <1>1, BlocksAre DEF Continues
<1>3. Paying(C)
  BY <1>1, Pays
<1>4. PICK X, Y \in 0..Len(C) : k <= X /\ k <= Y /\ Stands(back, C, T, k, X, Y)
  BY DEF Regains
<1>5. \A i \in 1..Len(coming) : coming[i] = C[k + i] /\ KnownAt(C, T, k + i) = k + i
  <2>1. \A i \in 1..Len(coming) : ~(k + i <= T)
    BY <1>2
  <2> QED
    BY <1>1, <2>1 DEF KnownAt, Continues
<1>6. Stands(node, C, T, Len(C), Len(C), Len(C))
  <2>1. k + Len(coming) = Len(C)
    BY <1>2
  <2> QED
    BY <1>1, <1>2, <1>3, <1>4, <1>5, <2>1, ExtendStands
<1>7. /\ \A h \in 0..Len(C) : \A n : KnownAt(C, T, h) \in 0..Len(C) =>
           Answers(node, n, h, StateAt(C, KnownAt(C, T, h)))
      /\ Past!Unspent(node.db) = Unspents(C)
  BY <1>1, <1>6, TablesTell
<1>8. ASSUME NEW h \in 0..Len(C), NEW n
      PROVE  Answers(node, n, h, Standing(Until(C, KnownAt(C, T, h))).state)
  <2>1. Replayed(C, h) \in 0..h
    BY <1>2, ReplayedIn
  <2>2. PICK g \in 0..Len(C) : g = KnownAt(C, T, h)
    BY <1>2, <2>1 DEF KnownAt
  <2>3. Standing(Until(C, g)).state = StateAt(C, g)
    BY <1>1, <1>3, StandingState
  <2>4. Answers(node, n, h, StateAt(C, g))
    BY <1>7, <2>2
  <2> QED
    BY <2>2, <2>3, <2>4, Zenon
<1> QED
  BY <1>7, <1>8 DEF Answered

\* The blocks of a sample, the height it turns back to and the horizon of its refold.
Horizon(s) == IF s.how = "refold" THEN Len(s.first) ELSE -1
Fork(s) == IF s.how = "rewalk" THEN Back(s).height ELSE s.at

LEMMA BackRegains ==
  ASSUME NEW s, AreBlocks(s.first), AreBlocks(s.rest), Paying(s.first), s.at \in 0..Len(s.first),
         s.how \in {"rollback", "resume", "refold", "rewalk"},
         s.how \in {"refold", "rewalk"} => s.at = Len(s.first), Payable(Survivors(s))
  PROVE  /\ AreBlocks(Coming(s)) /\ Fork(s) \in 0..Len(s.first)
         /\ Horizon(s) \in Int /\ Horizon(s) <= Fork(s)
         /\ Regains(Back(s), Survivors(s), Horizon(s), Fork(s))
<1> DEFINE first == s.first
           at == s.at
           C == Survivors(s)
           L == Len(first)
           part == SubSeq(first, at + 1, L)
<1>1. L \in Nat /\ Len(s.rest) \in Nat /\ at \in Nat /\ at <= L
  BY BlocksAre
<1>2. IsChain(C, first, Fork(s), Coming(s))
  BY DEF Survivors, Fork, IsChain
<1>3. /\ AreBlocks(part) /\ Len(part) = L - at
      /\ \A i \in 1..(L - at) : part[i] = first[at + i]
  <2>1. at + 1 \in 1..(L + 1) /\ L \in 0..L
    BY <1>1
  <2>2. /\ AreBlocks(part) /\ Len(part) = IF at + 1 <= L THEN L - (at + 1) + 1 ELSE 0
        /\ \A i \in 1..Len(part) : part[i] = first[(at + 1) + i - 1]
    BY <2>1, BlocksPart
  <2>3. Len(part) = L - at
    BY <1>1, <2>2
  <2>4. \A i \in 1..(L - at) : (at + 1) + i - 1 = at + i
    BY <1>1
  <2> HIDE DEF part, L
  <2> QED
    BY <2>2, <2>3, <2>4
<1>4. AreBlocks(Coming(s))
  <2>1. AreBlocks(part \o s.rest)
    BY <1>3, BlocksJoined
  <2> QED
    BY <2>1 DEF Coming
<1> HIDE DEF C, part
<1>5. ASSUME Fork(s) \in 0..L
      PROVE  /\ Begins(C, first, Fork(s)) /\ AreBlocks(C) /\ Len(C) \in Nat
             /\ Len(C) = Fork(s) + Len(Coming(s)) /\ Len(Coming(s)) \in Nat
             /\ \A i \in 1..Len(Coming(s)) : C[Fork(s) + i] = Coming(s)[i]
  <2>1. PICK k \in 0..L : k = Fork(s)
    BY <1>5
  <2>2. PICK coming : coming = Coming(s) /\ AreBlocks(coming)
    BY <1>4
  <2>3. IsChain(C, first, k, coming)
    BY <1>2, <2>1, <2>2
  <2>4. /\ AreBlocks(C) /\ Len(C) = k + Len(coming)
        /\ \A i \in 1..k : C[i] = first[i]
        /\ \A i \in 1..Len(coming) : C[k + i] = coming[i]
    <3>1. AreBlocks(C) /\ Continues(C, first, k, coming)
      BY <2>2, <2>3, ChainIs
    <3> QED
      BY <3>1 DEF Continues
  <2>5. Len(C) \in Nat /\ Len(coming) \in Nat /\ k <= Len(C)
    BY <1>1, <2>2, <2>4, BlocksAre
  <2>6. Paying(C)
    BY <2>4, Pays DEF C
  <2>7. Begins(C, first, k)
    BY <2>4, <2>5, <2>6 DEF Begins
  <2> QED
    BY <2>1, <2>2, <2>4, <2>5, <2>7
<1>6. CASE s.how = "rollback"
  <2>1. Fork(s) = at /\ Horizon(s) = -1 /\ Back(s) = Past!Rollback(Standing(first), at)
    BY <1>6 DEF Fork, Horizon, Back
  <2>2. Begins(C, first, at) /\ Len(C) \in Nat /\ at <= Len(C)
    BY <1>5, <2>1 DEF Begins
  <2>3. Stands(Back(s), C, -1, at, at, at)
    <3> HIDE DEF at
    <3> QED
      BY <2>1, <2>2, RollbackBack DEF at
  <2>4. at \in 0..Len(C) /\ at <= at
    BY <1>1, <2>2
  <2>5. Regains(Back(s), C, -1, at)
    BY <2>3, <2>4 DEF Regains
  <2> QED
    BY <1>1, <1>4, <2>1, <2>5 DEF C
<1>7. CASE s.how = "refold"
  <2>1. at = L /\ Fork(s) = L /\ Horizon(s) = L /\ Back(s) = Past!Refolded(Standing(first))
    BY <1>7 DEF Fork, Horizon, Back
  <2>2. Begins(C, first, L) /\ Len(C) \in Nat /\ L <= Len(C)
    BY <1>1, <1>5, <2>1 DEF Begins
  <2>3. Stands(Back(s), C, L, L, L, L)
    BY <2>1, <2>2, RefoldBack
  <2> HIDE DEF L
  <2>4. L \in 0..Len(C) /\ L <= L
    BY <1>1, <2>2
  <2>5. Regains(Back(s), C, L, L)
    BY <2>3, <2>4 DEF Regains
  <2> QED
    BY <1>1, <1>4, <2>1, <2>4, <2>5 DEF C, L
<1>8. CASE s.how = "rewalk"
  <2>1. Horizon(s) = -1 /\ Back(s) = Past!Rewalked(Damaged(first)) /\ Fork(s) = Back(s).height
    BY <1>8 DEF Fork, Horizon, Back
  <2>2. PICK k \in 0..L :
          /\ Past!Rewalked(Damaged(first)).height = k
          /\ \A D : Begins(D, first, k) => Stands(Past!Rewalked(Damaged(first)), D, -1, k, k, k)
    BY RewalkBack
  <2>3. Fork(s) = k
    BY <2>1, <2>2
  <2>4. Begins(C, first, k) /\ Len(C) \in Nat /\ k <= Len(C)
    BY <1>5, <2>3 DEF Begins
  <2>5. Stands(Back(s), C, -1, k, k, k)
    BY <2>1, <2>2, <2>4
  <2>6. k \in 0..Len(C) /\ k <= k /\ -1 <= k
    BY <1>1, <2>4
  <2>7. Regains(Back(s), C, -1, k)
    BY <2>5, <2>6 DEF Regains
  <2> QED
    BY <1>4, <2>1, <2>3, <2>6, <2>7 DEF C
<1>9. CASE s.how = "resume"
  <2>1. /\ Fork(s) = at /\ Horizon(s) = -1 /\ Coming(s) = part \o s.rest
        /\ Back(s) = Past!Resumed(Standing(first), Standing(Until(first, at)))
    BY <1>9 DEF Fork, Horizon, Back, Coming, part
  <2>2. /\ Begins(C, first, at) /\ Len(C) \in Nat
        /\ Len(C) = at + Len(Coming(s))
        /\ \A i \in 1..Len(Coming(s)) : C[at + i] = Coming(s)[i]
    BY <1>5, <2>1
  <2>3. Joins(Coming(s), part, s.rest)
    BY <1>3, <2>1, BlocksJoined
  <2>4. /\ Len(Coming(s)) = (L - at) + Len(s.rest)
        /\ \A i \in 1..(L - at) : Coming(s)[i] = first[at + i]
    BY <1>3, <2>3 DEF Joins
  <2>5. ASSUME NEW i \in 1..L PROVE first[i] = C[i]
    <3>1. CASE i <= at
      BY <2>2, <3>1 DEF Begins
    <3>2. CASE ~(i <= at)
      <4>1. PICK j \in 1..(L - at) : i = at + j
        <5>1. i - at \in 1..(L - at) /\ i = at + (i - at)
          BY <1>1, <3>2
        <5> QED
          BY <5>1
      <4>2. j \in 1..Len(Coming(s))
        BY <1>1, <2>4
      <4> QED
        BY <2>2, <2>4, <4>1, <4>2
    <3> QED
      BY <3>1, <3>2
  <2>6. Begins(C, first, L) /\ L <= Len(C)
    BY <1>1, <2>2, <2>4, <2>5 DEF Begins
  <2>7. Stands(Back(s), C, -1, at, L, L)
    <3> HIDE DEF at
    <3> QED
      BY <2>1, <2>6, ResumeBack DEF at
  <2>8. L \in 0..Len(C) /\ at <= L /\ -1 <= at
    BY <1>1, <2>2, <2>6
  <2>9. Regains(Back(s), C, -1, at)
    BY <2>7, <2>8 DEF Regains
  <2> QED
    BY <1>1, <1>4, <2>1, <2>8, <2>9 DEF C
<1> QED
  BY <1>6, <1>7, <1>8, <1>9

-----------------------------------------------------------------------------
(* The samples *)

\* The input at hand is one of those a question is asked of, for good.
SampleOK == sample = Nothing \/ Sampled

LEMMA SampleKept == AlgSpec => []SampleOK
<1>1. AlgInit => SampleOK
  BY DEF AlgInit, SampleOK
<1>2. SampleOK /\ [FillNext /\ UNCHANGED sample]_<<allVars, sample>> => SampleOK'
  BY DEF SampleOK, Sampled, Nothing
<1> QED
  BY <1>1, <1>2, PTL DEF AlgSpec

\* The work of a parent counts for one header of this chain at most, whatever its
\* coinbase says, whatever the tree, the index and the nonce (pow.c:348-399).
THEOREM ParentProvesOne == AlgSpec => []OneProof
<1>1. SampleOK => OneProof
  <2> DEFINE Proof(x) ==
               [place |-> 0, chainBranch |-> x.branch, index |-> x.index, branch |-> <<>>,
                parent |-> [chain |-> ChainId + 1, root |-> Pow!Leaf(0), hash |-> 0],
                coinbase |-> [id |-> Pow!Leaf(0), script |-> sample.script]]
             bits == Pow!TargetToBits(1)
             Header(x) ==
               [id |-> x.id, bits |-> bits, chain |-> ChainId, hash |-> 2, merged |-> TRUE,
                aux |-> Proof(x)]
  <2> SUFFICES ASSUME SampleOK, sample.of = "parent",
                      NEW x \in Proofs, Pow!WorkOK(Header(x), bits),
                      NEW y \in Proofs, Pow!WorkOK(Header(y), bits)
               PROVE  x.id = y.id
    BY DEF OneProof
  <2>1. sample.script \in Parents
    BY DEF SampleOK, Sampled, Nothing
  <2>2. IsScript(sample.script)
    BY <2>1, ParentsAssumption DEF IsScript
  <2>3. Pow!AuxOK(Header(x), Proof(x)) /\ Pow!AuxOK(Header(y), Proof(y))
    BY DEF Pow!WorkOK
  <2>4. /\ Header(x).id = x.id /\ Header(y).id = y.id
        /\ Proof(x).coinbase.script = sample.script /\ Proof(y).coinbase.script = sample.script
        /\ Proof(x).chainBranch = x.branch /\ Proof(y).chainBranch = y.branch
    OBVIOUS
  <2>5. IsList(x.branch) /\ IsList(y.branch)
    BY ProofsAssumption
  <2> HIDE DEF Header, Proof
  <2> QED
    BY <2>2, <2>3, <2>4, <2>5, AuxBinds
<1> QED
  BY <1>1, SampleKept, PTL

\* A root stands for one list of transactions among those that pass the check for
\* supplied twins, whatever the lists and their lengths (chain.c:156-193).
THEOREM RootIsOfOneList == AlgSpec => []RootBinds
<1>1. SampleOK => RootBinds
  <2> SUFFICES ASSUME SampleOK, sample.of = "merkle", NEW ids \in Unmutated,
                      Pow!MerkleOK(sample.ids, Pow!MerkleRoot(ids))
               PROVE  ids = sample.ids
    BY DEF RootBinds
  <2>1. ids \in IdLists /\ sample.ids \in IdLists
    BY DEF SampleOK, Sampled, Nothing, Unmutated
  <2>2. \A a \in IdLists : a # <<>> => IsLeaves(a) /\ Len(a) > 0
    <3> SUFFICES ASSUME NEW a \in IdLists, a # <<>> PROVE IsLeaves(a) /\ Len(a) > 0
      OBVIOUS
    <3>1. IsList(a) /\ \A i \in DOMAIN a : a[i] = Pow!Leaf(a[i][1])
      BY IdListsAssumption
    <3>2. Len(a) # 0
      <4> SUFFICES ASSUME Len(a) = 0 PROVE FALSE
        OBVIOUS
      <4>1. a = [i \in 1..0 |-> a[i]]
        BY <3>1 DEF IsList
      <4> QED
        BY <4>1
    <3> QED
      BY <3>1, <3>2 DEF IsLeaves, IsList
  <2>3. /\ ids # <<>> /\ ~Pow!Mutated(ids)
        /\ sample.ids # <<>> /\ ~Pow!Mutated(sample.ids)
        /\ Pow!MerkleRoot(sample.ids) = Pow!MerkleRoot(ids)
    BY DEF Unmutated, Pow!MerkleOK
  <2> QED
    BY <2>1, <2>2, <2>3, RootOfOne
<1> QED
  BY <1>1, SampleKept, PTL

\* In a transaction that the parser of the attribution holds, an input is attributed
\* exactly when it is spent for its identity; deleting a signature from a script code
\* takes away its pushes and no other byte (attrib.c:92-113, 203-270).  TxIns is
\* bounded because a longer transaction is not attributed at all.
THEOREM AttributedIfHeld ==
  ASSUME TxIns \in 1..MaxIn, MaxIn \in Nat
  PROVE  AlgSpec => []Attributed
<1>1. SampleOK => Attributed
  <2> SUFFICES ASSUME SampleOK PROVE Attributed
    OBVIOUS
  <2>1. ASSUME sample.of = "script"
        PROVE  LET tx == [ins |-> [i \in 1..TxIns |-> sample.ss], outs |-> <<>>]
               IN  (Attr!Attribute(tx, 1).id # Unsigned) <=> Attr!SpentBy(sample.ss)
    <3>1. sample.ss \in Scripts
      BY <2>1 DEF SampleOK, Sampled, Nothing
    <3> QED
      BY <3>1, AttributedIfSpent
  <2>2. ASSUME sample.of = "code"
        PROVE  LET pat == Attr!EmitPush(sample.data)
               IN  Attr!FindAndDelete(sample.code, pat) = Attr!Without(sample.code, pat)
    <3>1. sample.code \in Codes /\ sample.data \in Datas
      BY <2>2 DEF SampleOK, Sampled, Nothing
    <3>2. sample.code \in Seq(Nat) /\ sample.data \in Seq(Nat) /\ PushData \in Nat
      BY <3>1, CodesAssumption, ListIsSeq
    <3> QED
      BY <3>2, DeletesPushes
  <2> QED
    BY <2>1, <2>2 DEF Attributed
<1> QED
  BY <1>1, SampleKept, PTL

\* The fold acts for the same identities as if every input had been attributed,
\* whatever the transaction and its carriers: what the adapter leaves out is never
\* looked up (adapter.c:60-80).
THEOREM LazyIsEnough == AlgSpec => []LazyEnough
<1>1. LazyEnough
  <2> DEFINE tx == [ins |-> sample.ins, outs |-> sample.outs]
  <2>1. Attr!Adapted(tx).carriers = Attr!Carriers(tx)
    BY DEF Attr!Adapted
  <2>2. Actors(Attr!Adapted(tx).inputs, Attr!Carriers(tx))
          = Actors([k \in DOMAIN tx.ins |-> Attr!Attribute(tx, k)], Attr!Carriers(tx))
    BY ActorsSame
  <2> QED
    BY <2>1, <2>2 DEF LazyEnough
<1> QED
  BY <1>1, PTL

\* A payload has one reading at most, which laid out is that payload again, and no two
\* scripts carry the same payload (decode.c:23-118, chain.c:70-89).
THEOREM FormIsOne == AlgSpec => []OneForm
<1>1. SampleOK => OneForm
  <2> SUFFICES ASSUME SampleOK PROVE OneForm
    OBVIOUS
  <2>1. ASSUME sample.of = "payload"
        PROVE  LET p == [mark |-> TRUE, op |-> sample.op, body |-> sample.body]
               IN  /\ Cardinality(Load!Decode(p)) <= 1
                   /\ \A a \in Load!Decode(p) : Load!Encode(a) = p
    <3> DEFINE op == sample.op
               body == sample.body
               S == {body[i] : i \in DOMAIN body}
               Reading(form) ==
                 [op     |-> op,
                  fields |-> [i \in DOMAIN form.fixed |-> Load!Field(form.fixed, i, body)],
                  tail   |-> SubSeq(body, Load!Width(form.fixed) + 1, Len(body))]
               fitting == {form \in Load!Forms(op) : Load!Fits(form, body)}
               p == [mark |-> TRUE, op |-> op, body |-> body]
    <3>1. op \in Load!Opcodes /\ body \in Bodies
      BY <2>1 DEF SampleOK, Sampled, Nothing
    <3>2. body \in Seq(S)
      <4>1. IsList(body) /\ \A i \in DOMAIN body : body[i] \in S
        BY <3>1, PayloadsAssumption
      <4> HIDE DEF S, body
      <4> QED
        BY <4>1, ListIsSeq
    <3> HIDE DEF op, body, S
    <3>3. Load!Decode(p) = {Reading(form) : form \in fitting}
      BY <3>1 DEF Load!Decode, Load!Readings
    <3>4. \A f, g \in fitting : f = g
      BY <3>1, <3>2, OneFits
    <3>5. Cardinality(Load!Decode(p)) <= 1
      <4>1. Load!Decode(p) = {} \/ \E x : Load!Decode(p) = {x}
        <5> HIDE DEF fitting, Reading
        <5> QED
          BY <3>3, <3>4
      <4> DEFINE D == Load!Decode(p)
      <4> HIDE DEF D
      <4>2. CASE D = {}
        <5>1. Cardinality(D) = 0
          BY <4>2, FS_EmptySet
        <5> QED
          BY <5>1 DEF D
      <4>3. ASSUME NEW x, D = {x} PROVE Cardinality(D) = 1
        BY <4>3, FS_Singleton
      <4>4. CASE \E x : D = {x}
        <5>1. Cardinality(D) = 1
          BY <4>3, <4>4
        <5> QED
          BY <5>1 DEF D
      <4> QED
        BY <4>1, <4>2, <4>4 DEF D
    <3>6. ASSUME NEW form \in fitting PROVE Load!Encode(Reading(form)) = p
      <4>1. Load!FlattenSeq([i \in DOMAIN form.fixed |-> Load!Field(form.fixed, i, body)])
              \o SubSeq(body, Load!Width(form.fixed) + 1, Len(body)) = body
        BY <3>1, <3>2, ReadsBack
      <4> QED
        BY <4>1 DEF Load!Encode
    <3>7. \A a \in Load!Decode(p) : Load!Encode(a) = p
      <4> HIDE DEF fitting, Reading, p
      <4> QED
        BY <3>3, <3>6
    <3> QED
      BY <3>5, <3>7 DEF op, body
  <2>2. ASSUME sample.of = "spk",
               NEW data \in Load!Extract(sample.spk), NEW other \in Spks,
               data \in Load!Extract(other)
        PROVE  other = sample.spk
    <3>1. sample.spk \in Spks
      BY <2>2 DEF SampleOK, Sampled, Nothing
    <3>2. ASSUME NEW spk \in Spks, data \in Load!Extract(spk)
          PROVE  \/ spk = [class |-> "bare", length |-> 0, data |-> <<>>] /\ data = <<>>
                 \/ /\ spk = [class |-> spk.class, length |-> Len(data), data |-> data]
                    /\ Load!PushOK(spk.class, Len(data))
      BY <3>2, PayloadsAssumption DEF Load!Extract
    <3>3. ASSUME NEW c, NEW d, Load!PushOK(c, Len(data)), Load!PushOK(d, Len(data))
          PROVE  c = d /\ Len(data) # 0
      <4> DEFINE l == Len(data)
      <4>1. /\ OneByte \in Nat /\ TwoBytes \in Nat /\ MaxPayload \in Nat
            /\ 0 < OneByte /\ OneByte <= TwoBytes
        BY FieldsAssumption
      <4>2. ASSUME NEW e, Load!PushOK(e, l)
            PROVE  \/ e = "direct" /\ l \in 1..(OneByte - 1)
                   \/ e = "data1" /\ l \in OneByte..(TwoBytes - 1)
                   \/ e = "data2" /\ l \in TwoBytes..MaxPayload
        BY <4>2 DEF Load!PushOK
      <4>3. /\ Load!PushOK(c, l) /\ Load!PushOK(d, l)
        BY <3>3
      <4> HIDE DEF l
      <4>4. c = d /\ l # 0
        BY <4>1, <4>2, <4>3
      <4> QED
        BY <4>4 DEF l
    <3>4. Len(<<>>) = 0
      OBVIOUS
    <3> QED
      BY <2>2, <3>1, <3>2, <3>3, <3>4
  <2> QED
    BY <2>1, <2>2 DEF OneForm
<1> QED
  BY <1>1, SampleKept, PTL

\* A compact target loses nothing and never grows; the target after it is monotone in the
\* solve time, between the clamps but for the digits lost, and not above the limit; and its
\* work is the rounded quotient (pow.c:111-212).
THEOREM TargetIsKept == AlgSpec => []TargetsKept
<1>1. SampleOK => TargetsKept
  <2> SUFFICES ASSUME SampleOK, sample.of = "target" PROVE TargetsKept
    BY DEF TargetsKept
  <2>1. sample.bits \in Nat /\ sample.limit \in Nat /\ Times \subseteq Int
    <3>1. sample.bits \in Compacts /\ sample.limit \in Limits
      BY DEF SampleOK, Sampled, Nothing
    <3> QED
      BY <3>1, TargetsAssumption
  <2>2. PICK t \in Nat : t = Pow!BitsToTarget(sample.bits) /\ t < HalfTop
    BY <2>1, TargetIs
  <2>3. PICK most \in Nat : most = Pow!BitsToTarget(sample.limit) /\ most < HalfTop
    BY <2>1, TargetIs
  <2>4. Pow!Work(sample.bits) = IF t = 0 THEN 0 ELSE Pow!Top \div (t + 1)
    BY <2>1, <2>2, WorkIs
  <2>5. t - Pow!BitsToTarget(Pow!TargetToBits(t)) = 0
    <3>1. Rounded(t) = t
      BY <2>1, <2>2, RoundsItself
    <3> QED
      BY <3>1 DEF Rounded
  <2> DEFINE After(time) == Pow!BitsToTarget(Pow!NextBits(sample.bits, time, sample.limit))
             least == (Fastest * t) \div Spacing
  <2>6. ASSUME t \in 1..most, NEW time \in Times
        PROVE  /\ After(time) <= most
               /\ Spacing * After(time) <= Slowest * t
               /\ After(time) >= least - (least - Pow!BitsToTarget(Pow!TargetToBits(least)))
               /\ \A later \in Times : time <= later => After(time) <= After(later)
    <3>1. ASSUME NEW when \in Int PROVE After(when) = Rounded(Capped(t, when, most))
      <4>1. Pow!BitsToTarget(sample.bits) # 0 /\ Pow!BitsToTarget(sample.limit) # 0
        BY <2>2, <2>3, <2>6
      <4> QED
        BY <2>1, <2>2, <2>3, <4>1, NextIs
    <3> HIDE DEF After
    <3>2. t <= most /\ time \in Int
      BY <2>1, <2>6
    <3>3. /\ After(time) \in Nat /\ After(time) <= most /\ Spacing * After(time) <= Slowest * t
          /\ least \in Nat /\ Rounded(least) <= After(time)
          /\ \A later \in Int : time <= later => After(time) <= Rounded(Capped(t, later, most))
      BY <2>3, <3>1, <3>2, Follows
    <3>4. \A later \in Times : time <= later => After(time) <= After(later)
      BY <2>1, <3>1, <3>3
    <3>5. After(time) >= least - (least - Pow!BitsToTarget(Pow!TargetToBits(least)))
      <4>1. PICK l \in Nat : l = least
        BY <3>3
      <4>2. l < HalfTop
        <5>1. l <= t /\ HalfTop \in Nat
          BY <3>2, <4>1, WideIs, Halves
        <5> QED
          BY <2>2, <5>1
      <4>3. PICK r \in Nat : r = Rounded(l)
        BY <4>2, RoundsDown
      <4>4. After(time) \in Nat
        BY <3>3
      <4> HIDE DEF least
      <4>5. l - (l - r) = r
        OBVIOUS
      <4> QED
        BY <3>3, <4>1, <4>3, <4>4, <4>5 DEF Rounded
    <3> QED
      BY <3>3, <3>4, <3>5
  <2> HIDE DEF After
  <2> QED
    BY <2>2, <2>3, <2>4, <2>5, <2>6 DEF TargetsKept, After
<1> QED
  BY <1>1, SampleKept, PTL

\* The medians the fold is given for a block are those of the chain below it, whatever
\* reorganisations and repeated blocks the feed has seen (oracle.c:18-57,
\* oracle_feed.c:33-67).
THEOREM RateIsOfChain == AlgSpec => []RateOfChain
<1>1. SampleOK => RateOfChain
  <2> SUFFICES ASSUME SampleOK, sample.of = "feed", NEW h \in Heights
               PROVE  LET feed == FeedAfter(sample.calls)
                          chain == ChainOf(sample.calls)
                      IN  /\ Feed!IsMedianTime(Feed!MedianTime(feed, h), chain, h)
                          /\ Feed!IsRate(Feed!Rate(feed, h), chain, h)
    BY DEF RateOfChain
  <2>1. sample.calls \in Histories
    BY DEF SampleOK, Sampled, Nothing
  <2>2. PICK n : FeedIs(FeedAfter(sample.calls), ChainOf(sample.calls), n)
    BY <2>1, FeedOfChain DEF FeedHolds
  <2>3. h \in Int
    BY HistoriesAssumption
  <2> QED
    BY <2>2, <2>3, MedianIs, RateIs
<1> QED
  BY <1>1, SampleKept, PTL

\* After every way back the tables are those of the chain that survives, for chains of
\* every length: rows written twice, cut and written again say what one pass says
\* (sync.c:169-174, 191-220, 983-1008, db.c:408-423, 512-621).
THEOREM HistoryIsOfChain == AlgSpec => []HistoryOfChain
<1>1. SampleOK => HistoryOfChain
  <2> SUFFICES ASSUME SampleOK, sample.of = "history" PROVE HistoryOfChain
    BY DEF HistoryOfChain
  <2>1. /\ sample.first \in Firsts /\ sample.rest \in Rests /\ sample.at \in 0..Len(sample.first)
        /\ sample.how \in {"rollback", "resume", "refold", "rewalk"}
        /\ sample.how \in {"refold", "rewalk"} => sample.at = Len(sample.first)
        /\ Payable(Survivors(sample))
    BY DEF SampleOK, Sampled, Nothing
  <2>2. /\ AreBlocks(sample.first) /\ AreBlocks(sample.rest) /\ Payable(sample.first)
    BY <2>1, BlocksAssumption DEF AreBlocks
  <2>3. Paying(sample.first)
    BY <2>2, Pays
  <2> DEFINE C == Survivors(sample)
             coming == Coming(sample)
             back == Back(sample)
             node == Past!Extended(back, coming)
             T == Horizon(sample)
             k == Fork(sample)
             StateOf(h) == Standing(Until(C, h)).state
  <2>4. AreBlocks(coming) /\ k \in 0..Len(sample.first) /\ T \in Int /\ T <= k /\ Regains(back, C, T, k)
    BY <2>1, <2>2, <2>3, BackRegains
  <2>5. IsChain(C, sample.first, k, coming)
    BY DEF Survivors, Fork, IsChain
  <2>6. Payable(C)
    BY <2>1
  <2> HIDE DEF C, coming, back, T, k, node
  <2>7. /\ \A h \in 0..Len(C) : \A n : Answers(node, n, h, StateOf(KnownAt(C, T, h)))
        /\ Past!Unspent(node.db) = Unspents(C)
    <3>1. node = Past!Extended(back, coming)
      BY DEF node
    <3>2. Answered(node, C, T)
      BY <2>2, <2>4, <2>5, <2>6, <3>1, TablesAfter
    <3> QED
      BY <3>2 DEF Answered
  <2>8. ASSUME NEW h \in 0..Len(C)
        PROVE  (IF sample.how = "refold" /\ h <= Len(sample.first) THEN Replayed(C, h) ELSE h)
                 = KnownAt(C, T, h)
    <3>1. Len(C) \in Nat
      <4>1. AreBlocks(C)
        BY <2>2, <2>4, <2>5, ChainIs
      <4> QED
        BY <4>1, BlocksAre
    <3>2. ~(h <= -1)
      BY <3>1
    <3> QED
      BY <3>2 DEF KnownAt, T, Horizon
  <2>9. ASSUME NEW h \in 0..Len(C), NEW n \in Titles
        PROVE  Past!OwnerAt(node.db, node.state, n, h)
                 = [m \in Titles |-> IF Past!Holds(StateOf(KnownAt(C, T, h)), m)
                                     THEN StateOf(KnownAt(C, T, h))[m].owner ELSE Unheld][n]
    <3>1. PICK s : s = StateOf(KnownAt(C, T, h))
      OBVIOUS
    <3>2. Answers(node, n, h, s)
      BY <2>7, <3>1
    <3>3. Past!OwnerAt(node.db, node.state, n, h)
            = [m \in Titles |-> IF Past!Holds(s, m) THEN s[m].owner ELSE Unheld][n]
      BY <3>2 DEF Answers, Past!Holds
    <3> HIDE DEF StateOf
    <3> QED
      BY <3>1, <3>3, Zenon
  <2>10. Past!Unspent(node.db) = {c \in Coins(C) : Spends(C, c) = {}}
    BY <2>7 DEF Unspents
  <2> QED
    BY <2>8, <2>9, <2>10, Zenon DEF HistoryOfChain, C, coming, back, node
<1> QED
  BY <1>1, SampleKept, PTL
=============================================================================
