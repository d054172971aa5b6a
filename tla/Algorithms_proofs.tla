-------------------------- MODULE Algorithms_proofs --------------------------
(***************************************************************************)
(* Proofs about Algorithms: what the functions return for every argument   *)
(* that the constants allow.                                               *)
(***************************************************************************)
EXTENDS Algorithms, FiniteSetTheorems, SequenceTheorems, WellFoundedInduction, TLAPS

----------------------------------------------------------------------------
(* Numbers: induction, powers of 2, quotients and remainders.              *)

\* A set of numbers that is not empty has a least one.
LEMMA Least ==
  ASSUME NEW T \in SUBSET Nat, T # {}
  PROVE  \E x \in T : \A y \in T : x <= y
<1>1. \E x \in T : \A y \in T : ~(<<y, x>> \in OpToRel(<, Nat))
  BY NatLessThanWellFounded, WFMin, Zenon
<1>2. PICK x \in T : \A y \in T : ~(y < x)
  BY <1>1, Zenon DEF OpToRel
<1> QED  BY <1>2

\* What holds for 0, and for the next number with every one, holds for all numbers.
LEMMA Inductive ==
  ASSUME NEW S, 0 \in S, \A n \in Nat : n \in S => n + 1 \in S
  PROVE  \A n \in Nat : n \in S
<1> DEFINE T == Nat \ S
<1> SUFFICES ASSUME T # {} PROVE FALSE
  OBVIOUS
<1>1. PICK x \in T : \A y \in T : x <= y
  BY Least
<1>2. x # 0 /\ x \in Nat /\ x \notin S
  OBVIOUS
<1>3. x - 1 \in Nat /\ (x - 1) + 1 = x /\ ~(x <= x - 1)
  BY <1>2
<1>4. x - 1 \in S
  BY <1>1, <1>3
<1> QED  BY <1>2, <1>3, <1>4

\* There is a function as Pow2 is defined: every beginning of it can be extended.
LEMMA PowersExist ==
  \E f : f = [n \in Nat |-> IF n = 0 THEN 1 ELSE 2 * f[n - 1]]
<1> DEFINE Begins(g, m) == /\ g = [n \in 0..m |-> g[n]]
                           /\ g[0] = 1 /\ \A n \in 1..m : g[n] = 2 * g[n - 1]
           S == {m \in Nat : \E g : Begins(g, m)}
<1>1. 0 \in S
  <2>1. Begins([n \in 0..0 |-> 1], 0)  OBVIOUS
  <2> QED  BY <2>1
<1>2. ASSUME NEW m \in Nat, m \in S PROVE m + 1 \in S
  <2>1. PICK g : Begins(g, m)  BY <1>2
  <2> DEFINE h == [n \in 0..(m + 1) |-> IF n = m + 1 THEN 2 * g[m] ELSE g[n]]
  <2>2. h[0] = 1 /\ \A n \in 1..(m + 1) : h[n] = 2 * h[n - 1]
    <3>1. h[0] = 1  BY <2>1
    <3>2. ASSUME NEW n \in 1..(m + 1) PROVE h[n] = 2 * h[n - 1]
      <4>1. CASE n = m + 1
        <5>1. n - 1 = m /\ m # m + 1 /\ m \in 0..(m + 1) /\ n \in 0..(m + 1)  BY <4>1
        <5> QED  BY <4>1, <5>1
      <4>2. CASE n # m + 1
        <5>1. /\ n \in 1..m /\ n \in 0..(m + 1) /\ n - 1 \in 0..(m + 1)
              /\ n - 1 # m + 1
          BY <4>2
        <5>2. h[n] = g[n] /\ h[n - 1] = g[n - 1]  BY <4>2, <5>1
        <5> QED  BY <2>1, <5>1, <5>2
      <4> QED  BY <4>1, <4>2
    <3> QED  BY <3>1, <3>2
  <2>3. h = [n \in 0..(m + 1) |-> h[n]]  OBVIOUS
  <2> HIDE DEF h
  <2>4. Begins(h, m + 1)  BY <2>2, <2>3
  <2>5. m + 1 \in Nat  OBVIOUS
  <2> HIDE DEF Begins
  <2> QED  BY <2>4, <2>5
<1> HIDE DEF S
<1>3. \A m \in Nat : m \in S  BY <1>1, <1>2, Inductive
<1> DEFINE Of(m) == CHOOSE g : Begins(g, m)
<1>4. ASSUME NEW m \in Nat PROVE Begins(Of(m), m)
  <2>1. \E g : Begins(g, m)  BY <1>3 DEF S
  <2> HIDE DEF Begins
  <2> QED  BY <2>1
<1> HIDE DEF Of
\* Two beginnings agree.
<1>5. ASSUME NEW m \in Nat PROVE Of(m + 1)[m] = Of(m)[m]
  <2> DEFINE A == {n \in Nat : n <= m => Of(m + 1)[n] = Of(m)[n]}
  <2>1. Begins(Of(m), m) /\ Begins(Of(m + 1), m + 1)
    <3>1. m + 1 \in Nat  OBVIOUS
    <3> HIDE DEF Begins
    <3> QED  BY <1>4, <3>1
  <2>2. 0 \in A  BY <2>1
  <2>3. ASSUME NEW n \in Nat, n \in A PROVE n + 1 \in A
    <3> SUFFICES ASSUME n + 1 <= m PROVE Of(m + 1)[n + 1] = Of(m)[n + 1]
      OBVIOUS
    <3>1. n + 1 \in 1..m /\ n + 1 \in 1..(m + 1) /\ (n + 1) - 1 = n /\ n <= m  OBVIOUS
    <3> QED  BY <2>1, <2>3, <3>1
  <2> HIDE DEF A
  <2>4. m \in A  BY <2>2, <2>3, Inductive
  <2> QED  BY <2>4 DEF A
<1> DEFINE f == [n \in Nat |-> Of(n)[n]]
<1>6. ASSUME NEW n \in Nat PROVE f[n] = IF n = 0 THEN 1 ELSE 2 * f[n - 1]
  <2>1. CASE n = 0
    BY <1>4, <2>1
  <2>2. CASE n # 0
    <3>1. n - 1 \in Nat /\ (n - 1) + 1 = n /\ n \in 1..n  BY <2>2
    <3>2. Of(n)[n] = 2 * Of(n)[n - 1]  BY <1>4, <3>1
    <3>3. Of(n)[n - 1] = Of(n - 1)[n - 1]  BY <1>5, <3>1
    <3> QED  BY <2>2, <3>1, <3>2, <3>3
  <2> QED  BY <2>1, <2>2
<1>7. f = [n \in Nat |-> f[n]]  OBVIOUS
<1> HIDE DEF f
<1>8. f = [n \in Nat |-> IF n = 0 THEN 1 ELSE 2 * f[n - 1]]  BY <1>6, <1>7
<1> QED  BY <1>8

\* The powers of 2.
LEMMA Powers ==
  /\ Pow2[0] = 1
  /\ \A n \in Nat : Pow2[n] \in Nat \ {0} /\ Pow2[n + 1] = 2 * Pow2[n] /\ n < Pow2[n]
<1>1. Pow2 = [n \in Nat |-> IF n = 0 THEN 1 ELSE 2 * Pow2[n - 1]]
  <2> DEFINE IsPow(f) == f = [n \in Nat |-> IF n = 0 THEN 1 ELSE 2 * f[n - 1]]
  <2>1. Pow2 = CHOOSE f : IsPow(f)  BY Zenon DEF Pow2
  <2>2. \E f : IsPow(f)  BY PowersExist
  <2> HIDE DEF IsPow
  <2>3. IsPow(Pow2)  BY <2>1, <2>2
  <2> QED  BY <2>3 DEF IsPow
<1>2. \A n \in Nat : Pow2[n] = IF n = 0 THEN 1 ELSE 2 * Pow2[n - 1]
  BY <1>1
<1>3. Pow2[0] = 1 /\ \A n \in Nat : Pow2[n + 1] = 2 * Pow2[n]
  <2>1. \A n \in Nat : n + 1 \in Nat /\ n + 1 # 0 /\ (n + 1) - 1 = n  OBVIOUS
  <2> QED  BY <1>2, <2>1
<1> DEFINE S == {n \in Nat : Pow2[n] \in Nat \ {0} /\ n < Pow2[n]}
<1>4. 0 \in S  BY <1>3
<1>5. \A n \in Nat : n \in S => n + 1 \in S
  BY <1>3
<1> HIDE DEF S
<1>6. \A n \in Nat : n \in S  BY <1>4, <1>5, Inductive
<1> QED  BY <1>3, <1>6 DEF S

\* Products of powers.
LEMMA PowerOfSum ==
  ASSUME NEW a \in Nat, NEW b \in Nat
  PROVE  Pow2[a + b] = Pow2[a] * Pow2[b]
<1> DEFINE S == {n \in Nat : Pow2[a + n] = Pow2[a] * Pow2[n]}
<1>1. 0 \in S
  <2>1. Pow2[a] \in Nat /\ a + 0 = a  BY Powers
  <2> QED  BY <2>1, Powers
<1>2. ASSUME NEW n \in Nat, n \in S PROVE n + 1 \in S
  <2>1. a + n \in Nat /\ a + (n + 1) = (a + n) + 1  OBVIOUS
  <2>2. Pow2[a + (n + 1)] = 2 * Pow2[a + n] /\ Pow2[n + 1] = 2 * Pow2[n]  BY <2>1, Powers
  <2>3. Pow2[a] \in Nat /\ Pow2[n] \in Nat  BY Powers
  <2>4. \A x, y \in Nat : 2 * (x * y) = x * (2 * y)  OBVIOUS
  <2> QED  BY <1>2, <2>2, <2>3, <2>4
<1> HIDE DEF S
<1>3. b \in S  BY <1>1, <1>2, Inductive
<1> QED  BY <1>3 DEF S

\* The order of powers.
LEMMA PowerOrder ==
  ASSUME NEW a \in Nat, NEW b \in Nat, a < b
  PROVE  2 * Pow2[a] <= Pow2[b] /\ Pow2[a] < Pow2[b]
<1> DEFINE c == b - (a + 1)
<1>1. c \in Nat /\ b = (a + 1) + c /\ a + 1 \in Nat  OBVIOUS
<1> HIDE DEF c
<1>2. Pow2[b] = Pow2[a + 1] * Pow2[c] /\ Pow2[a + 1] = 2 * Pow2[a]
  BY <1>1, PowerOfSum, Powers
<1>3. Pow2[a] \in Nat \ {0} /\ Pow2[c] \in Nat \ {0}  BY <1>1, Powers
<1>4. \A x, y \in Nat \ {0} : 2 * x <= (2 * x) * y  OBVIOUS
<1> QED  BY <1>2, <1>3, <1>4

\* The quotient and the remainder are the only ones.
LEMMA Quotients ==
  ASSUME NEW d \in Nat \ {0}, NEW q \in Nat, NEW r \in 0..(d - 1)
  PROVE  (q * d + r) \div d = q /\ (q * d + r) % d = r
<1>1. d \in Nat /\ r \in Nat /\ d > r  OBVIOUS
<1>2. (q * d + r) \div d = q  BY <1>1
<1>3. (q * d + r) % d = r  BY <1>1
<1> QED  BY <1>2, <1>3

\* Every number is one with a quotient and a remainder.
LEMMA Remainders ==
  ASSUME NEW d \in Nat \ {0}, NEW n \in Nat
  PROVE  /\ n \div d \in Nat /\ n % d \in 0..(d - 1)
         /\ n = ((n \div d) * d) + (n % d)
<1>1. n \div d \in Nat /\ n % d \in 0..(d - 1)  OBVIOUS
<1>2. d * (n \div d) <= n /\ n < d * (n \div d) + d  OBVIOUS
<1> DEFINE q == n \div d
           r == n - q * d
<1>3. q \in Nat /\ d * q = q * d /\ q * d \in Nat  BY <1>1
<1>4. r \in 0..(d - 1) /\ n = q * d + r
  <2>1. d * q <= n /\ n < d * q + d  BY <1>2
  <2> HIDE DEF q
  <2> QED  BY <1>3, <2>1
<1> HIDE DEF q, r
<1>5. n % d = r  BY <1>3, <1>4, Quotients
<1> QED  BY <1>1, <1>4, <1>5 DEF q

----------------------------------------------------------------------------
(* Time periods.                                                           *)

\* The widths, and the numbers that fit into them.
LEMMA Widths ==
  /\ MantissaBits \in Nat /\ ExponentBits \in Nat /\ MaskBits \in Nat /\ ClockBits \in Nat
  /\ MantissaBits > 1 /\ ExponentBits > 1
  /\ MantissaBits + 1 < MaskBits /\ MaskBits < ClockBits
  /\ MaxLog2 \in Nat /\ MantissaBits < MaxLog2 /\ MaxLog2 < ClockBits
  /\ Mantissas = Pow2[MantissaBits] /\ Mantissas \in Nat \ {0} /\ Mantissas > 1
  /\ Pow2[MantissaBits + ExponentBits] = Pow2[ExponentBits] * Mantissas
  /\ MaxLog2 = (MantissaBits - 1) + (Pow2[ExponentBits] - 1)
<1>1. /\ MantissaBits \in Nat /\ ExponentBits \in Nat /\ MaskBits \in Nat /\ ClockBits \in Nat
      /\ MantissaBits > 1 /\ ExponentBits > 1
      /\ MantissaBits + 1 < MaskBits /\ MaskBits < ClockBits /\ MaxLog2 < ClockBits
  BY WidthAssumption
<1>2. MaxLog2 = (MantissaBits - 1) + (Pow2[ExponentBits] - 1)  BY DEF MaxLog2
<1>3. Pow2[ExponentBits] \in Nat /\ ExponentBits < Pow2[ExponentBits]  BY <1>1, Powers
<1>4. MaxLog2 \in Nat /\ MantissaBits < MaxLog2  BY <1>1, <1>2, <1>3
<1>5. /\ Mantissas = Pow2[MantissaBits] /\ Mantissas \in Nat \ {0} /\ MantissaBits < Mantissas
  BY <1>1, Powers DEF Mantissas
<1>6. Pow2[MantissaBits + ExponentBits] = Pow2[ExponentBits] * Mantissas
  <2>1. Pow2[MantissaBits + ExponentBits] = Mantissas * Pow2[ExponentBits]
    BY <1>1, <1>5, PowerOfSum
  <2>2. \A x, y \in Nat : x * y = y * x  OBVIOUS
  <2> QED  BY <1>3, <1>5, <2>1, <2>2
<1>7. Mantissas > 1  BY <1>1, <1>5
<1> QED  BY <1>1, <1>2, <1>4, <1>5, <1>6, <1>7

\* The logarithm of a number that fits into a clock.
LEMMA LogIs ==
  ASSUME NEW n \in Nat, 0 < n, n < Pow2[ClockBits]
  PROVE  /\ Log2(n) \in 0..(ClockBits - 1)
         /\ Pow2[Log2(n)] <= n /\ n < Pow2[Log2(n) + 1]
<1> DEFINE T == {k \in Nat : n < Pow2[k + 1]}
           Fits(k) == Pow2[k] <= n /\ n < Pow2[k + 1]
<1>1. ClockBits - 1 \in T
  <2>1. ClockBits - 1 \in Nat /\ (ClockBits - 1) + 1 = ClockBits  BY Widths
  <2> QED  BY <2>1
<1>2. PICK x \in T : \A y \in T : x <= y  BY <1>1, Least
<1>3. x \in 0..(ClockBits - 1) /\ x \in 0..ClockBits
  <2>1. x <= ClockBits - 1  BY <1>1, <1>2
  <2> QED  BY <2>1, Widths
<1>4. Fits(x)
  <2>1. n < Pow2[x + 1]  OBVIOUS
  <2>2. CASE x = 0
    BY <2>1, <2>2, Powers
  <2>3. CASE x # 0
    <3>1. x - 1 \in Nat /\ (x - 1) + 1 = x /\ ~(x <= x - 1)  BY <2>3
    <3>2. x - 1 \notin T  BY <1>2, <3>1
    <3>3. ~(n < Pow2[x]) /\ Pow2[x] \in Nat  BY <3>1, <3>2, Powers
    <3> QED  BY <2>1, <3>3
  <2> QED  BY <2>2, <2>3
<1> HIDE DEF T
<1>5. Log2(n) = CHOOSE k \in 0..ClockBits : Fits(k)  BY Zenon DEF Log2
<1>6. Log2(n) \in 0..ClockBits /\ Fits(Log2(n))
  <2> HIDE DEF Fits
  <2> QED  BY <1>3, <1>4, <1>5
<1>7. Log2(n) # ClockBits
  <2>1. Log2(n) = ClockBits => ~(n < Pow2[ClockBits])
    <3>1. Pow2[ClockBits] \in Nat  BY Widths, Powers
    <3> QED  BY <1>6, <3>1
  <2> QED  BY <2>1
<1> QED  BY <1>6, <1>7, Widths

\* What a relative period says.
LEMMA Expanded ==
  ASSUME NEW s \in Nat, s < Pow2[ExponentBits], NEW q \in 0..(Mantissas - 1),
         NEW p, p = (s * Mantissas) + q,
         q * Pow2[s] < Pow2[ClockBits]
  PROVE  /\ Relative(p) /\ p \in Nat /\ TimeExpandPeriodBase(p, 0) = q * Pow2[s]
<1>1. Mantissas \in Nat \ {0} /\ q \in Nat /\ Pow2[s] \in Nat /\ Pow2[ExponentBits] \in Nat
      /\ Pow2[ClockBits] \in Nat \ {0}
  BY Widths, Powers
<1>2. p \div Mantissas = s /\ p % Mantissas = q  BY <1>1, Quotients
<1>3. p \in Nat  BY <1>1
<1>4. Relative(p)
  <2> DEFINE m == Mantissas
             e == Pow2[ExponentBits]
  <2>1. m \in Nat \ {0} /\ e \in Nat /\ s + 1 <= e /\ q < m  BY <1>1
  <2>2. Pow2[MantissaBits + ExponentBits] = e * m  BY Widths
  <2> HIDE DEF m, e
  <2>3. (s + 1) * m <= e * m
    <3>1. \A x, y, z \in Nat : x <= y => x * z <= y * z  OBVIOUS
    <3> QED  BY <2>1, <3>1
  <2>4. (s + 1) * m = s * m + m /\ s * m \in Nat /\ e * m \in Nat  BY <2>1
  <2>5. p < e * m
    <3>1. p = (s * m) + q  BY DEF m
    <3> QED  BY <1>1, <2>1, <2>3, <2>4, <3>1
  <2> QED  BY <2>2, <2>5 DEF Relative
<1>5. TimeExpandPeriodBase(p, 0) = Wrapped(0 + q * Pow2[s])
  BY <1>2, <1>4 DEF TimeExpandPeriodBase, Mantissa
<1>6. q * Pow2[s] \in Nat /\ 0 + q * Pow2[s] = q * Pow2[s]  BY <1>1
<1>7. Wrapped(q * Pow2[s]) = q * Pow2[s]
  <2> DEFINE x == q * Pow2[s]
             c == Pow2[ClockBits]
  <2>1. x \in 0..(c - 1) /\ c \in Nat \ {0}  BY <1>1, <1>6
  <2> HIDE DEF x, c
  <2>2. (0 * c) + x = x  BY <2>1
  <2>3. x % c = x  BY <2>1, <2>2, Quotients
  <2> QED  BY <2>3 DEF Wrapped, x, c
<1> QED  BY <1>3, <1>4, <1>5, <1>6, <1>7

\* The period that TimeMakePeriod makes of n is expanded to that or a little less.
Close(n, p) ==
  /\ Relative(p)
  /\ (p = TIME_PEROID_INFINITE) = (n >= Pow2[MaxLog2 + 1])
  /\ \/ p = TIME_PEROID_INFINITE
     \/ n = 0 /\ TimeExpandPeriodBase(p, 0) = 0
     \/ /\ TimeExpandPeriodBase(p, 0) <= n
        /\ (n - TimeExpandPeriodBase(p, 0)) * Pow2[MantissaBits - 1] < n

\* Zero.
LEMMA MadeOfZero == Close(0, TimeMakePeriod(0))
<1>1. TimeMakePeriod(0) = Mantissas
  <2>1. ~(0 > 0)  OBVIOUS
  <2> QED  BY <2>1, Zenon DEF TimeMakePeriod, TIME_PEROID_ZERO
<1>2. /\ Mantissas \in Nat \ {0} /\ 1 < Pow2[ExponentBits] /\ Pow2[ClockBits] \in Nat \ {0}
      /\ Pow2[MaxLog2 + 1] \in Nat \ {0} /\ Pow2[1] \in Nat
  <2>1. ExponentBits \in Nat /\ ExponentBits > 1 /\ ClockBits \in Nat /\ MaxLog2 + 1 \in Nat
    BY Widths
  <2>2. ExponentBits < Pow2[ExponentBits] /\ Pow2[ExponentBits] \in Nat  BY <2>1, Powers
  <2> QED  BY <2>1, <2>2, Widths, Powers
<1>3. 0 \in 0..(Mantissas - 1) /\ Mantissas = (1 * Mantissas) + 0 /\ 0 * Pow2[1] = 0
  BY <1>2
<1>4. Relative(Mantissas) /\ TimeExpandPeriodBase(Mantissas, 0) = 0
  BY <1>2, <1>3, Expanded
<1>5. (Mantissas = TIME_PEROID_INFINITE) = (0 >= Pow2[MaxLog2 + 1])
  BY <1>2 DEF TIME_PEROID_INFINITE
<1> QED  BY <1>1, <1>4, <1>5 DEF Close

\* A length that the mantissa can hold.
LEMMA MadeOfSmall ==
  ASSUME NEW n \in Nat, 0 < n, n < Mantissas
  PROVE  Close(n, n)
<1>1. /\ Mantissas \in Nat \ {0} /\ 0 < Pow2[ExponentBits] /\ Pow2[0] = 1
      /\ Mantissas < Pow2[ClockBits] /\ Mantissas < Pow2[MaxLog2 + 1]
      /\ Pow2[ClockBits] \in Nat /\ Pow2[MaxLog2 + 1] \in Nat
      /\ Pow2[MantissaBits - 1] \in Nat
  <2>1. /\ ExponentBits \in Nat /\ ClockBits \in Nat /\ MaxLog2 + 1 \in Nat
        /\ MantissaBits \in Nat /\ MantissaBits - 1 \in Nat
        /\ MantissaBits < ClockBits /\ MantissaBits < MaxLog2 + 1
    BY Widths
  <2>2. Pow2[MantissaBits] < Pow2[ClockBits] /\ Pow2[MantissaBits] < Pow2[MaxLog2 + 1]
    BY <2>1, PowerOrder
  <2>3. Pow2[ExponentBits] \in Nat \ {0}  BY <2>1, Powers
  <2> QED  BY <2>1, <2>2, <2>3, Widths, Powers
<1>2. n \in 0..(Mantissas - 1) /\ n = (0 * Mantissas) + n /\ n * Pow2[0] = n
      /\ n < Pow2[ClockBits]
  BY <1>1
<1>3. Relative(n) /\ TimeExpandPeriodBase(n, 0) = n
  BY <1>1, <1>2, Expanded
<1>4. (n = TIME_PEROID_INFINITE) = (n >= Pow2[MaxLog2 + 1])
  BY <1>1 DEF TIME_PEROID_INFINITE
<1>5. n <= n /\ (n - n) * Pow2[MantissaBits - 1] < n
  BY <1>1
<1> QED  BY <1>3, <1>4, <1>5 DEF Close

\* A length that is shifted: what is lost is less than a unit.
LEMMA MadeOfLarge ==
  ASSUME NEW n \in Nat, 0 < n, n < Pow2[ClockBits],
         Log2(n) >= MantissaBits, Log2(n) <= MaxLog2
  PROVE  Close(n, Encoded(n, Log2(n) - (MantissaBits - 1)))
<1> DEFINE L == Log2(n)
           s == L - (MantissaBits - 1)
           h == Pow2[MantissaBits - 1]
           u == Pow2[s]
           q == n \div u
           r == n % u
           p == (s * Mantissas) + q
<1>1. /\ L \in Nat /\ s \in Nat /\ s > 0 /\ s < Pow2[ExponentBits]
      /\ MantissaBits - 1 \in Nat /\ L = (MantissaBits - 1) + s /\ L + 1 = MantissaBits + s
      /\ L + 1 \in Nat /\ MaxLog2 + 1 \in Nat /\ L <= MaxLog2 /\ MantissaBits \in Nat
  <2>1. L \in 0..(ClockBits - 1) /\ L >= MantissaBits /\ L <= MaxLog2  BY LogIs
  <2>2. Pow2[ExponentBits] \in Nat  BY Widths, Powers
  <2> HIDE DEF L
  <2> QED  BY <2>1, <2>2, Widths
<1>2. Pow2[L] <= n /\ n < Pow2[L + 1]  BY LogIs
<1> HIDE DEF L
<1>3. s \in Nat /\ u \in Nat \ {0} /\ h \in Nat \ {0} /\ Mantissas = 2 * h
  <2>1. (MantissaBits - 1) + 1 = MantissaBits  BY <1>1
  <2>2. u \in Nat \ {0} /\ h \in Nat \ {0} /\ Pow2[(MantissaBits - 1) + 1] = 2 * h
    BY <1>1, Powers
  <2> QED  BY <1>1, <2>1, <2>2 DEF Mantissas
<1>4. Pow2[L] = h * u /\ Pow2[L + 1] = Mantissas * u
  BY <1>1, PowerOfSum DEF Mantissas
<1>5. Encoded(n, s) = p  BY DEF Encoded
<1> HIDE DEF h, u, s
<1>6. q \in Nat /\ r \in 0..(u - 1) /\ n = (q * u) + r
  BY <1>3, Remainders
<1> HIDE DEF q, r
\* The mantissa has its highest bit.
<1>7. h <= q /\ q < Mantissas
  <2>1. h * u <= (q * u) + r /\ (q * u) + r < Mantissas * u  BY <1>2, <1>4, <1>6
  <2>2. ASSUME q < h PROVE FALSE
    <3>1. (q + 1) * u <= h * u
      <4>1. \A x, y, z \in Nat : x <= y => x * z <= y * z  OBVIOUS
      <4>2. q + 1 \in Nat /\ q + 1 <= h  BY <1>3, <1>6, <2>2
      <4> QED  BY <1>3, <4>1, <4>2
    <3>2. (q + 1) * u = (q * u) + u /\ q * u \in Nat /\ h * u \in Nat  BY <1>3, <1>6
    <3> QED  BY <1>3, <1>6, <2>1, <3>1, <3>2
  <2>3. ASSUME Mantissas <= q PROVE FALSE
    <3>1. Mantissas * u <= q * u
      <4>1. \A x, y, z \in Nat : x <= y => x * z <= y * z  OBVIOUS
      <4> QED  BY <1>3, <1>6, <2>3, <4>1
    <3>2. q * u \in Nat /\ Mantissas * u \in Nat  BY <1>3, <1>6
    <3> QED  BY <1>3, <1>6, <2>1, <3>1, <3>2
  <2> QED  BY <1>3, <1>6, <2>2, <2>3
<1>8. q * u <= n /\ q * u \in Nat /\ n - (q * u) = r
  <2>1. q * u \in Nat  BY <1>3, <1>6
  <2> QED  BY <1>3, <1>6, <2>1
<1>9. Relative(p) /\ p \in Nat /\ TimeExpandPeriodBase(p, 0) = q * u
  <2>1. q \in 0..(Mantissas - 1)  BY <1>3, <1>6, <1>7
  <2>2. q * u < Pow2[ClockBits] /\ Pow2[ClockBits] \in Nat
    <3>1. Pow2[ClockBits] \in Nat  BY Widths, Powers
    <3> QED  BY <1>8, <3>1
  <2>3. q * Pow2[s] = q * u  BY DEF u
  <2> QED  BY <1>1, <1>3, <2>1, <2>2, <2>3, Expanded
<1>10. p # TIME_PEROID_INFINITE /\ ~(n >= Pow2[MaxLog2 + 1])
  <2>1. s * Mantissas \in Nat /\ q > 0  BY <1>3, <1>6, <1>7
  <2>2. p # 0  BY <1>6, <2>1
  <2>3. n < Pow2[MaxLog2 + 1]
    <3>1. CASE L = MaxLog2
      BY <1>2, <3>1
    <3>2. CASE L < MaxLog2
      <4>1. L + 1 < MaxLog2 + 1  BY <1>1, <3>2, Widths
      <4>2. Pow2[L + 1] < Pow2[MaxLog2 + 1]  BY <1>1, <4>1, PowerOrder
      <4>3. Pow2[L + 1] \in Nat /\ Pow2[MaxLog2 + 1] \in Nat  BY <1>1, Powers
      <4> QED  BY <1>2, <4>2, <4>3
    <3> QED  BY <1>1, <3>1, <3>2, Widths
  <2>4. Pow2[MaxLog2 + 1] \in Nat  BY <1>1, Powers
  <2> QED  BY <2>2, <2>3, <2>4 DEF TIME_PEROID_INFINITE
<1>11. r * h < n
  <2>1. r * h <= r * q /\ r * q \in Nat /\ r * h \in Nat
    <3>1. \A x, y, z \in Nat : x <= y => z * x <= z * y /\ z * x \in Nat  OBVIOUS
    <3> QED  BY <1>3, <1>6, <1>7, <3>1
  <2>2. r * q < u * q
    <3>1. q \in Nat \ {0} /\ r \in Nat /\ u \in Nat /\ r < u  BY <1>3, <1>6, <1>7
    <3>2. \A x, y \in Nat : \A z \in Nat \ {0} : x < y => x * z < y * z  OBVIOUS
    <3> QED  BY <3>1, <3>2
  <2>3. u * q = q * u  BY <1>3, <1>6
  <2> QED  BY <1>8, <2>1, <2>2, <2>3
<1> DEFINE e == TimeExpandPeriodBase(p, 0)
<1>12. e <= n /\ (n - e) * h < n
  BY <1>8, <1>9, <1>11
<1>13. Close(n, p)
  <2>1. (n - e) * Pow2[MantissaBits - 1] < n  BY <1>12 DEF h
  <2>2. (p = TIME_PEROID_INFINITE) = (n >= Pow2[MaxLog2 + 1])  BY <1>10
  <2>3. Relative(p) /\ e <= n  BY <1>9, <1>12
  <2> HIDE DEF p
  <2> QED  BY <2>1, <2>2, <2>3, Zenon DEF Close
<1> QED  BY <1>5, <1>13 DEF s, L

\* Every length that fits into a clock.
LEMMA MadeOfAll ==
  ASSUME NEW n \in 0..(Pow2[ClockBits] - 1)
  PROVE  Close(n, TimeMakePeriod(n))
<1>1. n \in Nat /\ n < Pow2[ClockBits]
  <2>1. Pow2[ClockBits] \in Nat  BY Widths, Powers
  <2> QED  BY <2>1
<1>2. CASE n = 0
  BY <1>2, MadeOfZero
<1>3. CASE n > 0 /\ Log2(n) < MantissaBits
  <2>1. TimeMakePeriod(n) = n
    <3>1. n # 0 /\ ~(Log2(n) > MaxLog2)
      <4>1. Log2(n) \in Nat  BY <1>1, <1>3, LogIs, Widths
      <4> QED  BY <1>3, <4>1, Widths
    <3> QED  BY <1>3, <3>1, Zenon DEF TimeMakePeriod
  <2>2. n < Mantissas
    <3>1. Log2(n) \in 0..(ClockBits - 1) /\ n < Pow2[Log2(n) + 1]  BY <1>1, <1>3, LogIs
    <3>2. Log2(n) + 1 \in Nat /\ Log2(n) + 1 <= MantissaBits  BY <1>3, <3>1, Widths
    <3>3. Log2(n) + 1 = MantissaBits \/ Pow2[Log2(n) + 1] < Pow2[MantissaBits]
      BY <3>2, Widths, PowerOrder
    <3>4. Pow2[Log2(n) + 1] \in Nat /\ Pow2[MantissaBits] \in Nat  BY <3>2, Widths, Powers
    <3> QED  BY <1>1, <3>1, <3>3, <3>4 DEF Mantissas
  <2> QED  BY <1>1, <1>3, <2>1, <2>2, MadeOfSmall
<1>4. CASE n > 0 /\ ~(Log2(n) < MantissaBits) /\ Log2(n) > MaxLog2
  <2>1. TimeMakePeriod(n) = TIME_PEROID_INFINITE
    <3>1. n # 0  BY <1>4
    <3> QED  BY <1>4, <3>1, Zenon DEF TimeMakePeriod
  <2>2. n >= Pow2[MaxLog2 + 1]
    <3>1. Log2(n) \in 0..(ClockBits - 1) /\ Pow2[Log2(n)] <= n  BY <1>1, <1>4, LogIs
    <3>2. Log2(n) \in Nat /\ MaxLog2 + 1 \in Nat /\ MaxLog2 + 1 <= Log2(n)
      BY <1>4, <3>1, Widths
    <3>3. MaxLog2 + 1 = Log2(n) \/ Pow2[MaxLog2 + 1] < Pow2[Log2(n)]
      BY <3>2, PowerOrder
    <3>4. Pow2[MaxLog2 + 1] \in Nat /\ Pow2[Log2(n)] \in Nat  BY <3>2, Powers
    <3> QED  BY <1>1, <3>1, <3>3, <3>4
  <2>3. Relative(0)
    <3>1. Pow2[MantissaBits + ExponentBits] \in Nat \ {0}
      <4>1. MantissaBits + ExponentBits \in Nat  BY Widths
      <4> QED  BY <4>1, Powers
    <3> QED  BY <3>1 DEF Relative
  <2> QED  BY <2>1, <2>2, <2>3 DEF Close, TIME_PEROID_INFINITE
<1>5. CASE n > 0 /\ ~(Log2(n) < MantissaBits) /\ ~(Log2(n) > MaxLog2)
  <2>1. TimeMakePeriod(n) = Encoded(n, Log2(n) - (MantissaBits - 1))
    <3>1. n # 0  BY <1>5
    <3> QED  BY <1>5, <3>1, Zenon DEF TimeMakePeriod
  <2>2. Log2(n) >= MantissaBits /\ Log2(n) <= MaxLog2
    <3>1. Log2(n) \in 0..(ClockBits - 1)  BY <1>1, <1>5, LogIs
    <3> QED  BY <1>5, <3>1, Widths
  <2> QED  BY <1>1, <1>5, <2>1, <2>2, MadeOfLarge
<1> QED  BY <1>1, <1>2, <1>3, <1>4, <1>5

\* Remainders of multiples.
Scales(x, w, u) ==
  /\ (x * u) % (w * u) = (x % w) * u
  /\ ((x % w) * u) % u = 0 /\ ((x % w) * u) \div u = x % w

LEMMA Scaled ==
  ASSUME NEW x \in Nat, NEW w \in Nat \ {0}, NEW u \in Nat \ {0}
  PROVE  Scales(x, w, u)
<1> DEFINE q == x \div w
           r == x % w
<1>1. q \in Nat /\ r \in 0..(w - 1) /\ x = (q * w) + r  BY Remainders
<1> HIDE DEF q, r
<1>2. w * u \in Nat \ {0} /\ r * u \in Nat /\ x * u \in Nat /\ r \in Nat
  BY <1>1
<1>3. r * u \in 0..((w * u) - 1)
  <2>1. \A y, z \in Nat : y < z => y * u < z * u  OBVIOUS
  <2>2. r * u < w * u  BY <1>1, <2>1
  <2> QED  BY <1>2, <2>2
<1>4. x * u = (q * (w * u)) + (r * u)
  <2>1. ((q * w) + r) * u = ((q * w) * u) + (r * u)  BY <1>1
  <2>2. (q * w) * u = q * (w * u)  BY <1>1
  <2> QED  BY <1>1, <2>1, <2>2
<1> DEFINE d == w * u
           y == r * u
<1>5. (x * u) % d = y
  <2>1. d \in Nat \ {0} /\ y \in 0..(d - 1) /\ x * u = (q * d) + y  BY <1>2, <1>3, <1>4
  <2> HIDE DEF d, y
  <2> QED  BY <1>1, <2>1, Quotients
<1>6. (r * u) % u = 0 /\ (r * u) \div u = r
  <2>1. 0 \in 0..(u - 1) /\ (r * u) + 0 = r * u  BY <1>2
  <2> QED  BY <1>2, <2>1, Quotients
<1> QED  BY <1>2, <1>5, <1>6 DEF r, Scales

\* A remainder by a multiple of k, and its upper and lower part.
LEMMA Nested ==
  ASSUME NEW x \in Nat, NEW k \in Nat \ {0}, NEW j \in Nat \ {0}, NEW w, w = j * k
  PROVE  /\ w \in Nat \ {0} /\ x % w \in Nat /\ (x % w) % k = x % k
         /\ x - (x % k) \in Nat /\ (x % w) - ((x % w) % k) = (x - (x % k)) % w
<1> DEFINE q == x \div k
           r == x % k
           a == q \div j
           b == q % j
<1>1. q \in Nat /\ r \in 0..(k - 1) /\ x = (q * k) + r  BY Remainders
<1>2. a \in Nat /\ b \in 0..(j - 1) /\ q = (a * j) + b  BY <1>1, Remainders
<1> HIDE DEF q, r, a, b
<1>3. w \in Nat \ {0} /\ b * k \in Nat /\ a * w \in Nat /\ q * k \in Nat /\ r \in Nat /\ b \in Nat
  BY <1>1, <1>2
<1>4. q * k = (a * w) + (b * k)
  <2>1. ((a * j) + b) * k = ((a * j) * k) + (b * k)  BY <1>2
  <2>2. (a * j) * k = a * (j * k)  BY <1>2
  <2> QED  BY <1>2, <2>1, <2>2
<1>5. (b * k) + k <= w
  <2>1. \A y, z \in Nat : y <= z => y * k <= z * k  OBVIOUS
  <2>2. b + 1 \in Nat /\ b + 1 <= j /\ (b + 1) * k = (b * k) + k  BY <1>2, <1>3
  <2> QED  BY <2>1, <2>2
<1> DEFINE y == b * k
<1> HIDE DEF y
<1>6. y \in Nat /\ y + k <= w /\ q * k = (a * w) + y  BY <1>3, <1>4, <1>5 DEF y
<1>7. x % w = y + r
  <2>1. y + r \in 0..(w - 1) /\ x = (a * w) + (y + r)  BY <1>1, <1>3, <1>6
  <2> QED  BY <1>2, <1>3, <2>1, Quotients
<1>8. (y + r) % k = r
  BY <1>1, <1>3, Quotients DEF y
<1>9. x - r = (a * w) + y /\ x - r \in Nat  BY <1>1, <1>3, <1>6
<1>10. (x - r) % w = y
  <2>1. y \in 0..(w - 1)  BY <1>3, <1>6
  <2> QED  BY <1>2, <1>3, <1>9, <2>1, Quotients
<1>11. (y + r) - r = y /\ y + r \in Nat  BY <1>3, <1>6
<1> QED  BY <1>3, <1>7, <1>8, <1>9, <1>10, <1>11 DEF r

\* The exponent of an absolute period, and what a clock can be divided into.
LEMMA Exponents ==
  ASSUME NEW p \in Nat
  PROVE  /\ AbsExponent(p) \in Nat
         /\ AbsExponent(p) + MantissaBits + 1 <= ClockBits
         /\ Carry(p) \in {0, 1} /\ Mantissa(p) \in 0..(Mantissas - 1)
<1> DEFINE k == 2 * Mantissas
           h == Pow2[ExponentBits - 1]
           y == p % Pow2[MantissaBits + ExponentBits]
           e == y \div k
<1>1. /\ k \in Nat \ {0} /\ h \in Nat \ {0} /\ Pow2[ExponentBits] = 2 * h
      /\ Pow2[MantissaBits + ExponentBits] = h * k
      /\ h * k \in Nat \ {0} /\ h >= 2
  <2>1. ExponentBits - 1 \in Nat /\ (ExponentBits - 1) + 1 = ExponentBits  BY Widths
  <2>2. h \in Nat \ {0} /\ Pow2[ExponentBits] = 2 * h /\ ExponentBits - 1 < h
    BY <2>1, Powers
  <2>3. Pow2[MantissaBits + ExponentBits] = (2 * h) * Mantissas  BY <2>2, Widths
  <2>4. (2 * h) * Mantissas = h * (2 * Mantissas)  BY <2>2, Widths
  <2> HIDE DEF h
  <2>5. k \in Nat \ {0}  BY Widths
  <2>6. h * k \in Nat \ {0}  BY <2>2, <2>5
  <2> QED  BY <2>1, <2>2, <2>3, <2>4, <2>5, <2>6, Widths
<1>2. AbsExponent(p) = e  BY DEF AbsExponent
<1>3. y \in 0..((h * k) - 1)
  <2> DEFINE d == h * k
  <2>1. d \in Nat \ {0} /\ y = p % d  BY <1>1
  <2> HIDE DEF d, y
  <2>2. y \in 0..(d - 1)  BY <2>1, Remainders
  <2> QED  BY <2>2 DEF d
<1> HIDE DEF y, k, h
<1>4. e \in Nat /\ y = (e * k) + (y % k) /\ y % k \in Nat
  <2>1. y \in Nat  BY <1>1, <1>3
  <2>2. e \in Nat /\ y % k \in 0..(k - 1) /\ y = (e * k) + (y % k)
    BY <1>1, <2>1, Remainders
  <2> QED  BY <1>1, <2>2
<1> HIDE DEF e
<1>5. e < h
  <2> SUFFICES ASSUME h <= e PROVE FALSE
    BY <1>1, <1>4
  <2>1. h * k <= e * k /\ e * k \in Nat
    <3>1. \A x, z \in Nat : x <= z => x * k <= z * k  BY <1>1
    <3> QED  BY <1>1, <1>4, <3>1
  <2>2. y >= e * k
    <3> DEFINE f == e * k
               r == y % k
    <3>1. f \in Nat /\ r \in Nat /\ y = f + r  BY <1>4, <2>1
    <3> HIDE DEF f, r
    <3>2. y >= f  BY <3>1
    <3> QED  BY <3>2 DEF f
  <2> DEFINE d == h * k
             f == e * k
  <2>3. d \in Nat /\ f \in Nat /\ d <= f /\ y \in 0..(d - 1) /\ y >= f
    BY <1>1, <1>3, <2>1, <2>2
  <2> HIDE DEF d, f
  <2> QED  BY <2>3
<1>6. e + MantissaBits + 1 <= ClockBits
  <2>1. MaxLog2 = (MantissaBits - 1) + ((2 * h) - 1) /\ MaxLog2 < ClockBits
        /\ MantissaBits \in Nat /\ ClockBits \in Nat
    BY <1>1, Widths
  <2> QED  BY <1>1, <1>4, <1>5, <2>1
<1>7. Carry(p) \in {0, 1} /\ Mantissa(p) \in 0..(Mantissas - 1)
  <2>1. p \div Mantissas \in Nat /\ p % Mantissas \in 0..(Mantissas - 1)
    BY Widths, Remainders
  <2>2. (p \div Mantissas) % 2 \in {0, 1}  BY <2>1
  <2> QED  BY <2>1, <2>2 DEF Carry, Mantissa
<1> QED  BY <1>2, <1>4, <1>6, <1>7

\* A base taken apart: what is above the mantissa and the carry, the bit that the carry
\* replaces, and the rest.
LEMMA BaseParts ==
  ASSUME NEW b \in Nat, b < Pow2[MaskBits]
  PROVE  \E a, bit \in Nat :
           /\ bit \in {0, 1} /\ a = b \div (2 * Mantissas) /\ bit = (b \div Mantissas) % 2
           /\ Upper(b) = (a * (2 * Mantissas)) + (bit * Mantissas)
<1> DEFINE m == Mantissas
           t == b \div m
           r == b % m
           a == t \div 2
           bit == t % 2
<1>1. m \in Nat \ {0}  BY Widths
<1>2. t \in Nat /\ r \in 0..(m - 1) /\ b = (t * m) + r  BY <1>1, Remainders
<1>3. a \in Nat /\ bit \in {0, 1} /\ t = (a * 2) + bit  BY <1>2
<1>4. b % Pow2[MaskBits] = b
  <2>1. Pow2[MaskBits] \in Nat \ {0}  BY Widths, Powers
  <2>2. b \in 0..(Pow2[MaskBits] - 1) /\ (0 * Pow2[MaskBits]) + b = b  BY <2>1
  <2> QED  BY <2>1, <2>2, Quotients
<1>5. Upper(b) = b - r  BY <1>4 DEF Upper
<1> HIDE DEF m, t, r, a, bit
<1>6. ((a * 2) + bit) * m = (a * (2 * m)) + (bit * m)
  <2>1. ((a * 2) + bit) * m = ((a * 2) * m) + (bit * m)  BY <1>1, <1>3
  <2>2. (a * 2) * m = a * (2 * m)  BY <1>1, <1>3
  <2> QED  BY <2>1, <2>2
<1>7. b - r = (a * (2 * m)) + (bit * m)
  <2>1. t * m \in Nat /\ r \in Nat  BY <1>1, <1>2
  <2> QED  BY <1>2, <1>3, <1>6, <2>1
<1>8. a = b \div (2 * m)
  <2>1. bit * m \in {0, m}  BY <1>1, <1>3
  <2>2. (bit * m) + r \in 0..((2 * m) - 1)  BY <1>1, <1>2, <2>1
  <2>3. b = (a * (2 * m)) + ((bit * m) + r)
    <3>1. a * (2 * m) \in Nat /\ bit * m \in Nat  BY <1>1, <1>3
    <3> QED  BY <1>2, <1>3, <1>6, <3>1
  <2>4. 2 * m \in Nat \ {0}  BY <1>1
  <2> QED  BY <1>3, <2>2, <2>3, <2>4, Quotients
<1>9. bit = t % 2 /\ t = b \div m  BY DEF bit, t
<1>10. bit \in Nat  BY <1>3
<1> QED  BY <1>3, <1>5, <1>7, <1>8, <1>9, <1>10 DEF m

\* What Absolute puts together, before the shift.
LEMMA PutTogether ==
  ASSUME NEW p \in Nat, NEW b \in Nat, b < Pow2[MaskBits],
         NEW bit, bit = (b \div Mantissas) % 2, ~(Carry(p) = 1 /\ bit = 1),
         NEW x, x = Mantissa(p) + Upper(b) + Adjusted(Carry(p), b),
         NEW above, above = 2 * Mantissas * (b \div (2 * Mantissas))
  PROVE  /\ x \in Nat /\ above \in Nat
         /\ x % (2 * Mantissas) = Mantissa(p) + Mantissas * Carry(p)
         /\ x - (x % (2 * Mantissas))
              = above + (IF Carry(p) = 0 /\ bit = 1 THEN 2 * Mantissas ELSE 0)
<1> DEFINE m == Mantissas
           k == 2 * m
           c == Carry(p)
           n == Mantissa(p)
<1>1. m \in Nat \ {0} /\ m > 1 /\ k \in Nat \ {0} /\ k = 2 * m  BY Widths
<1>2. c \in {0, 1} /\ n \in 0..(m - 1)  BY Exponents
<1>3. PICK a \in Nat : /\ bit \in {0, 1} /\ a = b \div k
                       /\ Upper(b) = (a * k) + (bit * m)
  BY BaseParts
<1>4. Adjusted(c, b) = IF c # bit * m THEN m ELSE 0  BY DEF Adjusted
<1>5. above = k * a  BY <1>3
<1> HIDE DEF k
<1>10. k * a = a * k /\ a * k \in Nat /\ (a + 1) * k = (a * k) + k /\ a + 1 \in Nat
  BY <1>1, <1>3
<1>11. bit * m \in Nat /\ (bit = 0 => bit * m = 0) /\ (bit = 1 => bit * m = m)
       /\ (c = 0 => m * c = 0) /\ (c = 1 => m * c = m)
  BY <1>1, <1>2, <1>3
<1>12. k \in Nat \ {0} /\ a \in Nat /\ a + 1 \in Nat  BY <1>1, <1>3
<1> HIDE DEF m, c, n
<1>6. x = (a * k) + (n + (bit * m) + (IF c # bit * m THEN m ELSE 0))
  <2> DEFINE u == a * k
             g == bit * m
             j == IF c # bit * m THEN m ELSE 0
  <2>1. u \in Nat /\ g \in Nat /\ j \in Nat /\ n \in Nat  BY <1>1, <1>2, <1>10, <1>11
  <2>2. x = n + (u + g) + j  BY <1>3, <1>4 DEF n, c
  <2> HIDE DEF u, g, j
  <2>3. x = u + (n + g + j)  BY <2>1, <2>2
  <2> QED  BY <2>3 DEF u, g, j
<1>7. CASE c = 0 /\ bit = 0
  <2>1. x = (a * k) + n /\ n \in 0..(k - 1)  BY <1>1, <1>2, <1>10, <1>11, <1>6, <1>7
  <2>2. x % k = n  BY <1>12, <2>1, Quotients
  <2>3. x \in Nat /\ x - n = a * k /\ (a * k) + 0 = a * k /\ n + (m * c) = n
    BY <1>1, <1>2, <1>10, <1>11, <1>7, <2>1
  <2> QED  BY <1>5, <1>10, <1>7, <2>2, <2>3 DEF c, n, m, k
<1>8. CASE c = 0 /\ bit = 1
  <2> DEFINE g == a + 1
  <2>1. x = (g * k) + n /\ n \in 0..(k - 1)  BY <1>1, <1>2, <1>10, <1>11, <1>6, <1>8
  <2>2. x % k = n
    <3>1. g \in Nat  BY <1>12
    <3> HIDE DEF g
    <3> QED  BY <1>12, <2>1, <3>1, Quotients
  <2>3. x \in Nat /\ x - n = (a * k) + k /\ n + (m * c) = n
    BY <1>1, <1>2, <1>10, <1>11, <1>8, <2>1
  <2> QED  BY <1>5, <1>10, <1>8, <2>2, <2>3 DEF c, n, m, k
<1>9. CASE c = 1 /\ bit = 0
  <2>1. x = (a * k) + (n + m) /\ n + m \in 0..(k - 1)  BY <1>1, <1>2, <1>10, <1>11, <1>6, <1>9
  <2>2. x % k = n + m  BY <1>12, <2>1, Quotients
  <2>3. x \in Nat /\ x - (n + m) = a * k /\ (a * k) + 0 = a * k /\ n + (m * c) = n + m
    BY <1>1, <1>2, <1>10, <1>11, <1>9, <2>1
  <2> QED  BY <1>5, <1>10, <1>9, <2>2, <2>3 DEF c, n, m, k
<1> QED  BY <1>2, <1>3, <1>7, <1>8, <1>9 DEF c

\* What an absolute period leaves of the base, as AbsoluteReplaces says.
Replaces(p, base, t) ==
  LET unit  == Pow2[AbsExponent(p)]
      b     == base \div unit
      bit   == (b \div Mantissas) % 2
      above == 2 * Mantissas * (b \div (2 * Mantissas))
      units == t \div unit
  IN  (b < Pow2[MaskBits] /\ ~(Carry(p) = 1 /\ bit = 1)) =>
        /\ t % unit = 0
        /\ units % (2 * Mantissas) = Mantissa(p) + Mantissas * Carry(p)
        /\ (units - (units % (2 * Mantissas))) * unit
             = Wrapped((above + (IF Carry(p) = 0 /\ bit = 1 THEN 2 * Mantissas ELSE 0)) * unit)

\* Every absolute period and every clock.
LEMMA AllReplaced ==
  ASSUME NEW p \in Nat, ~Relative(p), NEW base \in Nat
  PROVE  Replaces(p, base, TimeExpandPeriodBase(p, base))
<1> DEFINE e == AbsExponent(p)
           unit == Pow2[e]
           b == base \div unit
           bit == (b \div Mantissas) % 2
           above == 2 * Mantissas * (b \div (2 * Mantissas))
           low == Mantissa(p) + Mantissas * Carry(p)
           up == above + (IF Carry(p) = 0 /\ bit = 1 THEN 2 * Mantissas ELSE 0)
           t == TimeExpandPeriodBase(p, base)
           k == 2 * Mantissas
           x == Mantissa(p) + Upper(b) + Adjusted(Carry(p), b)
<1>1. SUFFICES ASSUME b < Pow2[MaskBits], ~(Carry(p) = 1 /\ bit = 1)
               PROVE  /\ t % unit = 0
                      /\ (t \div unit) % k = low
                      /\ ((t \div unit) - ((t \div unit) % k)) * unit = Wrapped(up * unit)
  BY DEF Replaces
<1>2. e \in Nat /\ e + MantissaBits + 1 <= ClockBits  BY Exponents
<1>3. unit \in Nat \ {0} /\ k \in Nat \ {0} /\ k = Pow2[MantissaBits + 1]
  <2>1. Pow2[MantissaBits + 1] = 2 * Pow2[MantissaBits]  BY Widths, Powers
  <2> QED  BY <1>2, <2>1, Widths, Powers
<1>4. b \in Nat  BY <1>3, Remainders
<1>5. x \in Nat /\ x % k = low /\ x - (x % k) = up
  BY <1>1, <1>4, PutTogether
<1>6. t = Wrapped(x * unit)  BY DEF TimeExpandPeriodBase, Absolute
<1> HIDE DEF low, up, t, x, bit, above, b, unit, e
<1> DEFINE j == Pow2[ClockBits - (e + MantissaBits + 1)]
           w == j * k
<1>7. j \in Nat \ {0} /\ Pow2[ClockBits] = w * unit
  <2> DEFINE i == ClockBits - (e + MantissaBits + 1)
  <2>1. i \in Nat /\ (MantissaBits + 1) \in Nat /\ i + (MantissaBits + 1) \in Nat
        /\ ClockBits = (i + (MantissaBits + 1)) + e
    BY <1>2, Widths
  <2> HIDE DEF i
  <2>2. Pow2[ClockBits] = Pow2[i + (MantissaBits + 1)] * unit  BY <1>2, <2>1, PowerOfSum DEF unit
  <2>3. Pow2[i + (MantissaBits + 1)] = Pow2[i] * k  BY <1>3, <2>1, PowerOfSum
  <2>4. Pow2[i] \in Nat \ {0}  BY <2>1, Powers
  <2> QED  BY <2>2, <2>3, <2>4 DEF i
<1> HIDE DEF j, k
<1>8. w \in Nat \ {0}  BY <1>3, <1>7
<1>9. t = (x * unit) % (w * unit)  BY <1>6, <1>7 DEF Wrapped
<1>10. t = (x % w) * unit /\ t % unit = 0 /\ t \div unit = x % w
  <2> HIDE DEF w
  <2>1. x \in Nat /\ w \in Nat \ {0} /\ unit \in Nat \ {0}  BY <1>3, <1>5, <1>8
  <2>2. Scales(x, w, unit)  BY <2>1, Scaled
  <2> QED  BY <1>9, <2>2, Zenon DEF Scales
<1>11. (x % w) % k = low /\ (x % w) - ((x % w) % k) = up % w /\ up \in Nat
  BY <1>3, <1>5, <1>7, Nested
<1>12. (up % w) * unit = Wrapped(up * unit)
  <2> HIDE DEF w
  <2>1. up \in Nat /\ w \in Nat \ {0} /\ unit \in Nat \ {0}  BY <1>3, <1>8, <1>11
  <2>2. Scales(up, w, unit)  BY <2>1, Scaled
  <2> QED  BY <1>7, <2>2, Zenon DEF Wrapped, Scales
<1> HIDE DEF w
<1> QED  BY <1>10, <1>11, <1>12

----------------------------------------------------------------------------
(* FAT12: what the two bytes of an entry become, and what they are read    *)
(* as.                                                                     *)

Bytes == 0..255
Entries == 0..4095
OddLow(x, val) == (x % 16) + ((val * 16) % 256)
OddHigh(val) == (val \div 16) % 256
EvenLow(val) == val % 256
EvenHigh(y, val) == (y - (y % 16)) + ((val \div 256) % 16)
OddEntry(low, high) == (low + 256 * high) \div 16
EvenEntry(low, high) == (low + 256 * high) % 4096
UpperNibble(x) == x \div 16
LowerNibble(x) == x % 16
Odd(c) == c % 2 = 1

\* Two entries share three bytes: the first of them has an even number.
LEMMA Thirds ==
  ASSUME NEW c \in Nat
  PROVE  \E m \in Nat : \/ c = 2 * m /\ ~Odd(c) /\ FirstByte(c) = 3 * m
                        \/ c = 2 * m + 1 /\ Odd(c) /\ FirstByte(c) = 3 * m + 1
<1>1. c \div 2 \in Nat /\ (c = 2 * (c \div 2) \/ c = 2 * (c \div 2) + 1)
  OBVIOUS
<1>2. c = 2 * (c \div 2) => ~Odd(c)
  BY DEF Odd
<1>3. c = 2 * (c \div 2) + 1 => Odd(c)
  BY DEF Odd
<1> QED  BY <1>1, <1>2, <1>3 DEF FirstByte

\* An entry with an odd number: the lower byte keeps the half that is not its own, and the
\* value can be read back.
LEMMA OddBytes ==
  ASSUME NEW x \in Bytes, NEW val \in Entries
  PROVE  /\ OddLow(x, val) \in Bytes /\ OddHigh(val) \in Bytes
         /\ OddEntry(OddLow(x, val), OddHigh(val)) = val
         /\ LowerNibble(OddLow(x, val)) = LowerNibble(x)
<1>0. x \in 0..255 /\ val \in 0..4095  BY DEF Bytes, Entries
<1>1. (val * 16) % 256 = 16 * (val % 16) /\ (val \div 16) % 256 = val \div 16
  BY <1>0
<1>2. val = 16 * (val \div 16) + (val % 16) /\ val % 16 \in 0..15 /\ val \div 16 \in 0..255
  BY <1>0
<1> QED  BY <1>0, <1>1, <1>2 DEF Bytes, OddLow, OddHigh, OddEntry, LowerNibble

\* The same of an entry with an even number, whose higher byte is shared.
LEMMA EvenBytes ==
  ASSUME NEW y \in Bytes, NEW val \in Entries
  PROVE  /\ EvenLow(val) \in Bytes /\ EvenHigh(y, val) \in Bytes
         /\ EvenEntry(EvenLow(val), EvenHigh(y, val)) = val
         /\ UpperNibble(EvenHigh(y, val)) = UpperNibble(y)
<1>0. y \in 0..255 /\ val \in 0..4095  BY DEF Bytes, Entries
<1>1. (val \div 256) % 16 = val \div 256 /\ val = 256 * (val \div 256) + (val % 256)
      /\ val \div 256 \in 0..15 /\ val % 256 \in 0..255
  BY <1>0
<1>2. y - (y % 16) = 16 * (y \div 16) /\ y \div 16 \in 0..15
  BY <1>0
<1> QED  BY <1>0, <1>1, <1>2 DEF Bytes, EvenLow, EvenHigh, EvenEntry, UpperNibble

\* An entry with an odd number depends on the upper half of its lower byte, one with an even
\* number on the lower half of its higher byte.
LEMMA OddReads ==
  ASSUME NEW x \in Bytes, NEW y \in Bytes, NEW z \in Bytes, UpperNibble(x) = UpperNibble(y)
  PROVE  OddEntry(x, z) = OddEntry(y, z)
<1>1. \A w \in Bytes : (w + 256 * z) \div 16 = (w \div 16) + 16 * z
  BY DEF Bytes
<1> QED  BY <1>1 DEF OddEntry, UpperNibble

\* The same of an entry with an even number.
LEMMA EvenReads ==
  ASSUME NEW x \in Bytes, NEW y \in Bytes, NEW z \in Bytes, LowerNibble(x) = LowerNibble(y)
  PROVE  EvenEntry(z, x) = EvenEntry(z, y)
<1>1. \A w \in Bytes : (z + 256 * w) % 4096 = z + 256 * (w % 16)
  BY DEF Bytes
<1> QED  BY <1>1 DEF EvenEntry, LowerNibble

\* What get_fat reads and put_fat writes, in these terms.
LEMMA Get12Reads ==
  ASSUME NEW table, NEW c, NEW b, b = FirstByte(c)
  PROVE  Get12(table, c) = IF Odd(c) THEN OddEntry(table[b], table[b + 1])
                           ELSE EvenEntry(table[b], table[b + 1])
  BY DEF Get12, Odd, OddEntry, EvenEntry

\* The two steps of put_fat change the first and the second byte of the entry.
LEMMA Written ==
  ASSUME NEW D \in SUBSET Int, NEW table \in [D -> Bytes], NEW val \in Entries,
         NEW c \in Nat, NEW b \in D, b = FirstByte(c), b + 1 \in D,
         NEW t, t = PutLow(table, c, val),
         NEW u, u = Put12(table, c, val)
  PROVE  /\ t[b] = IF Odd(c) THEN OddLow(table[b], val) ELSE EvenLow(val)
         /\ \A a \in D \ {b} : t[a] = table[a]
         /\ u[b] = t[b]
         /\ u[b + 1] = IF Odd(c) THEN OddHigh(val) ELSE EvenHigh(table[b + 1], val)
         /\ \A a \in D \ {b, b + 1} : u[a] = table[a]
<1>1. b \in Int /\ b # b + 1  OBVIOUS
<1>2. t = [table EXCEPT ![b] = IF Odd(c) THEN OddLow(table[b], val) ELSE EvenLow(val)]
  BY DEF PutLow, Odd, OddLow, EvenLow
<1>3. /\ t[b] = IF Odd(c) THEN OddLow(table[b], val) ELSE EvenLow(val)
      /\ DOMAIN t = D /\ \A a \in D \ {b} : t[a] = table[a]
  BY <1>2
<1>4. t[b + 1] = table[b + 1]  BY <1>1, <1>3
<1>5. u = [t EXCEPT ![b + 1] = IF Odd(c) THEN OddHigh(val) ELSE EvenHigh(table[b + 1], val)]
  BY <1>4 DEF Put12, PutHigh, Odd, OddHigh, EvenHigh
<1>6. /\ u[b + 1] = IF Odd(c) THEN OddHigh(val) ELSE EvenHigh(table[b + 1], val)
      /\ \A a \in D \ {b + 1} : u[a] = t[a]
  BY <1>3, <1>5
<1> QED  BY <1>1, <1>3, <1>6

\* An entry that is written reads back.
LEMMA ReadsBack ==
  ASSUME NEW D \in SUBSET Int, NEW table \in [D -> Bytes], NEW val \in Entries,
         NEW c \in Nat, NEW b \in D, b = FirstByte(c), b + 1 \in D
  PROVE  Get12(Put12(table, c, val), c) = val
<1> DEFINE u == Put12(table, c, val)
           t == PutLow(table, c, val)
<1>0. table[b] \in Bytes /\ table[b + 1] \in Bytes  OBVIOUS
<1>1. /\ u[b] = IF Odd(c) THEN OddLow(table[b], val) ELSE EvenLow(val)
      /\ u[b + 1] = IF Odd(c) THEN OddHigh(val) ELSE EvenHigh(table[b + 1], val)
  BY Written
<1>2. Get12(u, c) = IF Odd(c) THEN OddEntry(u[b], u[b + 1]) ELSE EvenEntry(u[b], u[b + 1])
  BY Get12Reads
<1> HIDE DEF u, t
<1>3. CASE Odd(c)
  BY <1>0, <1>1, <1>2, <1>3, OddBytes DEF u
<1>4. CASE ~Odd(c)
  BY <1>0, <1>1, <1>2, <1>4, EvenBytes DEF u
<1> QED  BY <1>3, <1>4

\* Another entry reads as before, also between the two steps.
LEMMA OthersKept ==
  ASSUME NEW D \in SUBSET Int, NEW table \in [D -> Bytes], NEW val \in Entries,
         NEW c \in Nat, NEW b \in D, b = FirstByte(c), b + 1 \in D,
         NEW e \in Nat, e # c, NEW d \in D, d = FirstByte(e), d + 1 \in D,
         NEW w, w = PutLow(table, c, val) \/ w = Put12(table, c, val)
  PROVE  Get12(w, e) = Get12(table, e)
<1> DEFINE t == PutLow(table, c, val)
           u == Put12(table, c, val)
<1>0. /\ table[b] \in Bytes /\ table[b + 1] \in Bytes
      /\ table[d] \in Bytes /\ table[d + 1] \in Bytes
  OBVIOUS
<1>1. PICK m \in Nat : \/ c = 2 * m /\ ~Odd(c) /\ b = 3 * m
                       \/ c = 2 * m + 1 /\ Odd(c) /\ b = 3 * m + 1
  BY Thirds
<1>2. PICK n \in Nat : \/ e = 2 * n /\ ~Odd(e) /\ d = 3 * n
                       \/ e = 2 * n + 1 /\ Odd(e) /\ d = 3 * n + 1
  BY Thirds
<1>3. /\ t[b] = IF Odd(c) THEN OddLow(table[b], val) ELSE EvenLow(val)
      /\ u[b] = t[b]
      /\ u[b + 1] = IF Odd(c) THEN OddHigh(val) ELSE EvenHigh(table[b + 1], val)
      /\ \A a \in D \ {b} : t[a] = table[a]
      /\ \A a \in D \ {b, b + 1} : u[a] = table[a]
  BY Written
<1>4. w = t \/ w = u  OBVIOUS
<1>5. /\ Get12(w, e) = IF Odd(e) THEN OddEntry(w[d], w[d + 1]) ELSE EvenEntry(w[d], w[d + 1])
      /\ Get12(table, e) = IF Odd(e) THEN OddEntry(table[d], table[d + 1])
                           ELSE EvenEntry(table[d], table[d + 1])
  BY Get12Reads
<1> HIDE DEF t, u
<1>6. \A a \in D \ {b, b + 1} : w[a] = table[a]  BY <1>3, <1>4
<1>7. CASE ~Odd(c) /\ d = b + 1
  \* The next entry: its lower byte is shared.
  <2>1. Odd(e) /\ d + 1 # b /\ d + 1 # b + 1  BY <1>1, <1>2, <1>7
  <2>2. w[d + 1] = table[d + 1]  BY <1>6, <2>1
  <2>3. w[d] \in Bytes /\ UpperNibble(w[d]) = UpperNibble(table[d])
    <3>1. b \in Int /\ b + 1 # b  OBVIOUS
    <3>2. t[d] = table[d]  BY <1>3, <1>7, <3>1
    <3>3. u[d] = EvenHigh(table[d], val)  BY <1>3, <1>7
    <3>4. u[d] \in Bytes /\ UpperNibble(u[d]) = UpperNibble(table[d])
      BY <1>0, <3>3, EvenBytes
    <3> QED  BY <1>0, <1>4, <3>2, <3>4
  <2>4. OddEntry(w[d], w[d + 1]) = OddEntry(table[d], table[d + 1])
    BY <1>0, <2>2, <2>3, OddReads
  <2> QED  BY <1>5, <2>1, <2>4
<1>8. CASE Odd(c) /\ d + 1 = b
  \* The entry before: its higher byte is shared.
  <2>1. ~Odd(e) /\ d # b /\ d # b + 1  BY <1>1, <1>2, <1>8
  <2>2. w[d] = table[d]  BY <1>6, <2>1
  <2>3. w[b] \in Bytes /\ LowerNibble(w[b]) = LowerNibble(table[b])
    <3>1. t[b] = OddLow(table[b], val) /\ u[b] = t[b]  BY <1>3, <1>8
    <3>2. t[b] \in Bytes /\ LowerNibble(t[b]) = LowerNibble(table[b])
      BY <1>0, <3>1, OddBytes
    <3> QED  BY <1>4, <3>1, <3>2
  <2>4. EvenEntry(w[d], w[b]) = EvenEntry(table[d], table[b])
    BY <1>0, <2>2, <2>3, EvenReads
  <2> QED  BY <1>5, <1>8, <2>1, <2>4
<1>9. CASE ~(~Odd(c) /\ d = b + 1) /\ ~(Odd(c) /\ d + 1 = b)
  <2>1. d \notin {b, b + 1} /\ d + 1 \notin {b, b + 1}  BY <1>1, <1>2, <1>9
  <2>2. w[d] = table[d] /\ w[d + 1] = table[d + 1]  BY <1>6, <2>1
  <2> QED  BY <1>5, <2>2
<1> QED  BY <1>7, <1>8, <1>9

----------------------------------------------------------------------------
(* Memory.                                                                 *)

\* A length is the words and the bytes that are left over.
LEMMA WordsAndRest ==
  ASSUME NEW len \in Nat
  PROVE  /\ len \div Word \in Nat /\ len % Word \in 0..(Word - 1)
         /\ Word * (len \div Word) \in Nat
         /\ Word * (len \div Word) + (len % Word) = len
  BY DEF Word

\* memcpy copies every byte, and the words before the rest do not change what is copied.
LEMMA CopiesAll ==
  ASSUME NEW D \in SUBSET Int, NEW mem \in [D -> Bytes], NEW dest \in Int, NEW src \in Int,
         NEW len \in Nat, Cells(dest, len) \cup Cells(src, len) \subseteq D,
         Cells(dest, len) \cap Cells(src, len) = {}
  PROVE  MemCpy(mem, dest, src, len)
           = [a \in D |-> IF a \in Cells(dest, len) THEN mem[src + (a - dest)] ELSE mem[a]]
<1> DEFINE w == Word * (len \div Word)
           r == len % Word
           first == Moved(mem, dest, src, w)
<1>1. w \in Nat /\ r \in Nat /\ w + r = len
  BY WordsAndRest DEF Word
<1>2. MemCpy(mem, dest, src, len) = Moved(first, dest + w, src + w, r)
  BY DEF MemCpy
<1>3. first = [a \in D |-> IF a - dest \in 0..(w - 1) THEN mem[src + (a - dest)] ELSE mem[a]]
  BY DEF Moved
<1> HIDE DEF w, r, first
<1>4. Moved(first, dest + w, src + w, r)
        = [a \in D |-> IF a - (dest + w) \in 0..(r - 1)
                       THEN first[(src + w) + (a - (dest + w))] ELSE first[a]]
  BY <1>3 DEF Moved
<1>5. ASSUME NEW a \in D
      PROVE  (IF a - (dest + w) \in 0..(r - 1)
              THEN first[(src + w) + (a - (dest + w))] ELSE first[a])
               = IF a \in Cells(dest, len) THEN mem[src + (a - dest)] ELSE mem[a]
  <2>0. a \in Int  OBVIOUS
  <2>1. CASE a - (dest + w) \in 0..(r - 1)
    <3>1. (src + w) + (a - (dest + w)) = src + (a - dest)  BY <1>1, <2>0
    <3>2. a \in Cells(dest, len) /\ src + (a - dest) \in Cells(src, len)
      BY <1>1, <2>0, <2>1 DEF Cells
    <3>3. src + (a - dest) \in D /\ src + (a - dest) \notin Cells(dest, len)  BY <3>2
    <3>4. ~((src + (a - dest)) - dest \in 0..(w - 1))
      BY <1>1, <2>0, <3>3 DEF Cells
    <3>5. first[src + (a - dest)] = mem[src + (a - dest)]  BY <1>3, <3>3, <3>4
    <3> QED  BY <2>1, <3>1, <3>2, <3>5
  <2>2. CASE a - dest \in 0..(w - 1)
    <3>1. ~(a - (dest + w) \in 0..(r - 1)) /\ a \in Cells(dest, len)
      BY <1>1, <2>0, <2>2 DEF Cells
    <3>2. first[a] = mem[src + (a - dest)]  BY <1>3, <2>2
    <3> QED  BY <3>1, <3>2
  <2>3. CASE ~(a - (dest + w) \in 0..(r - 1)) /\ ~(a - dest \in 0..(w - 1))
    <3>1. a \notin Cells(dest, len)
      BY <1>1, <2>0, <2>3 DEF Cells
    <3>2. first[a] = mem[a]  BY <1>3, <2>3
    <3> QED  BY <2>3, <3>1, <3>2
  <2> QED  BY <2>1, <2>2, <2>3
<1> QED  BY <1>2, <1>4, <1>5

\* Every place of rax that is looked at holds the value.
Holding(rax, value, n) ==
  rax \in Seq(Bytes) /\ Len(rax) = Word /\ \A i \in 1..n : rax[i] = value

\* A register of zeros holds zeros.
LEMMA ZerosHold ==
  ASSUME NEW n \in Nat
  PROVE  Zeros(n) \in Seq(Bytes) /\ Len(Zeros(n)) = n /\ \A i \in 1..n : Zeros(n)[i] = 0
<1>1. Zeros(n) \in [1..n -> Bytes] /\ \A i \in 1..n : Zeros(n)[i] = 0
  BY DEF Zeros, Bytes
<1>2. Zeros(n) \in Seq(Bytes)  BY <1>1, SeqDef
<1>3. 1..Len(Zeros(n)) = 1..n /\ Len(Zeros(n)) \in Nat  BY <1>1, <1>2, LenProperties
<1> QED  BY <1>1, <1>2, <1>3

\* The k places of a register from place m + 1.
LEMMA Part ==
  ASSUME NEW s \in Seq(Bytes), NEW m \in Nat, NEW k \in Nat, m + k <= Len(s),
         NEW b, b = m + 1, NEW e, e = m + k
  PROVE  /\ SubSeq(s, b, e) \in Seq(Bytes) /\ Len(SubSeq(s, b, e)) = k
         /\ \A i \in 1..k : SubSeq(s, b, e)[i] = s[m + i]
<1>0. b \in Int /\ e \in Int /\ Len(s) \in Nat /\ e - b + 1 = k  OBVIOUS
<1>1. \A i \in b..e : s[i] \in Bytes
  <2>1. \A i \in b..e : i \in 1..Len(s)  BY <1>0
  <2> QED  BY <2>1, ElementOfSeq
<1>2. /\ SubSeq(s, b, e) \in Seq(Bytes)
      /\ Len(SubSeq(s, b, e)) = IF b <= e THEN e - b + 1 ELSE 0
      /\ \A i \in 1..(e - b + 1) : SubSeq(s, b, e)[i] = s[b + i - 1]
  BY <1>0, <1>1, SubSeqProperties
<1>3. (IF b <= e THEN e - b + 1 ELSE 0) = k  BY <1>0
<1>4. \A i \in 1..k : b + i - 1 = m + i  BY <1>0
<1> QED  BY <1>0, <1>2, <1>3, <1>4

\* The first k places.
LEMMA Prefix ==
  ASSUME NEW s \in Seq(Bytes), NEW k \in Nat, k <= Len(s)
  PROVE  /\ SubSeq(s, 1, k) \in Seq(Bytes) /\ Len(SubSeq(s, 1, k)) = k
         /\ \A i \in 1..k : SubSeq(s, 1, k)[i] = s[i]
  OBVIOUS

\* Two registers' parts, one after the other.
LEMMA Joined ==
  ASSUME NEW s \in Seq(Bytes), NEW t \in Seq(Bytes)
  PROVE  /\ s \o t \in Seq(Bytes) /\ Len(s \o t) = Len(s) + Len(t)
         /\ \A i \in 1..Len(s) : (s \o t)[i] = s[i]
         /\ \A i \in 1..Len(t) : (s \o t)[Len(s) + i] = t[i]
  BY ConcatProperties

\* The low places are replaced.
LEMMA LowReplaced ==
  ASSUME NEW rax \in Seq(Bytes), Len(rax) = Word, NEW low \in Seq(Bytes), Len(low) <= Word
  PROVE  /\ WithLow(rax, low) \in Seq(Bytes) /\ Len(WithLow(rax, low)) = Word
         /\ \A i \in 1..Len(low) : WithLow(rax, low)[i] = low[i]
         /\ \A i \in (Len(low) + 1)..Word : WithLow(rax, low)[i] = rax[i]
<1> DEFINE n == Len(low)
           k == Word - n
           rest == SubSeq(rax, n + 1, Word)
<1>0. n \in Nat /\ k \in Nat /\ n + k = Word  BY DEF Word
<1>1. rax \in Seq(Bytes) /\ Len(rax) = n + k /\ rest = SubSeq(rax, n + 1, n + k)
  BY <1>0
<1> HIDE DEF rest, n, k
<1>2. rest \in Seq(Bytes) /\ Len(rest) = k /\ \A i \in 1..k : rest[i] = rax[n + i]
  BY <1>0, <1>1, Part
<1>3. rest \in Seq(Bytes) /\ low \in Seq(Bytes)  BY <1>2
<1>4. /\ low \o rest \in Seq(Bytes) /\ Len(low \o rest) = Len(low) + Len(rest)
      /\ \A i \in 1..Len(low) : (low \o rest)[i] = low[i]
      /\ \A i \in 1..Len(rest) : (low \o rest)[Len(low) + i] = rest[i]
  BY <1>3, Joined
<1>5. WithLow(rax, low) = low \o rest  BY DEF WithLow, rest, n
<1>6. n = Len(low)  BY DEF n
<1>7. Len(WithLow(rax, low)) = Word  BY <1>0, <1>2, <1>4, <1>5, <1>6
<1>8. ASSUME NEW i \in (n + 1)..(n + k) PROVE (low \o rest)[i] = rax[i]
  <2>1. i - n \in 1..k /\ n + (i - n) = i  BY <1>0
  <2> QED  BY <1>2, <1>4, <1>6, <2>1
<1> QED  BY <1>0, <1>4, <1>5, <1>6, <1>7, <1>8

\* One doubling: what is held by n places is held by twice as many.
LEMMA Doubled ==
  ASSUME NEW value, NEW n \in 1..4, NEW rax, Holding(rax, value, n)
  PROVE  Holding(WithLow(Shl(rax, n), LowHalf(rax, n)), value, 2 * n)
<1> DEFINE k == Word - n
           top == SubSeq(rax, 1, k)
           high == Shl(rax, n)
           low == LowHalf(rax, n)
<1>0. rax \in Seq(Bytes) /\ Len(rax) = Word /\ (\A i \in 1..n : rax[i] = value)
  BY DEF Holding
<1>1. k \in Nat /\ n \in Nat /\ n + k = Word /\ n <= k /\ k <= Word /\ n <= Word  BY DEF Word
<1> HIDE DEF k
<1>2. /\ SubSeq(rax, 1, k) \in Seq(Bytes) /\ Len(SubSeq(rax, 1, k)) = k
      /\ \A i \in 1..k : SubSeq(rax, 1, k)[i] = rax[i]
  BY <1>0, <1>1, Prefix
<1>3. /\ SubSeq(rax, 1, n) \in Seq(Bytes) /\ Len(SubSeq(rax, 1, n)) = n
      /\ \A i \in 1..n : SubSeq(rax, 1, n)[i] = rax[i]
  BY <1>0, <1>1, Prefix
<1>4. low = SubSeq(rax, 1, n) /\ high = Zeros(n) \o top  BY DEF LowHalf, Shl, k
<1>5. Zeros(n) \in Seq(Bytes) /\ Len(Zeros(n)) = n  BY <1>1, ZerosHold
<1> HIDE DEF low, high
<1>6. /\ top \in Seq(Bytes) /\ Len(top) = k /\ \A i \in 1..k : top[i] = rax[i]  BY <1>2
<1> HIDE DEF top
<1>7. /\ Zeros(n) \o top \in Seq(Bytes) /\ Len(Zeros(n) \o top) = Len(Zeros(n)) + Len(top)
      /\ \A i \in 1..Len(top) : (Zeros(n) \o top)[Len(Zeros(n)) + i] = top[i]
  BY <1>5, <1>6, Joined
<1>8. high \in Seq(Bytes) /\ Len(high) = Word  BY <1>1, <1>4, <1>5, <1>6, <1>7
<1>9. \A i \in 1..k : high[n + i] = rax[i]  BY <1>4, <1>5, <1>6, <1>7
<1>10. low \in Seq(Bytes) /\ Len(low) = n /\ \A i \in 1..n : low[i] = value
  BY <1>0, <1>3, <1>4
<1>11. /\ WithLow(high, low) \in Seq(Bytes) /\ Len(WithLow(high, low)) = Word
       /\ \A i \in 1..Len(low) : WithLow(high, low)[i] = low[i]
       /\ \A i \in (Len(low) + 1)..Word : WithLow(high, low)[i] = high[i]
  <2>1. Len(low) <= Word  BY <1>1, <1>10
  <2> QED  BY <1>8, <1>10, <2>1, LowReplaced
<1>12. ASSUME NEW i \in 1..(2 * n) PROVE WithLow(high, low)[i] = value
  <2>1. CASE i \in 1..n  BY <1>10, <1>11, <2>1
  <2>2. CASE i \notin 1..n
    <3>1. i - n \in 1..n /\ i - n \in 1..k /\ n + (i - n) = i /\ i \in (n + 1)..Word
      BY <1>1, <2>2
    <3>2. high[i] = rax[i - n]  BY <1>9, <3>1
    <3>3. rax[i - n] = value  BY <1>0, <3>1
    <3> QED  BY <1>10, <1>11, <3>1, <3>2, <3>3
  <2> QED  BY <2>1, <2>2
<1> QED  BY <1>11, <1>12 DEF Holding, low, high

\* memset has its value in all of rax.
LEMMA ReplicatedHolds ==
  ASSUME NEW value \in Bytes
  PROVE  Holding(Replicated(value), value, Word)
<1> DEFINE pair == <<value, value>>
           ax == WithLow(Zeros(Word), pair)
           eax == WithLow(Shl(ax, 2), LowHalf(ax, 2))
<1>1. Word \in Nat /\ Word = 8 /\ 2 <= Word  BY DEF Word
<1>2. pair \in Seq(Bytes) /\ Len(pair) = 2 /\ \A i \in 1..2 : pair[i] = value  OBVIOUS
<1>3. Zeros(Word) \in Seq(Bytes) /\ Len(Zeros(Word)) = Word  BY <1>1, ZerosHold
<1> HIDE DEF pair
<1>4. Len(pair) <= Word  BY <1>1, <1>2
<1>5. /\ ax \in Seq(Bytes) /\ Len(ax) = Word
      /\ \A i \in 1..Len(pair) : ax[i] = pair[i]
  BY <1>2, <1>3, <1>4, LowReplaced
<1> HIDE DEF ax
<1>6. Holding(ax, value, 2)  BY <1>2, <1>5 DEF Holding
<1>7. Holding(eax, value, 2 * 2)  BY <1>6, Doubled
<1>8. Replicated(value) = WithLow(Shl(eax, 4), LowHalf(eax, 4))
  BY DEF Replicated, ax, pair
<1> HIDE DEF eax
<1>9. Holding(eax, value, 4)  BY <1>7
<1>10. Holding(WithLow(Shl(eax, 4), LowHalf(eax, 4)), value, 2 * 4)  BY <1>9, Doubled
<1>11. Holding(WithLow(Shl(eax, 4), LowHalf(eax, 4)), value, Word)  BY <1>1, <1>10
<1> QED  BY <1>8, <1>11

\* Words, and then bytes, of one value.
LEMMA LargeFills ==
  ASSUME NEW D \in SUBSET Int, NEW mem \in [D -> Bytes], NEW dest \in Int, NEW len \in Nat,
         NEW value, NEW rax, Holding(rax, value, Word)
  PROVE  MemSetLarge(mem, dest, rax, len)
           = [a \in D |-> IF a \in Cells(dest, len) THEN value ELSE mem[a]]
<1> DEFINE n == len \div Word
           r == len % Word
           first == StoreWords(mem, dest, rax, n)
<1>0. Word = 8 /\ \A i \in 1..8 : rax[i] = value  BY DEF Holding, Word
<1>1. n \in Nat /\ r \in Nat /\ Word * n + r = len  BY <1>0, WordsAndRest
<1>2. MemSetLarge(mem, dest, rax, len) = StoreBytes(first, dest + Word * n, rax, r)
  BY DEF MemSetLarge
<1>3. first = [a \in D |-> IF a - dest \in 0..(Word * n - 1)
                           THEN rax[((a - dest) % Word) + 1] ELSE mem[a]]
  BY DEF StoreWords
<1> HIDE DEF n, r, first
<1>4. StoreBytes(first, dest + Word * n, rax, r)
        = [a \in D |-> IF a - (dest + Word * n) \in 0..(r - 1) THEN rax[1] ELSE first[a]]
  BY <1>3 DEF StoreBytes
<1>5. ASSUME NEW a \in D
      PROVE  (IF a - (dest + Word * n) \in 0..(r - 1) THEN rax[1] ELSE first[a])
               = IF a \in Cells(dest, len) THEN value ELSE mem[a]
  <2>0. a \in Int /\ rax[1] = value  BY <1>0
  <2>1. CASE a - (dest + Word * n) \in 0..(r - 1)
    <3>1. a \in Cells(dest, len)  BY <1>0, <1>1, <2>0, <2>1 DEF Cells
    <3> QED  BY <2>0, <2>1, <3>1
  <2>2. CASE a - dest \in 0..(Word * n - 1)
    <3>1. ~(a - (dest + Word * n) \in 0..(r - 1)) /\ a \in Cells(dest, len)
      BY <1>0, <1>1, <2>0, <2>2 DEF Cells
    <3>2. ((a - dest) % Word) + 1 \in 1..8  BY <1>0, <2>0
    <3>3. first[a] = value  BY <1>0, <1>3, <2>2, <3>2
    <3> QED  BY <3>1, <3>3
  <2>3. CASE ~(a - (dest + Word * n) \in 0..(r - 1)) /\ ~(a - dest \in 0..(Word * n - 1))
    <3>1. a \notin Cells(dest, len)
      BY <1>0, <1>1, <2>0, <2>3 DEF Cells
    <3>2. first[a] = mem[a]  BY <1>3, <2>3
    <3> QED  BY <2>3, <3>1, <3>2
  <2> QED  BY <2>1, <2>2, <2>3
<1> QED  BY <1>2, <1>4, <1>5

\* memset fills what it is asked to but the eight bytes it skips.
LEMMA FillsAll ==
  ASSUME NEW D \in SUBSET Int, NEW mem \in [D -> Bytes], NEW dest \in Int, NEW len \in Nat,
         NEW value \in Bytes,
         NEW skipped, skipped = IF value # 0 /\ len \in Word..(2 * Word - 1) THEN Word ELSE 0
  PROVE  MemSet(mem, dest, value, len)
           = [a \in D |-> IF a \in Cells(dest, len - skipped) THEN value ELSE mem[a]]
<1>0. len - 0 = len  OBVIOUS
<1>1. CASE value = 0
  <2>1. MemSet(mem, dest, value, len) = MemSetLarge(mem, dest, Zeros(Word), len)
    BY <1>1, Zenon DEF MemSet
  <2>2. Holding(Zeros(Word), value, Word)  BY <1>1, ZerosHold DEF Holding, Word
  <2>3. skipped = 0  BY <1>1
  <2> QED  BY <1>0, <2>1, <2>2, <2>3, LargeFills
<1>2. CASE value # 0 /\ len < 2 * Word
  <2> DEFINE n == len % Word
  <2>1. MemSet(mem, dest, value, len) = StoreBytes(mem, dest, <<value>>, n)
    BY <1>2, Zenon DEF MemSet
  <2>2. n = len - skipped
    <3>1. CASE len \in Word..(2 * Word - 1)  BY <1>2, <3>1 DEF Word
    <3>2. CASE len \notin Word..(2 * Word - 1)  BY <1>2, <3>2 DEF Word
    <3> QED  BY <3>1, <3>2
  <2>3. n \in Nat  BY DEF Word
  <2> HIDE DEF n
  <2>4. StoreBytes(mem, dest, <<value>>, n)
          = [a \in D |-> IF a - dest \in 0..(n - 1) THEN value ELSE mem[a]]
    BY DEF StoreBytes
  <2>5. \A a \in D : a - dest \in 0..(n - 1) <=> a \in Cells(dest, n)
    BY <2>3 DEF Cells
  <2> QED  BY <2>1, <2>2, <2>4, <2>5
<1>3. CASE value # 0 /\ ~(len < 2 * Word)
  <2>1. MemSet(mem, dest, value, len) = MemSetLarge(mem, dest, Replicated(value), len)
    BY <1>3, Zenon DEF MemSet
  <2>2. Holding(Replicated(value), value, Word)  BY ReplicatedHolds
  <2>3. skipped = 0  BY <1>3 DEF Word
  <2> QED  BY <1>0, <2>1, <2>2, <2>3, LargeFills
<1> QED  BY <1>1, <1>2, <1>3

\* r orders two arrays by the first bytes that differ.
Orders(r, mem, a, b, len) ==
  IF r = 0 THEN \A i \in 0..(len - 1) : mem[a + i] = mem[b + i]
  ELSE \E i \in 0..(len - 1) :
         /\ mem[a + i] # mem[b + i] /\ \A j \in 0..(i - 1) : mem[a + j] = mem[b + j]
         /\ (r > 0) = (mem[a + i] > mem[b + i])

\* memcmp does.
LEMMA OrdersAll ==
  ASSUME NEW D \in SUBSET Int, NEW mem \in [D -> Bytes], NEW a \in Int, NEW b \in Int,
         NEW len \in Nat, Cells(a, len) \cup Cells(b, len) \subseteq D,
         NEW r, r = MemCmp(mem, a, b, len)
  PROVE  Orders(r, mem, a, b, len)
<1> DEFINE d == Differ(mem, a, b, len)
<1>1. d = {i \in 0..(len - 1) : mem[a + i] # mem[b + i]}  BY DEF Differ
<1>2. r = IF d = {} THEN 0 ELSE IF mem[b + First(d)] < mem[a + First(d)] THEN 1 ELSE -1
  BY DEF MemCmp
<1> HIDE DEF d
<1>3. CASE d = {}
  BY <1>1, <1>2, <1>3 DEF Orders
<1>4. CASE d # {}
  <2>1. d \in SUBSET Nat  BY <1>1
  <2>2. \E i \in d : \A j \in d : i <= j  BY <1>4, <2>1, Least
  <2>3. First(d) \in d /\ \A j \in d : First(d) <= j  BY <2>2 DEF First
  <2> DEFINE f == First(d)
  <2> HIDE DEF f
  <2>4. f \in 0..(len - 1) /\ mem[a + f] # mem[b + f] /\ \A j \in d : f <= j
    BY <1>1, <2>3 DEF f
  <2>5. \A j \in 0..(f - 1) : mem[a + j] = mem[b + j]
    <3> SUFFICES ASSUME NEW j \in 0..(f - 1), j \in d PROVE FALSE
      <4>1. \A j \in 0..(f - 1) : j \in 0..(len - 1)  BY <2>4
      <4> QED  BY <1>1, <4>1
    <3> QED  BY <2>4
  <2>6. a + f \in Cells(a, len) /\ b + f \in Cells(b, len)  BY <2>4 DEF Cells
  <2>7. mem[a + f] \in Bytes /\ mem[b + f] \in Bytes  BY <2>6
  <2>8. r = IF mem[b + f] < mem[a + f] THEN 1 ELSE -1  BY <1>2, <1>4 DEF f
  <2>9. r # 0 /\ (r > 0) = (mem[a + f] > mem[b + f])  BY <2>7, <2>8 DEF Bytes
  <2> QED  BY <2>4, <2>5, <2>9 DEF Orders
<1> QED  BY <1>3, <1>4

----------------------------------------------------------------------------
(* Formatting: the table of cluster sizes row by row, then the layout that *)
(* f_mkfs computes, which chk_mounted is shown to find again.              *)

\* The rows of the table of cluster sizes.
LEMMA Rows ==
  /\ DOMAIN vst = 1..11 /\ Len(vst) = 11
  /\ vst[1] = 1024 /\ vst[2] = 512 /\ vst[3] = 256 /\ vst[4] = 128 /\ vst[5] = 64
  /\ vst[6] = 32 /\ vst[7] = 16 /\ vst[8] = 8 /\ vst[9] = 4 /\ vst[10] = 2 /\ vst[11] = 0
  /\ cst[1] \div SS = 64 /\ cst[2] \div SS = 32 /\ cst[3] \div SS = 16 /\ cst[4] \div SS = 8
  /\ cst[5] \div SS = 4 /\ cst[6] \div SS = 32 /\ cst[7] \div SS = 16 /\ cst[8] \div SS = 8
  /\ cst[9] \div SS = 4 /\ cst[10] \div SS = 2 /\ cst[11] \div SS = 1
  BY DEF vst, cst, SS

\* The row of a size is the one row that it reaches and those before it do not.
LEMMA RowIs ==
  ASSUME NEW r \in Nat, NEW i \in 1..11, r >= vst[i], \A j \in 1..(i - 1) : r < vst[j]
  PROVE  Row(r) = i
<1>1. \A k \in 1..11 : vst[k] \in Nat
  <2> SUFFICES ASSUME NEW k \in 1..11 PROVE vst[k] \in Nat  OBVIOUS
  <2>1. \/ k = 1 \/ k = 2 \/ k = 3 \/ k = 4 \/ k = 5 \/ k = 6 \/ k = 7 \/ k = 8 \/ k = 9
        \/ k = 10 \/ k = 11
    OBVIOUS
  <2> QED  BY <2>1, Rows
<1>2. ASSUME NEW k \in 1..11, r >= vst[k], \A j \in 1..(k - 1) : r < vst[j]
      PROVE  k = i
  <2>1. CASE k < i
    <3>1. r < vst[k]  BY <2>1
    <3> QED  BY <1>1, <1>2, <3>1
  <2>2. CASE i < k
    <3>1. r < vst[i]  BY <1>2, <2>2
    <3> QED  BY <1>1, <3>1
  <2> QED  BY <2>1, <2>2
<1> QED  BY <1>2, Rows DEF Row

\* The sectors of a cluster of a volume of n sectors.
Chosen(n, au) ==
  \/ n >= 2048000 /\ au = 64
  \/ n >= 1024000 /\ n < 2048000 /\ au = 32
  \/ n >= 512000 /\ n < 1024000 /\ au = 16
  \/ n >= 256000 /\ n < 512000 /\ au = 8
  \/ n >= 128000 /\ n < 256000 /\ au = 4
  \/ n >= 64000 /\ n < 128000 /\ au = 32
  \/ n >= 32000 /\ n < 64000 /\ au = 16
  \/ n >= 16000 /\ n < 32000 /\ au = 8
  \/ n >= 8000 /\ n < 16000 /\ au = 4
  \/ n >= 4000 /\ n < 8000 /\ au = 2
  \/ n < 4000 /\ au = 1

\* f_mkfs chooses it by the rows.
LEMMA SizeChosen ==
  ASSUME NEW n \in Nat
  PROVE  Chosen(n, ClusterSize(n))
<1> DEFINE r == n \div 2000
<1>1. r \in Nat  OBVIOUS
<1> HIDE DEF r
<1>2. ClusterSize(n) = cst[Row(r)] \div SS  BY DEF ClusterSize, r
<1>3. CASE r >= 1024
  BY <1>1, <1>2, <1>3, Rows, RowIs DEF Chosen, r
<1>4. CASE r >= 512 /\ r < 1024
  <2>1. \A j \in 1..1 : r < vst[j]
    <3> SUFFICES ASSUME NEW j \in 1..1 PROVE r < vst[j]  OBVIOUS
    <3>1. j = 1  OBVIOUS
    <3> QED  BY <1>1, <1>4, <3>1, Rows
  <2>2. Row(r) = 2  BY <1>1, <1>4, <2>1, Rows, RowIs
  <2> QED  BY <1>1, <1>2, <1>4, <2>2, Rows DEF Chosen, r
<1>5. CASE r >= 256 /\ r < 512
  <2>1. \A j \in 1..2 : r < vst[j]
    <3> SUFFICES ASSUME NEW j \in 1..2 PROVE r < vst[j]  OBVIOUS
    <3>1. j = 1 \/ j = 2  OBVIOUS
    <3> QED  BY <1>1, <1>5, <3>1, Rows
  <2>2. Row(r) = 3  BY <1>1, <1>5, <2>1, Rows, RowIs
  <2> QED  BY <1>1, <1>2, <1>5, <2>2, Rows DEF Chosen, r
<1>6. CASE r >= 128 /\ r < 256
  <2>1. \A j \in 1..3 : r < vst[j]
    <3> SUFFICES ASSUME NEW j \in 1..3 PROVE r < vst[j]  OBVIOUS
    <3>1. j = 1 \/ j = 2 \/ j = 3  OBVIOUS
    <3> QED  BY <1>1, <1>6, <3>1, Rows
  <2>2. Row(r) = 4  BY <1>1, <1>6, <2>1, Rows, RowIs
  <2> QED  BY <1>1, <1>2, <1>6, <2>2, Rows DEF Chosen, r
<1>7. CASE r >= 64 /\ r < 128
  <2>1. \A j \in 1..4 : r < vst[j]
    <3> SUFFICES ASSUME NEW j \in 1..4 PROVE r < vst[j]  OBVIOUS
    <3>1. j = 1 \/ j = 2 \/ j = 3 \/ j = 4  OBVIOUS
    <3> QED  BY <1>1, <1>7, <3>1, Rows
  <2>2. Row(r) = 5  BY <1>1, <1>7, <2>1, Rows, RowIs
  <2> QED  BY <1>1, <1>2, <1>7, <2>2, Rows DEF Chosen, r
<1>8. CASE r >= 32 /\ r < 64
  <2>1. \A j \in 1..5 : r < vst[j]
    <3> SUFFICES ASSUME NEW j \in 1..5 PROVE r < vst[j]  OBVIOUS
    <3>1. j = 1 \/ j = 2 \/ j = 3 \/ j = 4 \/ j = 5  OBVIOUS
    <3> QED  BY <1>1, <1>8, <3>1, Rows
  <2>2. Row(r) = 6  BY <1>1, <1>8, <2>1, Rows, RowIs
  <2> QED  BY <1>1, <1>2, <1>8, <2>2, Rows DEF Chosen, r
<1>9. CASE r >= 16 /\ r < 32
  <2>1. \A j \in 1..6 : r < vst[j]
    <3> SUFFICES ASSUME NEW j \in 1..6 PROVE r < vst[j]  OBVIOUS
    <3>1. j = 1 \/ j = 2 \/ j = 3 \/ j = 4 \/ j = 5 \/ j = 6  OBVIOUS
    <3> QED  BY <1>1, <1>9, <3>1, Rows
  <2>2. Row(r) = 7  BY <1>1, <1>9, <2>1, Rows, RowIs
  <2> QED  BY <1>1, <1>2, <1>9, <2>2, Rows DEF Chosen, r
<1>10. CASE r >= 8 /\ r < 16
  <2>1. \A j \in 1..7 : r < vst[j]
    <3> SUFFICES ASSUME NEW j \in 1..7 PROVE r < vst[j]  OBVIOUS
    <3>1. j = 1 \/ j = 2 \/ j = 3 \/ j = 4 \/ j = 5 \/ j = 6 \/ j = 7  OBVIOUS
    <3> QED  BY <1>1, <1>10, <3>1, Rows
  <2>2. Row(r) = 8  BY <1>1, <1>10, <2>1, Rows, RowIs
  <2> QED  BY <1>1, <1>2, <1>10, <2>2, Rows DEF Chosen, r
<1>11. CASE r >= 4 /\ r < 8
  <2>1. \A j \in 1..8 : r < vst[j]
    <3> SUFFICES ASSUME NEW j \in 1..8 PROVE r < vst[j]  OBVIOUS
    <3>1. j = 1 \/ j = 2 \/ j = 3 \/ j = 4 \/ j = 5 \/ j = 6 \/ j = 7 \/ j = 8  OBVIOUS
    <3> QED  BY <1>1, <1>11, <3>1, Rows
  <2>2. Row(r) = 9  BY <1>1, <1>11, <2>1, Rows, RowIs
  <2> QED  BY <1>1, <1>2, <1>11, <2>2, Rows DEF Chosen, r
<1>12. CASE r >= 2 /\ r < 4
  <2>1. \A j \in 1..9 : r < vst[j]
    <3> SUFFICES ASSUME NEW j \in 1..9 PROVE r < vst[j]  OBVIOUS
    <3>1. j = 1 \/ j = 2 \/ j = 3 \/ j = 4 \/ j = 5 \/ j = 6 \/ j = 7 \/ j = 8 \/ j = 9  OBVIOUS
    <3> QED  BY <1>1, <1>12, <3>1, Rows
  <2>2. Row(r) = 10  BY <1>1, <1>12, <2>1, Rows, RowIs
  <2> QED  BY <1>1, <1>2, <1>12, <2>2, Rows DEF Chosen, r
<1>13. CASE r < 2
  <2>1. \A j \in 1..10 : r < vst[j]
    <3> SUFFICES ASSUME NEW j \in 1..10 PROVE r < vst[j]  OBVIOUS
    <3>1. j = 1 \/ j = 2 \/ j = 3 \/ j = 4 \/ j = 5 \/ j = 6 \/ j = 7 \/ j = 8 \/ j = 9 \/ j = 10  OBVIOUS
    <3> QED  BY <1>1, <1>13, <3>1, Rows
  <2>2. Row(r) = 11  BY <1>1, <1>13, <2>1, Rows, RowIs
  <2> QED  BY <1>1, <1>2, <1>13, <2>2, Rows DEF Chosen, r
<1> QED  BY <1>1, <1>3, <1>4, <1>5, <1>6, <1>7, <1>8, <1>9, <1>10, <1>11, <1>12, <1>13

\* The sub-type that a number of clusters makes.
LEMMA TypeIs ==
  ASSUME NEW k \in Nat
  PROVE  /\ k >= 65526 => TypeFor(k) = "FS_FAT32"
         /\ k < 65526 /\ k >= 4086 => TypeFor(k) = "FS_FAT16"
         /\ k < 4086 => TypeFor(k) = "FS_FAT12"
<1>1. CASE k >= 65526
  <2>1. k >= MIN_FAT32 /\ ~(k < MIN_FAT32)  BY <1>1 DEF MIN_FAT32
  <2>2. TypeFor(k) = "FS_FAT32"  BY <2>1, Zenon DEF TypeFor
  <2> QED  BY <1>1, <2>2
<1>2. CASE k < 65526 /\ k >= 4086
  <2>1. k < MIN_FAT32 /\ k >= MIN_FAT16 /\ ~(k >= MIN_FAT32)
    BY <1>2 DEF MIN_FAT32, MIN_FAT16
  <2>2. TypeFor(k) = "FS_FAT16"  BY <2>1, Zenon DEF TypeFor
  <2> QED  BY <1>2, <2>2
<1>3. CASE k < 4086
  <2>1. ~(k >= MIN_FAT32) /\ ~(k >= MIN_FAT16)  BY <1>3 DEF MIN_FAT32, MIN_FAT16
  <2>2. TypeFor(k) = "FS_FAT12"  BY <2>1, Zenon DEF TypeFor
  <2> QED  BY <1>3, <2>2
<1> QED  BY <1>1, <1>2, <1>3

\* The sectors of a table of k clusters, and those that a table of k entries needs.
LEMMA FatSizes ==
  ASSUME NEW k \in Nat
  PROVE  /\ FatSize("FS_FAT32", k) = (k * 4 + 519) \div 512
         /\ FatSize("FS_FAT16", k) = (k * 2 + 515) \div 512
         /\ FatSize("FS_FAT12", k) = ((k * 3 + 1) \div 2 + 514) \div 512
         /\ RoundedUp(FatBytes("FS_FAT32", k)) = (k * 4 + 511) \div 512
         /\ RoundedUp(FatBytes("FS_FAT16", k)) = (k * 2 + 511) \div 512
         /\ RoundedUp(FatBytes("FS_FAT12", k)) = ((k * 3) \div 2 + (k % 2) + 511) \div 512
<1>1. "FS_FAT32" # "FS_FAT12" /\ "FS_FAT32" # "FS_FAT16" /\ "FS_FAT12" # "FS_FAT16"
  OBVIOUS
<1>2. /\ FatSize("FS_FAT32", k) = RoundedUp(k * 4 + 8)
      /\ FatSize("FS_FAT16", k) = RoundedUp(k * 2 + 4)
  BY <1>1, Zenon DEF FatSize
<1>3. FatSize("FS_FAT12", k) = RoundedUp((k * 3 + 1) \div 2 + 3)
  BY <1>1, Zenon DEF FatSize
<1>4. FatBytes("FS_FAT32", k) = k * 4 /\ FatBytes("FS_FAT16", k) = k * 2
  BY <1>1, Zenon DEF FatBytes
<1>5. FatBytes("FS_FAT12", k) = ((k * 3) \div 2) + (k % 2)
  BY <1>1, Zenon DEF FatBytes
<1> QED  BY <1>2, <1>3, <1>4, <1>5 DEF RoundedUp, SS

\* What the layout of a volume of n sectors must be for chk_mounted to find it again.
LaidOutWell(n, fmt, au, nRsv, nFat, nDir, nClst) ==
  /\ au \in {1, 2, 4, 8, 16, 32, 64} /\ nRsv \in 1..65535 /\ nFat \in Nat /\ nFat > 0
  /\ \/ fmt = "FS_FAT32" /\ nDir = 0 /\ nRsv = 32 /\ n >= 65536
     \/ fmt \in {"FS_FAT12", "FS_FAT16"} /\ nDir = 32 /\ nRsv = 1 /\ nFat < 65536
  /\ nRsv + nFat + nDir + au <= n
  /\ nClst = (n - nRsv - nFat - nDir) \div au
  /\ nClst \in Nat /\ nClst > 0 /\ nClst * au <= n - nRsv - nFat - nDir
  /\ TypeFor(nClst) = fmt
  /\ nFat >= RoundedUp(FatBytes(fmt, nClst + 2))

\* chk_mounted finds the volume that was laid out.
LEMMA FormattedMounts ==
  ASSUME NEW n \in Nat, NEW fmt, NEW au, NEW nRsv, NEW nFat, NEW nDir, NEW nClst,
         LaidOutWell(n, fmt, au, nRsv, nFat, nDir, nClst),
         call.sectors = n
  PROVE  Fitting(Formatted(n, fmt, au, nRsv, nFat, nDir, nClst))
<1> DEFINE b == BootSector(n, fmt, au, nRsv, nFat, nDir)
           made == Formatted(n, fmt, au, nRsv, nFat, nDir, nClst)
<1>1. /\ au \in {1, 2, 4, 8, 16, 32, 64} /\ nRsv \in 1..65535 /\ nFat \in Nat /\ nFat > 0
      /\ nDir \in {0, 32} /\ nClst \in Nat /\ nClst > 0
      /\ nRsv + nFat + nDir + au <= n /\ nClst * au <= n - nRsv - nFat - nDir
      /\ fmt \in {"FS_FAT12", "FS_FAT16", "FS_FAT32"}
      /\ (fmt = "FS_FAT32" => nDir = 0 /\ nRsv = 32 /\ n >= 65536)
      /\ (fmt # "FS_FAT32" => nDir = 32 /\ nRsv = 1 /\ nFat < 65536)
  BY DEF LaidOutWell
<1>2. /\ nClst = (n - nRsv - nFat - nDir) \div au /\ TypeFor(nClst) = fmt
      /\ nFat >= RoundedUp(FatBytes(fmt, nClst + 2))
  BY DEF LaidOutWell
<1>3. /\ b.SecPerClus = au /\ b.RsvdSecCnt = nRsv /\ b.NumFATs = 1
      /\ b.RootEntCnt = (IF fmt = "FS_FAT32" THEN 0 ELSE 512)
      /\ b.RootClus = (IF fmt = "FS_FAT32" THEN 2 ELSE 0)
  BY <1>1 DEF BootSector, AsWord, N_FATS, N_ROOTDIR
<1>4. FatSectors(b) = nFat
  <2>1. CASE fmt = "FS_FAT32"  BY <2>1 DEF FatSectors, BootSector
  <2>2. CASE fmt # "FS_FAT32"
    <3>1. AsWord(nFat) = nFat /\ nFat # 0  BY <1>1, <2>2 DEF AsWord
    <3> QED  BY <2>2, <3>1 DEF FatSectors, BootSector
  <2> QED  BY <2>1, <2>2
<1>5. Total(b) = n
  <2>1. n # 0  BY <1>1
  <2>2. CASE n < 65536  BY <2>1, <2>2 DEF Total, BootSector
  <2>3. CASE ~(n < 65536)  BY <2>3 DEF Total, BootSector
  <2> QED  BY <2>2, <2>3
<1>6. /\ made.res = "FR_OK" /\ made.fmt = fmt /\ made.nClst = nClst /\ made.boot = b
      /\ made.cleared.from = nRsv
      /\ made.cleared.to = nRsv + nFat * 1 + (IF fmt = "FS_FAT32" THEN au ELSE nDir)
      /\ made.FreeCount = IF fmt = "FS_FAT32" THEN nClst - 1 ELSE -1
  BY DEF Formatted, N_FATS
<1> HIDE DEF b, made
<1>7. (b.RootEntCnt * SZ_DIR) \div SS = nDir /\ b.RootEntCnt % (SS \div SZ_DIR) = 0
      /\ (fmt = "FS_FAT32") = (b.RootEntCnt = 0)
  BY <1>1, <1>3 DEF SZ_DIR, SS
<1>8. System(b) = nRsv + nFat + nDir
  BY <1>1, <1>3, <1>4, <1>7 DEF System
<1>9. Clusters(b) = nClst
  <2>1. Total(b) - System(b) = n - nRsv - nFat - nDir  BY <1>1, <1>5, <1>8
  <2> QED  BY <1>2, <1>3, <2>1 DEF Clusters
<1>10. Mountable(b, nClst, fmt)
  <2>1. Total(b) >= System(b) /\ nClst # 0 /\ b.RsvdSecCnt # 0  BY <1>1, <1>3, <1>5, <1>8
  <2>2. b.SecPerClus \in {1, 2, 4, 8, 16, 32, 64, 128} /\ b.NumFATs \in {1, 2}  BY <1>1, <1>3
  <2> QED  BY <1>2, <1>4, <1>7, <2>1, <2>2 DEF Mountable
<1> DEFINE fs == ChkMounted(b)
<1>11. fs = [res |-> "FR_OK", fs_type |-> fmt, n_fatent |-> nClst + 2, csize |-> au,
             fatbase |-> nRsv, database |-> nRsv + nFat + nDir,
             dirbase |-> IF fmt = "FS_FAT32" THEN b.RootClus ELSE nRsv + nFat * 1]
  BY <1>2, <1>3, <1>4, <1>8, <1>9, <1>10 DEF ChkMounted, Found
<1> HIDE DEF fs
<1>12. /\ fs.res = "FR_OK" /\ fs.fs_type = fmt /\ fs.n_fatent = nClst + 2 /\ fs.csize = au
       /\ fs.fatbase = nRsv /\ fs.database = nRsv + nFat + nDir
       /\ fs.dirbase = IF fmt = "FS_FAT32" THEN 2 ELSE nRsv + nFat * 1
  BY <1>3, <1>11
<1>13. fs.database + made.nClst * fs.csize <= call.sectors
  BY <1>1, <1>6, <1>12
<1>14. CASE fmt = "FS_FAT32"
  <2>1. made.cleared.to = fs.database + fs.csize /\ made.FreeCount = (fs.n_fatent - 2) - 1
    BY <1>1, <1>6, <1>12, <1>14
  <2> QED  BY <1>6, <1>12, <1>13, <1>14, <2>1 DEF Fitting, fs, made
<1>15. CASE fmt # "FS_FAT32"
  <2>1. made.cleared.to = fs.database /\ fs.dirbase < fs.database
    BY <1>1, <1>6, <1>12, <1>15
  <2> QED  BY <1>6, <1>12, <1>13, <1>15, <2>1 DEF Fitting, fs, made
<1> QED  BY <1>14, <1>15

\* A volume that f_mkfs lays out as FAT32.
LEMMA Makes32 ==
  ASSUME NEW n \in Nat, n >= 2048000, n \div 64 >= 65526, call.sectors = n
  PROVE  LET made == WithType(n, "FS_FAT32", 64)
         IN  /\ made.res = "FR_OK" => ~SizeRefused /\ Fitting(made)
             /\ made.res # "FR_OK" => SizeRefused
<1> DEFINE q == n \div 64
           nFat == (q * 4 + 519) \div 512
           nClst == (n - 32 - nFat) \div 64
<1>1. q \in Nat /\ q >= 65526 /\ 64 * q <= n /\ n < 64 * q + 64  OBVIOUS
<1> HIDE DEF q
<1>2. nFat \in Nat /\ 512 * nFat <= q * 4 + 519 /\ q * 4 + 519 < 512 * nFat + 512 /\ nFat >= 512
  BY <1>1
<1>3. FatSize("FS_FAT32", q) = nFat
  BY <1>1, FatSizes
<1> HIDE DEF nFat
<1>4. 32 + nFat + 64 <= n /\ n - 32 - nFat \in Nat  BY <1>1, <1>2
<1>5. nClst \in Nat /\ 64 * nClst <= n - 32 - nFat /\ n - 32 - nFat < 64 * nClst + 64
  BY <1>4
<1>6. (n - 32 - nFat * 1 - 0) \div 64 = nClst /\ ~(n < 32 + nFat * 1 + 0 + 64)
  BY <1>1, <1>2
<1>7. WithType(n, "FS_FAT32", 64) = Final(n, "FS_FAT32", 64, 32, nFat, 0, nClst)
  BY <1>3, <1>6 DEF WithType, LaidOut, q, N_FATS
<1> HIDE DEF nClst
<1>8. CASE nClst < 65526
  <2>1. WithType(n, "FS_FAT32", 64).res # "FR_OK"
    BY <1>5, <1>7, <1>8 DEF Final, Refused, MIN_FAT32
  <2>2. n \in (65526 * 64)..(65526 * 64 + 32 + 512 - 1)
    BY <1>1, <1>2, <1>5, <1>8
  <2> QED  BY <2>1, <2>2 DEF SizeRefused, MIN_FAT32
<1>9. CASE nClst >= 65526
  <2>1. n >= 65526 * 64 + 32 + 512  BY <1>1, <1>2, <1>5, <1>9
  <2>2. ~SizeRefused  BY <2>1 DEF SizeRefused, MIN_FAT32
  <2>3. WithType(n, "FS_FAT32", 64) = Formatted(n, "FS_FAT32", 64, 32, nFat, 0, nClst)
    BY <1>5, <1>7, <1>9 DEF Final, MIN_FAT32
  <2>4. TypeFor(nClst) = "FS_FAT32"  BY <1>5, <1>9, TypeIs
  <2>5. nFat >= RoundedUp(FatBytes("FS_FAT32", nClst + 2))
    <3>1. RoundedUp(FatBytes("FS_FAT32", nClst + 2)) = ((nClst + 2) * 4 + 511) \div 512
      BY <1>5, FatSizes
    <3>2. nClst <= q  BY <1>1, <1>2, <1>5
    <3> QED  BY <1>1, <1>2, <1>5, <3>1, <3>2
  <2>6. nClst = (n - 32 - nFat - 0) \div 64  BY <1>2 DEF nClst
  <2>7. LaidOutWell(n, "FS_FAT32", 64, 32, nFat, 0, nClst)
    BY <1>2, <1>4, <1>5, <1>9, <2>4, <2>5, <2>6 DEF LaidOutWell
  <2>8. Fitting(Formatted(n, "FS_FAT32", 64, 32, nFat, 0, nClst))
    BY <2>7, FormattedMounts
  <2>9. WithType(n, "FS_FAT32", 64).res = "FR_OK"  BY <2>3 DEF Formatted
  <2> QED  BY <2>2, <2>3, <2>8, <2>9
<1> QED  BY <1>5, <1>8, <1>9

\* Clusters of each size, and how many less there are when d sectors are taken off.
LEMMA Divided ==
  ASSUME NEW au \in {1, 2, 4, 8, 16, 32, 64}, NEW m \in Nat, NEW d \in 0..m
  PROVE  /\ m \div au \in Nat /\ (m \div au) * au <= m /\ m < (m \div au) * au + au
         /\ (m - d) \div au <= m \div au /\ m \div au <= ((m - d) \div au) + d
<1>1. CASE au = 1  BY <1>1
<1>2. CASE au = 2  BY <1>2
<1>3. CASE au = 4  BY <1>3
<1>4. CASE au = 8  BY <1>4
<1>5. CASE au = 16  BY <1>5
<1>6. CASE au = 32  BY <1>6
<1>7. CASE au = 64  BY <1>7
<1> QED  BY <1>1, <1>2, <1>3, <1>4, <1>5, <1>6, <1>7

\* The sectors of the table of a FAT12 volume.
LEMMA Fat12Size ==
  ASSUME NEW k \in Nat, k < 4086
  PROVE  /\ FatSize("FS_FAT12", k) \in 1..12
         /\ 512 * FatSize("FS_FAT12", k) >= ((k * 3 + 1) \div 2) + 3
<1>1. FatSize("FS_FAT12", k) = ((k * 3 + 1) \div 2 + 514) \div 512  BY FatSizes
<1> QED  BY <1>1

\* Clusters that a volume would have without its tables.
Quotient(n, au) == n \div au

\* A volume that is laid out as FAT12 or FAT16.
LEMMA MakesSmall ==
  ASSUME NEW n \in Nat, n >= 128, NEW au \in {1, 2, 4, 8, 16, 32, 64},
         NEW fmt \in {"FS_FAT12", "FS_FAT16"}, NEW q, q = Quotient(n, au),
         fmt = "FS_FAT16" => q >= 32000 /\ q < 65526 /\ n >= 128000,
         fmt = "FS_FAT12" => q >= 128 /\ q < 4086 /\ au <= 32 /\ (au > 1 => n >= 4000),
         call.sectors = n
  PROVE  LET made == WithType(n, fmt, au)
         IN  made.res = "FR_OK" /\ Fitting(made)
<1> DEFINE nFat == FatSize(fmt, q)
           d == 1 + nFat + 32
           nClst == (n - d) \div au
<1>1. q \in Nat /\ q * au <= n /\ n < q * au + au
  <2>1. 0 \in 0..n  OBVIOUS
  <2> QED  BY <2>1, Divided DEF Quotient
<1> HIDE DEF nFat
<1>2. /\ nFat \in 1..256
      /\ fmt = "FS_FAT16" => 512 * nFat >= q * 2 + 4
      /\ fmt = "FS_FAT12" => 512 * nFat >= ((q * 3 + 1) \div 2) + 3 /\ nFat <= 12
  <2>1. CASE fmt = "FS_FAT16"
    <3>1. nFat = (q * 2 + 515) \div 512  BY <1>1, <2>1, FatSizes DEF nFat
    <3> QED  BY <1>1, <2>1, <3>1
  <2>2. CASE fmt = "FS_FAT12"
    <3>1. nFat = FatSize("FS_FAT12", q)  BY <2>2 DEF nFat
    <3>2. q \in Nat /\ q < 4086  BY <1>1, <2>2
    <3> QED  BY <1>1, <2>2, <3>1, <3>2, Fat12Size
  <2> QED  BY <2>1, <2>2
<1>3. d \in 0..n /\ 1 + nFat + 32 + au <= n
  BY <1>1, <1>2
<1>4. /\ n - d \in Nat /\ (n - d) \div au \in Nat /\ ((n - d) \div au) * au <= n - d
      /\ (n - d) \div au <= q /\ q <= ((n - d) \div au) + d
  <2>1. n - d \in Nat  BY <1>3
  <2>2. 0 \in 0..(n - d)  BY <2>1
  <2> HIDE DEF d
  <2>3. (n - d) \div au \in Nat /\ ((n - d) \div au) * au <= n - d  BY <2>1, <2>2, Divided
  <2>4. (n - d) \div au <= n \div au /\ n \div au <= ((n - d) \div au) + d  BY <1>3, Divided
  <2> QED  BY <2>1, <2>3, <2>4 DEF Quotient
<1>5. n - 1 - nFat * 1 - 32 = n - d /\ ~(n < 1 + nFat * 1 + 32 + au) /\ n - 1 - nFat - 32 = n - d
  BY <1>2, <1>3
<1>6. (N_ROOTDIR * SZ_DIR) \div SS = 32  BY DEF N_ROOTDIR, SZ_DIR, SS
<1>7. fmt # "FS_FAT32"  OBVIOUS
<1>8. WithType(n, fmt, au) = LaidOut(n, fmt, au, 1, nFat, 32)
  BY <1>6, <1>7 DEF WithType, nFat, Quotient
<1>9. LaidOut(n, fmt, au, 1, nFat, 32) = Final(n, fmt, au, 1, nFat, 32, nClst)
  BY <1>5 DEF LaidOut, N_FATS
<1>10. nClst \in Nat /\ nClst * au <= n - d /\ nClst <= q /\ q <= nClst + d
  BY <1>4
<1>11. nClst = (n - 1 - nFat - 32) \div au  BY <1>5
<1> HIDE DEF nClst
<1>12. /\ fmt = "FS_FAT16" => nClst >= 4086 /\ nClst < 65526
       /\ fmt = "FS_FAT12" => nClst > 0 /\ nClst < 4086
  BY <1>1, <1>2, <1>10
<1>13. TypeFor(nClst) = fmt
  BY <1>10, <1>12, TypeIs
<1>14. Final(n, fmt, au, 1, nFat, 32, nClst) = Formatted(n, fmt, au, 1, nFat, 32, nClst)
  <2>1. ~(fmt = "FS_FAT16" /\ nClst < MIN_FAT16)  BY <1>10, <1>12 DEF MIN_FAT16
  <2> QED  BY <1>7, <2>1 DEF Final
<1>15. nFat >= RoundedUp(FatBytes(fmt, nClst + 2))
  <2>1. CASE fmt = "FS_FAT16"
    <3>1. RoundedUp(FatBytes(fmt, nClst + 2)) = ((nClst + 2) * 2 + 511) \div 512
      BY <1>10, <2>1, FatSizes
    <3> QED  BY <1>1, <1>2, <1>10, <2>1, <3>1
  <2>2. CASE fmt = "FS_FAT12"
    <3>1. RoundedUp(FatBytes(fmt, nClst + 2))
            = (((nClst + 2) * 3) \div 2 + ((nClst + 2) % 2) + 511) \div 512
      BY <1>10, <2>2, FatSizes
    <3>2. (((nClst + 2) * 3) \div 2) + ((nClst + 2) % 2) <= ((q * 3 + 1) \div 2) + 3
      BY <1>1, <1>10
    <3> QED  BY <1>1, <1>2, <1>10, <2>2, <3>1, <3>2
  <2> QED  BY <2>1, <2>2
<1>16. LaidOutWell(n, fmt, au, 1, nFat, 32, nClst)
  BY <1>2, <1>3, <1>5, <1>10, <1>11, <1>12, <1>13, <1>15 DEF LaidOutWell
<1>17. Fitting(Formatted(n, fmt, au, 1, nFat, 32, nClst))
  BY <1>16, FormattedMounts
<1>18. Formatted(n, fmt, au, 1, nFat, 32, nClst).res = "FR_OK"
  BY DEF Formatted
<1> QED  BY <1>8, <1>9, <1>14, <1>17, <1>18

\* What f_mkfs makes of n sectors, and when it refuses.
LEMMA MakesOrRefuses ==
  ASSUME NEW n \in Nat, call.sectors = n
  PROVE  IF FMkfs(n).res = "FR_OK" THEN ~SizeRefused /\ Fitting(FMkfs(n)) ELSE SizeRefused
<1> DEFINE au == ClusterSize(n)
           q == n \div au
           fmt == TypeFor(q)
<1>1. CASE n < 128
  <2>1. FMkfs(n) = Refused("FR_DISK_ERR")  BY <1>1 DEF FMkfs
  <2> QED  BY <1>1, <2>1 DEF Refused, SizeRefused
<1>2. CASE n >= 128
  <2>1. FMkfs(n) = WithType(n, fmt, au)  BY <1>2 DEF FMkfs
  <2>2. Chosen(n, au)  BY SizeChosen
  <2> HIDE DEF au
  <2>3. au \in {1, 2, 4, 8, 16, 32, 64}  BY <2>2 DEF Chosen
  <2>4. q \in Nat
    <3>1. 0 \in 0..n  OBVIOUS
    <3> QED  BY <2>3, <3>1, Divided
  <2>5. CASE n >= 2048000 /\ au = 64 /\ n \div 64 >= 65526
    <3>1. fmt = "FS_FAT32"  BY <2>4, <2>5, TypeIs
    <3> QED  BY <2>1, <2>5, <3>1, Makes32
  <2>6. CASE ~(n >= 2048000 /\ au = 64 /\ n \div 64 >= 65526)
    <3>1. ~SizeRefused
      <4>1. ~(n \in (65526 * 64)..(65526 * 64 + 32 + 512 - 1))  BY <2>2, <2>6 DEF Chosen
      <4> QED  BY <1>2, <4>1 DEF SizeRefused, MIN_FAT32
    <3>2. \/ q >= 32000 /\ q < 65526 /\ n >= 128000
          \/ q >= 128 /\ q < 4086 /\ au <= 32 /\ (au > 1 => n >= 4000)
      <4>1. CASE n >= 2048000 /\ au = 64  BY <2>6, <4>1
      <4>2. CASE n >= 1024000 /\ n < 2048000 /\ au = 32  BY <4>2
      <4>3. CASE n >= 512000 /\ n < 1024000 /\ au = 16  BY <4>3
      <4>4. CASE n >= 256000 /\ n < 512000 /\ au = 8  BY <4>4
      <4>5. CASE n >= 128000 /\ n < 256000 /\ au = 4  BY <4>5
      <4>6. CASE n >= 64000 /\ n < 128000 /\ au = 32  BY <4>6
      <4>7. CASE n >= 32000 /\ n < 64000 /\ au = 16  BY <4>7
      <4>8. CASE n >= 16000 /\ n < 32000 /\ au = 8  BY <4>8
      <4>9. CASE n >= 8000 /\ n < 16000 /\ au = 4  BY <4>9
      <4>10. CASE n >= 4000 /\ n < 8000 /\ au = 2  BY <4>10
      <4>11. CASE n < 4000 /\ au = 1  BY <1>2, <4>11
      <4> QED
        BY <2>2, <4>1, <4>2, <4>3, <4>4, <4>5, <4>6, <4>7, <4>8, <4>9, <4>10, <4>11 DEF Chosen
    <3>3. \/ fmt = "FS_FAT16" /\ q >= 32000 /\ q < 65526 /\ n >= 128000
          \/ fmt = "FS_FAT12" /\ q >= 128 /\ q < 4086 /\ au <= 32 /\ (au > 1 => n >= 4000)
      BY <2>4, <3>2, TypeIs
    <3> HIDE DEF fmt
    <3>4. fmt \in {"FS_FAT12", "FS_FAT16"} /\ q = Quotient(n, au)  BY <3>3 DEF Quotient
    <3> HIDE DEF q
    <3>5. WithType(n, fmt, au).res = "FR_OK" /\ Fitting(WithType(n, fmt, au))
      BY <1>2, <2>3, <3>3, <3>4, MakesSmall
    <3> QED  BY <2>1, <3>1, <3>5
  <2> QED  BY <2>5, <2>6
<1> QED  BY <1>1, <1>2

----------------------------------------------------------------------------
(* ParseAcpiTables: what is known after the first k entries of a table T.  *)

\* The IO APICs that ACPI lists are apart, as MadtAssumption says of every table.
Separate(T) ==
  \A j, k \in DOMAIN T :
    (j # k /\ T[j].type = "IOAPIC" /\ T[k].type = "IOAPIC") =>
      /\ T[j].addr # T[k].addr
      /\ {T[j].addr, T[k].addr} \subseteq DOMAIN MaxPin =>
           \/ T[j].irqBase + MaxPin[T[j].addr] < T[k].irqBase
           \/ T[k].irqBase + MaxPin[T[k].addr] < T[j].irqBase

\* The loop of Parsed is a sequence of rounds.
LEMMA ParsedRounds ==
  ASSUME NEW T, NEW L \in Nat, L = Len(T)
  PROVE  \E f : /\ f[0] = Start /\ \A k \in 1..L : f[k] = Entry(f[k - 1], T[k])
                /\ Parsed(T) = f[L]
<1> DEFINE Rounds(f, m) ==
             f = [k \in 0..m |-> IF k = 0 THEN Start ELSE Entry(f[k - 1], T[k])]
           S == {m \in Nat : \E f : Rounds(f, m)}
           after[k \in 0..Len(T)] == IF k = 0 THEN Start ELSE Entry(after[k - 1], T[k])
<1>1. 0 \in S
  <2>1. Rounds([k \in 0..0 |-> Start], 0)  OBVIOUS
  <2> QED  BY <2>1
<1>2. ASSUME NEW m \in Nat, m \in S PROVE m + 1 \in S
  <2>1. PICK g : Rounds(g, m)  BY <1>2
  <2> DEFINE f == [k \in 0..(m + 1) |-> IF k = m + 1 THEN Entry(g[m], T[m + 1]) ELSE g[k]]
  <2>2. \A k \in 0..m : g[k] = IF k = 0 THEN Start ELSE Entry(g[k - 1], T[k])
    BY <2>1
  <2>3. ASSUME NEW k \in 0..(m + 1)
        PROVE  f[k] = IF k = 0 THEN Start ELSE Entry(f[k - 1], T[k])
    <3>1. CASE k = m + 1
      <4>1. f[k - 1] = g[m] /\ k # 0  BY <3>1
      <4> QED  BY <3>1, <4>1
    <3>2. CASE k \in 1..m
      <4>1. f[k] = g[k] /\ f[k - 1] = g[k - 1]  BY <3>2
      <4> QED  BY <2>2, <3>2, <4>1
    <3>3. CASE k = 0
      BY <2>2, <3>3
    <3> QED  BY <3>1, <3>2, <3>3
  <2>4. Rounds(f, m + 1)
    <3>1. f = [k \in 0..(m + 1) |-> f[k]]  OBVIOUS
    <3> HIDE DEF f
    <3> QED  BY <2>3, <3>1
  <2>5. m + 1 \in Nat  OBVIOUS
  <2> HIDE DEF f, Rounds
  <2> QED  BY <2>4, <2>5
<1> HIDE DEF S
<1>3. L \in S
  BY <1>1, <1>2, Inductive
<1>4. Rounds(after, L)
  <2>1. after = CHOOSE f : Rounds(f, Len(T))  BY Zenon DEF Rounds
  <2>2. \E f : Rounds(f, L)  BY <1>3 DEF S
  <2> HIDE DEF after, Rounds
  <2> QED  BY <2>1, <2>2
<1>5. Parsed(T) = after[Len(T)]
  BY Zenon DEF Parsed
<1> HIDE DEF after
<1>6. after[0] = Start /\ \A k \in 1..L : after[k] = Entry(after[k - 1], T[k])
  <2>1. \A k \in 0..L : after[k] = IF k = 0 THEN Start ELSE Entry(after[k - 1], T[k])
    BY <1>4
  <2>2. 0 \in 0..L /\ \A k \in 1..L : k \in 0..L /\ k # 0  OBVIOUS
  <2> QED  BY <2>1, <2>2
<1> QED  BY <1>5, <1>6

\* How many processors are enabled.
LEMMA EnabledCounts ==
  ASSUME NEW T
  PROVE  /\ Enabled(T, 0) = 0
         /\ \A k \in Nat :
              /\ Enabled(T, k) \in Nat
              /\ Enabled(T, k + 1)
                   = Enabled(T, k) + (IF T[k + 1].type = "APIC" /\ T[k + 1].enabled THEN 1 ELSE 0)
         /\ \A j, k \in Nat : j <= k => Enabled(T, j) <= Enabled(T, k)
<1> DEFINE E(k) == {j \in 1..k : T[j].type = "APIC" /\ T[j].enabled}
<1>1. \A k \in Nat : IsFiniteSet(E(k)) /\ Cardinality(E(k)) \in Nat
  <2> TAKE k \in Nat
  <2>1. IsFiniteSet(1..k)  BY FS_Interval
  <2> QED  BY <2>1, FS_Subset, FS_CardinalityType
<1>2. E(0) = {}  OBVIOUS
<1>3. \A j, k \in Nat : j <= k => Cardinality(E(j)) <= Cardinality(E(k))
  <2> SUFFICES ASSUME NEW j \in Nat, NEW k \in Nat, j <= k
               PROVE  Cardinality(E(j)) <= Cardinality(E(k))
    OBVIOUS
  <2>1. E(j) \in SUBSET E(k)  OBVIOUS
  <2> QED  BY <1>1, <2>1, FS_Subset
<1>4. ASSUME NEW k \in Nat
      PROVE  Cardinality(E(k + 1))
               = Cardinality(E(k)) + (IF T[k + 1].type = "APIC" /\ T[k + 1].enabled THEN 1 ELSE 0)
  <2>1. CASE T[k + 1].type = "APIC" /\ T[k + 1].enabled
    <3>1. E(k + 1) = E(k) \cup {k + 1} /\ k + 1 \notin E(k)  BY <2>1
    <3> HIDE DEF E
    <3> QED  BY <1>1, <2>1, <3>1, FS_AddElement
  <2>2. CASE ~(T[k + 1].type = "APIC" /\ T[k + 1].enabled)
    <3>1. E(k + 1) = E(k)  BY <2>2
    <3> HIDE DEF E
    <3> QED  BY <1>1, <2>2, <3>1
  <2> QED  BY <2>1, <2>2
<1>5. \A k : Enabled(T, k) = Cardinality(E(k))  BY Zenon DEF Enabled
<1> HIDE DEF E
<1> QED  BY <1>1, <1>2, <1>3, <1>4, <1>5, FS_EmptySet

\* The IO APICs and the overrides among the first k entries that are looked at.
IoApicsTo(T, k) == {j \in 1..k : T[j].type = "IOAPIC" /\ Enabled(T, j - 1) < MaxCpus}
OverridesTo(T, j, irq, k) ==
  {o \in 1..k : /\ Enabled(T, o - 1) < MaxCpus
                /\ o > j /\ T[o].type = "IRQOVERRIDE" /\ T[o].isaIrq = irq}
Override(e) == [vector |-> Byte(e.apicIrq), masked |-> TRUE, low |-> e.low, level |-> e.level]
DescribedTo(T, j, irq, k) ==
  IF OverridesTo(T, j, irq, k) = {} THEN Masked(INTR_IRQ + irq)
  ELSE Override(T[CHOOSE o \in OverridesTo(T, j, irq, k) :
                    \A l \in OverridesTo(T, j, irq, k) : l <= o])

\* One more entry.
LEMMA OneMoreFound ==
  ASSUME NEW T, NEW k \in Nat
  PROVE  /\ IsFiniteSet(IoApicsTo(T, k)) /\ Cardinality(IoApicsTo(T, k)) \in Nat
         /\ IF T[k + 1].type = "IOAPIC" /\ Enabled(T, k) < MaxCpus
            THEN /\ IoApicsTo(T, k + 1) = IoApicsTo(T, k) \cup {k + 1}
                 /\ Cardinality(IoApicsTo(T, k + 1)) = Cardinality(IoApicsTo(T, k)) + 1
            ELSE IoApicsTo(T, k + 1) = IoApicsTo(T, k)
<1>1. IsFiniteSet(IoApicsTo(T, k)) /\ Cardinality(IoApicsTo(T, k)) \in Nat
  <2>1. IsFiniteSet(1..k) /\ IoApicsTo(T, k) \in SUBSET (1..k)  BY FS_Interval DEF IoApicsTo
  <2> QED  BY <2>1, FS_Subset, FS_CardinalityType
<1>2. (k + 1) - 1 = k /\ k + 1 \notin IoApicsTo(T, k)  BY DEF IoApicsTo
<1>3. CASE T[k + 1].type = "IOAPIC" /\ Enabled(T, k) < MaxCpus
  <2>1. IoApicsTo(T, k + 1) = IoApicsTo(T, k) \cup {k + 1}  BY <1>2, <1>3 DEF IoApicsTo
  <2> QED  BY <1>1, <1>2, <1>3, <2>1, FS_AddElement
<1>4. CASE ~(T[k + 1].type = "IOAPIC" /\ Enabled(T, k) < MaxCpus)
  <2>1. IoApicsTo(T, k + 1) = IoApicsTo(T, k)  BY <1>2, <1>4 DEF IoApicsTo
  <2> QED  BY <1>1, <1>4, <2>1
<1> QED  BY <1>3, <1>4

\* What one more entry changes of a description.
LEMMA OneMoreDescribed ==
  ASSUME NEW T, NEW k \in Nat, NEW j \in Nat, j <= k, NEW irq
  PROVE  DescribedTo(T, j, irq, k + 1)
           = IF T[k + 1].type = "IRQOVERRIDE" /\ T[k + 1].isaIrq = irq /\ Enabled(T, k) < MaxCpus
             THEN Override(T[k + 1])
             ELSE DescribedTo(T, j, irq, k)
<1> DEFINE O(m) == OverridesTo(T, j, irq, m)
           last(S) == CHOOSE o \in S : \A l \in S : l <= o
<1>0. \A m : DescribedTo(T, j, irq, m) = IF O(m) = {} THEN Masked(INTR_IRQ + irq)
                                          ELSE Override(T[last(O(m))])
  BY Zenon DEF DescribedTo
<1>1. (k + 1) - 1 = k /\ k + 1 > j  OBVIOUS
<1>2. CASE T[k + 1].type = "IRQOVERRIDE" /\ T[k + 1].isaIrq = irq /\ Enabled(T, k) < MaxCpus
  <2>1. k + 1 \in O(k + 1) /\ \A l \in O(k + 1) : l \in Nat /\ l <= k + 1
    BY <1>1, <1>2 DEF OverridesTo
  <2>2. \A o \in O(k + 1) : (\A l \in O(k + 1) : l <= o) => o = k + 1
    BY <2>1
  <2> HIDE DEF O
  <2>3. last(O(k + 1)) = k + 1  BY <2>1, <2>2
  <2>4. O(k + 1) # {}  BY <2>1
  <2> HIDE DEF last
  <2> QED  BY <1>0, <1>2, <2>3, <2>4
<1>3. CASE ~(T[k + 1].type = "IRQOVERRIDE" /\ T[k + 1].isaIrq = irq /\ Enabled(T, k) < MaxCpus)
  <2>1. O(k + 1) = O(k)  BY <1>1, <1>3 DEF OverridesTo
  <2>2. DescribedTo(T, j, irq, k + 1) = DescribedTo(T, j, irq, k)
    <3> HIDE DEF O, last
    <3> QED  BY <1>0, <2>1
  <2> QED  BY <1>3, <2>2
<1> QED  BY <1>2, <1>3

\* Before the overrides that come after it.
LEMMA NothingDescribed ==
  ASSUME NEW T, NEW j \in Nat, NEW irq
  PROVE  DescribedTo(T, j, irq, j) = Masked(INTR_IRQ + irq)
<1>1. OverridesTo(T, j, irq, j) = {}  BY DEF OverridesTo
<1> QED  BY <1>1 DEF DescribedTo

\* The pins of the IO APIC in entry j, as they are set after k entries.
PinsTo(T, j, k) ==
  [i \in 0..MaxPin[T[j].addr] |->
     IF i = MaxPin[T[j].addr] THEN Masked(0) ELSE DescribedTo(T, j, T[j].irqBase + i, k)]
Data(e) == [addr |-> e.addr, baseIrq |-> e.irqBase, maxIrqs |-> MaxPin[e.addr]]

\* What is known, unless there was a panic.
SetUp(T, k, io, pins) ==
  /\ io \in Seq([addr : DOMAIN MaxPin, baseIrq : Nat, maxIrqs : Nat])
  /\ Len(io) = Cardinality(IoApicsTo(T, k)) /\ Len(io) <= MaxIoApics
  /\ \A n \in 1..Len(io) : \E j \in IoApicsTo(T, k) : io[n] = Data(T[j])
  /\ \A j \in IoApicsTo(T, k) :
       /\ T[j].addr \in DOMAIN MaxPin
       /\ \E n \in 1..Len(io) : io[n] = Data(T[j])
       /\ pins[T[j].addr] = PinsTo(T, j, k)
  /\ DOMAIN pins = DOMAIN MaxPin /\ pins = [a \in DOMAIN MaxPin |-> pins[a]]
  /\ \A a \in DOMAIN MaxPin : (\A j \in IoApicsTo(T, k) : T[j].addr # a) => pins[a] = ResetPins[a]
Counted(T, k, cpus, at) ==
  /\ cpus \in Seq(Nat)
  /\ IF Enabled(T, k) < MaxCpus THEN at = "loop" /\ Len(cpus) = Enabled(T, k)
     ELSE at = "done" /\ Len(cpus) = MaxCpus
Unfit(T) ==
  \/ \E k \in IoApicsTo(T, Len(T)) : T[k].addr \notin DOMAIN MaxPin
  \/ Cardinality(IoApicsTo(T, Len(T))) > MaxIoApics
RoundInv(T, k, s) ==
  /\ s = [cpus |-> s.cpus, ioApics |-> s.ioApics, pins |-> s.pins, at |-> s.at]
  /\ IF s.at = "panic" THEN Unfit(T)
     ELSE SetUp(T, k, s.ioApics, s.pins) /\ Counted(T, k, s.cpus, s.at)

\* Before the loop.
LEMMA BeforeRounds ==
  ASSUME NEW T
  PROVE  RoundInv(T, 0, Start)
<1>1. IoApicsTo(T, 0) = {} /\ Cardinality(IoApicsTo(T, 0)) = 0
  <2>1. IoApicsTo(T, 0) = {}  BY DEF IoApicsTo
  <2> QED  BY <2>1, FS_EmptySet
<1>2. Start = [cpus |-> Start.cpus, ioApics |-> Start.ioApics, pins |-> Start.pins, at |-> Start.at]
      /\ Start.cpus = <<>> /\ Start.ioApics = <<>> /\ Start.pins = ResetPins /\ Start.at = "loop"
  BY DEF Start
<1>3. DOMAIN ResetPins = DOMAIN MaxPin /\ ResetPins = [a \in DOMAIN MaxPin |-> ResetPins[a]]
  BY DEF ResetPins
<1>4. MaxIoApics \in Nat /\ MaxCpus \in Nat \ {0}  BY LimitsAssumption
<1>5. SetUp(T, 0, <<>>, ResetPins)
  BY <1>1, <1>3, <1>4 DEF SetUp
<1>6. Counted(T, 0, <<>>, "loop")
  BY <1>4, EnabledCounts DEF Counted
<1> QED  BY <1>2, <1>5, <1>6, Zenon DEF RoundInv

\* The IO APICs that are found stay found.
LEMMA FoundGrows ==
  ASSUME NEW T, NEW j \in Nat, NEW k \in Nat, j <= k
  PROVE  /\ IoApicsTo(T, j) \subseteq IoApicsTo(T, k)
         /\ Cardinality(IoApicsTo(T, j)) <= Cardinality(IoApicsTo(T, k))
<1>1. IoApicsTo(T, j) \in SUBSET IoApicsTo(T, k)  BY DEF IoApicsTo
<1>2. IsFiniteSet(IoApicsTo(T, k))  BY OneMoreFound
<1> QED  BY <1>1, <1>2, FS_Subset

\* An entry that overrides none of its pins leaves an IO APIC as it is.
LEMMA PinsKept ==
  ASSUME NEW T, NEW k \in Nat, NEW j \in IoApicsTo(T, k),
         \A i \in 0..MaxPin[T[j].addr] :
           i # MaxPin[T[j].addr] =>
             ~(/\ T[k + 1].type = "IRQOVERRIDE" /\ T[k + 1].isaIrq = T[j].irqBase + i
               /\ Enabled(T, k) < MaxCpus)
  PROVE  PinsTo(T, j, k + 1) = PinsTo(T, j, k)
<1>1. j \in Nat /\ j <= k  BY DEF IoApicsTo
<1> DEFINE M == MaxPin[T[j].addr]
           P(m) == [i \in 0..M |->
                      IF i = M THEN Masked(0) ELSE DescribedTo(T, j, T[j].irqBase + i, m)]
<1>2. ASSUME NEW i \in 0..M, i # M
      PROVE  DescribedTo(T, j, T[j].irqBase + i, k + 1) = DescribedTo(T, j, T[j].irqBase + i, k)
  BY <1>1, <1>2, OneMoreDescribed
<1>3. P(k + 1) = P(k)
  BY <1>2
<1> QED  BY <1>3, Zenon DEF PinsTo

\* An entry that is not looked at, or says nothing of interrupts.
LEMMA SetUpKept ==
  ASSUME NEW T, NEW k \in Nat, NEW io, NEW pins, SetUp(T, k, io, pins),
         Enabled(T, k) >= MaxCpus \/ T[k + 1].type \notin {"IOAPIC", "IRQOVERRIDE"}
  PROVE  SetUp(T, k + 1, io, pins)
<1>0. Enabled(T, k) \in Nat /\ MaxCpus \in Nat  BY EnabledCounts, LimitsAssumption
<1>1. IoApicsTo(T, k + 1) = IoApicsTo(T, k)  BY <1>0, OneMoreFound
<1>2. \A j \in IoApicsTo(T, k) : PinsTo(T, j, k + 1) = PinsTo(T, j, k)
  BY <1>0, PinsKept
<1> QED  BY <1>1, <1>2, Zenon DEF SetUp

\* What an entry of each type has.
LEMMA EntryFields ==
  ASSUME NEW e \in MadtEntry
  PROVE  /\ e.type \in {"APIC", "IOAPIC", "IRQOVERRIDE"}
         /\ e.type = "APIC" => e.id \in Nat /\ e.enabled \in BOOLEAN
         /\ e.type = "IOAPIC" => e.addr \in Nat /\ e.irqBase \in Nat
         /\ e.type = "IRQOVERRIDE" => e.isaIrq \in Nat
<1>1. \A n : n \in 0..255 => n \in Nat  OBVIOUS
<1> QED  BY <1>1 DEF MadtEntry

\* The number of the last pin.
LEMMA PinNumbers == \A a \in DOMAIN MaxPin : MaxPin[a] \in Nat
<1>1. \A n : n \in 0..223 => n \in Nat  OBVIOUS
<1> QED  BY <1>1, MaxPinAssumption, Zenon

\* An IO APIC is set up.
LEMMA IoApicSetUp ==
  ASSUME NEW T \in Seq(MadtEntry), Separate(T), NEW k \in Nat, k + 1 \in DOMAIN T,
         NEW s, RoundInv(T, k, s), s.at = "loop", T[k + 1].type = "IOAPIC",
         NEW t, t = IntrInitIoApic(s, T[k + 1].addr, T[k + 1].irqBase)
  PROVE  RoundInv(T, k + 1, t)
<1> DEFINE e == T[k + 1]
           io == s.ioApics
           pins == s.pins
           addr == e.addr
           base == e.irqBase
           M == MaxPin[addr]
<1>1. /\ SetUp(T, k, io, pins) /\ Counted(T, k, s.cpus, "loop")
      /\ s = [cpus |-> s.cpus, ioApics |-> io, pins |-> pins, at |-> "loop"]
  BY DEF RoundInv
<1>2. Enabled(T, k) < MaxCpus  BY <1>1 DEF Counted
<1>3. IoApicsTo(T, k + 1) = IoApicsTo(T, k) \cup {k + 1}
      /\ Cardinality(IoApicsTo(T, k + 1)) = Cardinality(IoApicsTo(T, k)) + 1
      /\ Cardinality(IoApicsTo(T, k)) \in Nat
  BY <1>2, OneMoreFound
<1>4. addr \in Nat /\ base \in Nat  BY EntryFields
<1>5. Len(T) \in Nat /\ k + 1 <= Len(T) /\ k + 1 \in Nat /\ MaxIoApics \in Nat
  BY LimitsAssumption
<1>6. CASE addr \notin DOMAIN MaxPin \/ Len(io) = MaxIoApics
  <2>1. t = [cpus |-> s.cpus, ioApics |-> io, pins |-> pins, at |-> "panic"]
    BY <1>1, <1>6 DEF IntrInitIoApic, Panic
  <2>2. IoApicsTo(T, k + 1) \subseteq IoApicsTo(T, Len(T))
        /\ Cardinality(IoApicsTo(T, k + 1)) <= Cardinality(IoApicsTo(T, Len(T)))
        /\ Cardinality(IoApicsTo(T, Len(T))) \in Nat
    BY <1>5, FoundGrows, OneMoreFound
  <2>3. CASE addr \notin DOMAIN MaxPin
    BY <1>3, <2>1, <2>2, <2>3 DEF RoundInv, Unfit
  <2>4. CASE Len(io) = MaxIoApics
    <3>1. Cardinality(IoApicsTo(T, k)) = MaxIoApics  BY <1>1, <2>4 DEF SetUp
    <3>2. Cardinality(IoApicsTo(T, Len(T))) > MaxIoApics  BY <1>3, <1>5, <2>2, <3>1
    <3> QED  BY <2>1, <3>2 DEF RoundInv, Unfit
  <2> QED  BY <1>6, <2>3, <2>4
<1>7. CASE addr \in DOMAIN MaxPin /\ Len(io) # MaxIoApics
  <2> DEFINE io2 == Append(io, Data(e))
             set == [i \in DOMAIN pins[addr] |->
                       IF i < M THEN Masked(INTR_IRQ + base + i) ELSE pins[addr][i]]
             pins2 == [pins EXCEPT ![addr] = set]
  <2>1. t = [cpus |-> s.cpus, ioApics |-> io2, pins |-> pins2, at |-> "loop"]
    BY <1>1, <1>7 DEF IntrInitIoApic, Data
  <2>2. M \in Nat  BY <1>7, PinNumbers
  <2>3. \A j \in IoApicsTo(T, k) : T[j].addr # addr /\ j # k + 1 /\ j \in DOMAIN T
    <3>1. \A j \in IoApicsTo(T, k) : j \in DOMAIN T /\ j # k + 1 /\ T[j].type = "IOAPIC"
      BY <1>5 DEF IoApicsTo
    <3> QED  BY <3>1 DEF Separate
  <2>4. pins[addr] = [i \in 0..M |-> Masked(0)]
    BY <1>1, <1>7, <2>3 DEF SetUp, ResetPins
  <2>5. set = PinsTo(T, k + 1, k + 1)
    <3>1. set = [i \in 0..M |-> IF i < M THEN Masked(INTR_IRQ + base + i) ELSE Masked(0)]
      BY <2>4
    <3>2. ASSUME NEW i \in 0..M
          PROVE  (IF i < M THEN Masked(INTR_IRQ + base + i) ELSE Masked(0))
                   = IF i = M THEN Masked(0) ELSE DescribedTo(T, k + 1, base + i, k + 1)
      <4>1. CASE i = M
        BY <2>2, <4>1
      <4>2. CASE i # M
        <5>1. i < M /\ INTR_IRQ + base + i = INTR_IRQ + (base + i)
          BY <1>4, <2>2, <4>2 DEF INTR_IRQ
        <5>2. DescribedTo(T, k + 1, base + i, k + 1) = Masked(INTR_IRQ + (base + i))
          BY <1>5, NothingDescribed
        <5> QED  BY <4>2, <5>1, <5>2
      <4> QED  BY <4>1, <4>2
    <3> HIDE DEF set
    <3>3. PinsTo(T, k + 1, k + 1)
            = [i \in 0..M |-> IF i = M THEN Masked(0) ELSE DescribedTo(T, k + 1, base + i, k + 1)]
      BY Zenon DEF PinsTo
    <3> QED  BY <3>1, <3>2, <3>3
  <2> HIDE DEF set
  <2>6. \A j \in IoApicsTo(T, k) : PinsTo(T, j, k + 1) = PinsTo(T, j, k)
    BY PinsKept
  <2>7. /\ DOMAIN pins2 = DOMAIN MaxPin /\ pins2 = [a \in DOMAIN MaxPin |-> pins2[a]]
        /\ pins2[addr] = set /\ \A a \in DOMAIN MaxPin : a # addr => pins2[a] = pins[a]
    BY <1>1, <1>7 DEF SetUp
  <2> DEFINE Datas == [addr : DOMAIN MaxPin, baseIrq : Nat, maxIrqs : Nat]
  <2>8. Data(e) \in Datas  BY <1>4, <1>7, <2>2 DEF Data
  <2>9. /\ io \in Seq(Datas) /\ Len(io) = Cardinality(IoApicsTo(T, k)) /\ Len(io) <= MaxIoApics
    BY <1>1 DEF SetUp
  <2>10. /\ io2 \in Seq(Datas) /\ Len(io2) = Len(io) + 1 /\ Len(io2) <= MaxIoApics
         /\ \A n \in 1..Len(io) : io2[n] = io[n]
         /\ io2[Len(io) + 1] = Data(e)
    <3> HIDE DEF Datas
    <3>1. Len(io) \in Nat  BY <2>9
    <3> QED  BY <1>5, <1>7, <2>8, <2>9, <3>1
  <2> HIDE DEF io2, pins2
  <2>11. ASSUME NEW n \in 1..Len(io2) PROVE \E j \in IoApicsTo(T, k + 1) : io2[n] = Data(T[j])
    <3>1. Len(io) \in Nat  BY <2>9
    <3>2. CASE n = Len(io) + 1
      BY <1>3, <2>10, <3>2
    <3>3. CASE n \in 1..Len(io)
      <4>1. PICK j \in IoApicsTo(T, k) : io[n] = Data(T[j])  BY <1>1, <3>3 DEF SetUp
      <4> QED  BY <1>3, <2>10, <3>3, <4>1
    <3> QED  BY <2>10, <3>1, <3>2, <3>3
  <2>12. ASSUME NEW j \in IoApicsTo(T, k + 1)
         PROVE  /\ T[j].addr \in DOMAIN MaxPin
                /\ \E n \in 1..Len(io2) : io2[n] = Data(T[j])
                /\ pins2[T[j].addr] = PinsTo(T, j, k + 1)
    <3>0. Len(io) \in Nat  BY <2>9
    <3>1. CASE j = k + 1
      <4>1. Len(io) + 1 \in 1..Len(io2)  BY <2>10, <3>0
      <4> QED  BY <1>7, <2>5, <2>7, <2>10, <3>1, <4>1
    <3>2. CASE j \in IoApicsTo(T, k)
      <4>1. PICK n \in 1..Len(io) : io[n] = Data(T[j])  BY <1>1, <3>2 DEF SetUp
      <4>2. n \in 1..Len(io2)  BY <2>10, <3>0
      <4>3. T[j].addr \in DOMAIN MaxPin /\ pins[T[j].addr] = PinsTo(T, j, k)
        BY <1>1, <3>2 DEF SetUp
      <4> QED  BY <2>3, <2>6, <2>7, <2>10, <3>2, <4>1, <4>2, <4>3
    <3> QED  BY <1>3, <3>1, <3>2
  <2>13. ASSUME NEW a \in DOMAIN MaxPin, \A j \in IoApicsTo(T, k + 1) : T[j].addr # a
         PROVE  pins2[a] = ResetPins[a]
    <3>1. a # addr /\ \A j \in IoApicsTo(T, k) : T[j].addr # a  BY <1>3, <2>13
    <3> QED  BY <1>1, <2>7, <3>1 DEF SetUp
  <2>14. SetUp(T, k + 1, io2, pins2)
    BY <1>3, <2>7, <2>9, <2>10, <2>11, <2>12, <2>13 DEF SetUp
  <2>15. Counted(T, k + 1, s.cpus, "loop")
    <3>1. Enabled(T, k + 1) = Enabled(T, k) + 0 /\ Enabled(T, k) \in Nat  BY EnabledCounts
    <3>2. Enabled(T, k + 1) = Enabled(T, k)  BY <3>1
    <3> QED  BY <1>1, <3>2 DEF Counted
  <2> QED  BY <2>1, <2>14, <2>15 DEF RoundInv
<1> QED  BY <1>6, <1>7

\* A pin is overridden, on the IO APIC that has it.
LEMMA OverrideSetUp ==
  ASSUME NEW T \in Seq(MadtEntry), Separate(T), NEW k \in Nat, k + 1 \in DOMAIN T,
         NEW s, RoundInv(T, k, s), s.at = "loop", T[k + 1].type = "IRQOVERRIDE",
         NEW t, t = IntrInitSetOverride(s, T[k + 1])
  PROVE  RoundInv(T, k + 1, t)
<1> DEFINE e == T[k + 1]
           irq == e.isaIrq
           io == s.ioApics
           pins == s.pins
           holding == {n \in DOMAIN io : Holds(io[n], irq)}
           first == CHOOSE n \in holding : \A m \in holding : n <= m
           HasPin(j) == T[j].irqBase <= irq /\ irq < T[j].irqBase + MaxPin[T[j].addr]
<1>1. /\ SetUp(T, k, io, pins) /\ Counted(T, k, s.cpus, "loop")
      /\ s = [cpus |-> s.cpus, ioApics |-> io, pins |-> pins, at |-> "loop"]
  BY DEF RoundInv
<1>2. Enabled(T, k) < MaxCpus  BY <1>1 DEF Counted
<1>3. IoApicsTo(T, k + 1) = IoApicsTo(T, k)  BY OneMoreFound
<1>4. irq \in Nat  BY EntryFields
<1>5. /\ Len(T) \in Nat /\ k + 1 <= Len(T)
      /\ \A j \in IoApicsTo(T, k) : j \in DOMAIN T /\ j \in Nat /\ j <= k /\ T[j].type = "IOAPIC"
  <2>1. Len(T) \in Nat /\ k + 1 <= Len(T)  OBVIOUS
  <2> QED  BY <2>1 DEF IoApicsTo
<1>6. \A j \in IoApicsTo(T, k) : T[j].irqBase \in Nat /\ T[j].addr \in DOMAIN MaxPin
                             /\ MaxPin[T[j].addr] \in Nat
  <2>1. \A j \in IoApicsTo(T, k) : T[j] \in MadtEntry  BY <1>5
  <2> QED  BY <1>1, <1>5, <2>1, EntryFields, PinNumbers DEF SetUp
<1>7. Counted(T, k + 1, s.cpus, "loop")
  <2>1. Enabled(T, k + 1) = Enabled(T, k) + 0 /\ Enabled(T, k) \in Nat  BY EnabledCounts
  <2>2. Enabled(T, k + 1) = Enabled(T, k)  BY <2>1
  <2> QED  BY <1>1, <2>2 DEF Counted
<1>8. /\ Len(io) \in Nat /\ DOMAIN io = 1..Len(io)
      /\ \A n \in 1..Len(io) : \E j \in IoApicsTo(T, k) : io[n] = Data(T[j])
      /\ \A j \in IoApicsTo(T, k) : \E n \in 1..Len(io) : io[n] = Data(T[j])
  <2>1. io \in Seq([addr : DOMAIN MaxPin, baseIrq : Nat, maxIrqs : Nat])  BY <1>1 DEF SetUp
  <2> HIDE DEF io
  <2>2. Len(io) \in Nat /\ DOMAIN io = 1..Len(io)  BY <2>1
  <2>3. /\ \A n \in 1..Len(io) : \E j \in IoApicsTo(T, k) : io[n] = Data(T[j])
        /\ \A j \in IoApicsTo(T, k) : \E n \in 1..Len(io) : io[n] = Data(T[j])
    BY <1>1, Zenon DEF SetUp
  <2> QED  BY <2>2, <2>3
<1>9. ASSUME NEW j \in IoApicsTo(T, k), ~HasPin(j)
      PROVE  PinsTo(T, j, k + 1) = PinsTo(T, j, k)
  <2>1. ASSUME NEW i \in 0..MaxPin[T[j].addr], i # MaxPin[T[j].addr]
        PROVE  irq # T[j].irqBase + i
    BY <1>4, <1>6, <1>9, <2>1
  <2> QED  BY <2>1, PinsKept
<1> HIDE DEF io, pins
<1>10. CASE holding = {}
  <2>1. t = s  BY <1>10 DEF IntrInitSetOverride, io
  <2>2. ASSUME NEW j \in IoApicsTo(T, k) PROVE ~HasPin(j)
    <3>1. PICK n \in 1..Len(io) : io[n] = Data(T[j])  BY <1>8
    <3>2. ~Holds(Data(T[j]), irq)  BY <1>8, <1>10, <3>1
    <3> QED  BY <3>2 DEF Holds, Data
  <2>3. SetUp(T, k + 1, io, pins)
    <3>1. \A j \in IoApicsTo(T, k) : PinsTo(T, j, k + 1) = PinsTo(T, j, k)  BY <1>9, <2>2
    <3> QED  BY <1>1, <1>3, <3>1, Zenon DEF SetUp
  <2> QED  BY <1>1, <1>7, <2>1, <2>3 DEF RoundInv, io, pins
<1>11. CASE holding # {}
  <2>1. first \in holding
    <3>1. holding \in SUBSET Nat  BY <1>8
    <3>2. \E n \in holding : \A m \in holding : n <= m
      <4> HIDE DEF holding
      <4> QED  BY <1>11, <3>1, Least
    <3> QED  BY <3>2
  <2> HIDE DEF first
  <2>2. PICK j \in IoApicsTo(T, k) : io[first] = Data(T[j])  BY <1>8, <2>1
  <2> DEFINE addr == T[j].addr
             base == T[j].irqBase
             M == MaxPin[addr]
             set == [pins[addr] EXCEPT ![irq - base] =
                       [vector |-> Byte(e.apicIrq), masked |-> @.masked, low |-> e.low, level |-> e.level]]
             pins2 == [pins EXCEPT ![addr] = set]
  <2>3. HasPin(j)  BY <2>1, <2>2 DEF Holds, Data
  <2>4. t = [cpus |-> s.cpus, ioApics |-> io, pins |-> pins2, at |-> "loop"]
    <3>1. t = [s EXCEPT !.pins[io[first].addr][irq - io[first].baseIrq] =
                 [vector |-> Byte(e.apicIrq), masked |-> @.masked, low |-> e.low, level |-> e.level]]
      BY <1>11, Zenon DEF IntrInitSetOverride, io, first
    <3>2. io[first].addr = addr /\ io[first].baseIrq = base  BY <2>2 DEF Data
    <3> QED  BY <1>1, <3>1, <3>2 DEF pins
  <2>5. ASSUME NEW l \in IoApicsTo(T, k), l # j PROVE T[l].addr # addr /\ ~HasPin(l)
    <3>1. /\ T[l].addr # addr
          /\ \/ T[l].irqBase + MaxPin[T[l].addr] < base
             \/ base + M < T[l].irqBase
      BY <1>5, <1>6, <2>5 DEF Separate
    <3> QED  BY <1>4, <1>6, <2>3, <3>1
  <2>6. addr \in DOMAIN MaxPin /\ base \in Nat /\ M \in Nat /\ pins[addr] = PinsTo(T, j, k)
    BY <1>1, <1>6 DEF SetUp
  <2>7. set = PinsTo(T, j, k + 1)
    <3> DEFINE d == irq - base
               P(m) == [i \in 0..M |-> IF i = M THEN Masked(0) ELSE DescribedTo(T, j, base + i, m)]
    <3>1. d \in 0..M /\ d # M /\ base + d = irq /\ \A i \in 0..M : i # d => base + i # irq
      <4>1. base <= irq /\ irq < base + M /\ base \in Nat /\ M \in Nat /\ irq \in Nat
        BY <1>4, <2>3, <2>6
      <4> HIDE DEF base, M, irq
      <4> QED  BY <4>1
    <3>2. \A m : PinsTo(T, j, m) = P(m)  BY Zenon DEF PinsTo
    <3>3. \A i \in 0..M : i # M => DescribedTo(T, j, base + i, k + 1)
                                     = IF i = d THEN Override(e) ELSE DescribedTo(T, j, base + i, k)
      <4>1. j \in Nat /\ j <= k  BY <1>5
      <4> QED  BY <1>2, <3>1, <4>1, OneMoreDescribed
    <3>4. DescribedTo(T, j, irq, k).masked = TRUE
      BY DEF DescribedTo, Override, Masked
    <3>5. pins[addr] = P(k)  BY <2>6, <3>2
    <3>6. P(k)[d] = DescribedTo(T, j, irq, k)  BY <3>1
    <3>7. [vector |-> Byte(e.apicIrq), masked |-> P(k)[d].masked, low |-> e.low, level |-> e.level]
            = Override(e)
      BY <3>4, <3>6 DEF Override
    <3>8. set = [P(k) EXCEPT ![d] = Override(e)]  BY <3>5, <3>7
    <3>9. [P(k) EXCEPT ![d] = Override(e)] = P(k + 1)  BY <3>1, <3>3
    <3> QED  BY <3>2, <3>8, <3>9
  <2> HIDE DEF set
  <2>8. /\ DOMAIN pins2 = DOMAIN MaxPin /\ pins2 = [a \in DOMAIN MaxPin |-> pins2[a]]
        /\ pins2[addr] = set /\ \A a \in DOMAIN MaxPin : a # addr => pins2[a] = pins[a]
    BY <1>1, <2>6 DEF SetUp
  <2> HIDE DEF pins2
  <2>9. ASSUME NEW l \in IoApicsTo(T, k) PROVE pins2[T[l].addr] = PinsTo(T, l, k + 1)
    <3>1. CASE l = j
      BY <2>7, <2>8, <3>1
    <3>2. CASE l # j
      <4>1. T[l].addr # addr /\ PinsTo(T, l, k + 1) = PinsTo(T, l, k)  BY <1>9, <2>5, <3>2
      <4>2. T[l].addr \in DOMAIN MaxPin /\ pins[T[l].addr] = PinsTo(T, l, k)  BY <1>1 DEF SetUp
      <4> QED  BY <2>8, <4>1, <4>2
    <3> QED  BY <3>1, <3>2
  <2>10. ASSUME NEW a \in DOMAIN MaxPin, \A l \in IoApicsTo(T, k) : T[l].addr # a
         PROVE  pins2[a] = ResetPins[a]
    <3>1. a # addr  BY <2>10
    <3> QED  BY <1>1, <2>8, <2>10, <3>1 DEF SetUp
  <2>11. SetUp(T, k + 1, io, pins2)
    BY <1>1, <1>3, <2>8, <2>9, <2>10 DEF SetUp
  <2> QED  BY <1>7, <2>4, <2>11 DEF RoundInv
<1> QED  BY <1>10, <1>11

\* A processor is added.
LEMMA CpuAdded ==
  ASSUME NEW s, s = [cpus |-> s.cpus, ioApics |-> s.ioApics, pins |-> s.pins, at |-> s.at], NEW id
  PROVE  AddNewCpu(s, id) = [cpus |-> Append(s.cpus, id), ioApics |-> s.ioApics,
                             pins |-> s.pins, at |-> s.at]
  BY DEF AddNewCpu

\* Every entry.
LEMMA RoundKeeps ==
  ASSUME NEW T \in Seq(MadtEntry), Separate(T), NEW k \in Nat, k + 1 \in DOMAIN T,
         NEW s, RoundInv(T, k, s)
  PROVE  RoundInv(T, k + 1, Entry(s, T[k + 1]))
<1> DEFINE e == T[k + 1]
           t == Entry(s, e)
<1>1. /\ e.type \in {"APIC", "IOAPIC", "IRQOVERRIDE"}
      /\ e.type = "APIC" => e.id \in Nat /\ e.enabled \in BOOLEAN
  BY EntryFields
<1>2. /\ Enabled(T, k) \in Nat /\ Enabled(T, k + 1) \in Nat /\ MaxCpus \in Nat \ {0}
      /\ Enabled(T, k + 1) = Enabled(T, k) + (IF e.type = "APIC" /\ e.enabled THEN 1 ELSE 0)
  <2>1. MaxCpus \in Nat \ {0} /\ k + 1 \in Nat  BY LimitsAssumption
  <2>2. Enabled(T, k) \in Nat /\ Enabled(T, k + 1) \in Nat  BY <2>1, EnabledCounts
  <2>3. Enabled(T, k + 1) = Enabled(T, k) + (IF e.type = "APIC" /\ e.enabled THEN 1 ELSE 0)
    BY EnabledCounts
  <2> QED  BY <2>1, <2>2, <2>3
<1>3. s.at = "panic" \/ s.at = "done" \/ s.at = "loop"
  BY DEF RoundInv, Counted
<1>4. CASE s.at # "loop"
  <2>1. t = s  BY <1>4, Zenon DEF Entry
  <2>2. CASE s.at = "panic"
    BY <2>1, <2>2 DEF RoundInv
  <2>3. CASE s.at = "done"
    <3>1. SetUp(T, k, s.ioApics, s.pins) /\ Counted(T, k, s.cpus, s.at)  BY <2>3 DEF RoundInv
    <3>2. Enabled(T, k) >= MaxCpus  BY <1>2, <2>3, <3>1 DEF Counted
    <3>3. SetUp(T, k + 1, s.ioApics, s.pins)  BY <3>1, <3>2, SetUpKept
    <3>4. Enabled(T, k + 1) >= MaxCpus  BY <1>2, <3>2
    <3>5. Counted(T, k + 1, s.cpus, s.at)  BY <1>2, <2>3, <3>1, <3>2, <3>4 DEF Counted
    <3> QED  BY <2>1, <2>3, <3>3, <3>5 DEF RoundInv
  <2> QED  BY <1>3, <1>4, <2>2, <2>3
<1>5. CASE s.at = "loop" /\ e.type = "APIC"
  <2>1. /\ SetUp(T, k, s.ioApics, s.pins) /\ Counted(T, k, s.cpus, "loop")
        /\ s = [cpus |-> s.cpus, ioApics |-> s.ioApics, pins |-> s.pins, at |-> "loop"]
    BY <1>5 DEF RoundInv
  <2>2. SetUp(T, k + 1, s.ioApics, s.pins)  BY <1>5, <2>1, SetUpKept
  <2>3. Enabled(T, k) < MaxCpus /\ s.cpus \in Seq(Nat) /\ Len(s.cpus) = Enabled(T, k)
    BY <2>1 DEF Counted
  <2>4. CASE e.enabled
    <3> DEFINE cpus2 == Append(s.cpus, e.id)
    <3>1. t = StopWhenFull(AddNewCpu(s, e.id))  BY <1>5, <2>4, Zenon DEF Entry
    <3>2. AddNewCpu(s, e.id)
            = [cpus |-> cpus2, ioApics |-> s.ioApics, pins |-> s.pins, at |-> "loop"]
      BY <1>5, <2>1, CpuAdded
    <3>3. cpus2 \in Seq(Nat) /\ Len(cpus2) = Enabled(T, k) + 1
          /\ Enabled(T, k + 1) = Enabled(T, k) + 1
      <4>1. e.id \in Nat /\ s.cpus \in Seq(Nat)  BY <1>1, <1>5, <2>3
      <4>2. cpus2 \in Seq(Nat) /\ Len(cpus2) = Len(s.cpus) + 1
        <5>1. \A c \in Seq(Nat), n \in Nat : Append(c, n) \in Seq(Nat) /\ Len(Append(c, n)) = Len(c) + 1
          OBVIOUS
        <5> QED  BY <4>1, <5>1, Zenon
      <4>3. Enabled(T, k + 1) = Enabled(T, k) + 1
        <5>1. (IF e.type = "APIC" /\ e.enabled THEN 1 ELSE 0) = 1  BY <1>5, <2>4
        <5> QED  BY <1>2, <5>1, Zenon
      <4> QED  BY <2>3, <4>2, <4>3, Zenon
    <3> HIDE DEF cpus2
    <3>4. t = [cpus |-> cpus2, ioApics |-> s.ioApics, pins |-> s.pins,
               at |-> IF Len(cpus2) >= MaxCpus THEN "done" ELSE "loop"]
      BY <3>1, <3>2 DEF StopWhenFull
    <3>5. Counted(T, k + 1, cpus2, IF Len(cpus2) >= MaxCpus THEN "done" ELSE "loop")
      <4>1. CASE Len(cpus2) >= MaxCpus
        <5>1. Len(cpus2) = MaxCpus /\ ~(Enabled(T, k + 1) < MaxCpus)  BY <1>2, <2>3, <3>3, <4>1
        <5> QED  BY <3>3, <4>1, <5>1 DEF Counted
      <4>2. CASE ~(Len(cpus2) >= MaxCpus)
        <5>1. Enabled(T, k + 1) < MaxCpus  BY <1>2, <3>3, <4>2
        <5> QED  BY <3>3, <4>2, <5>1 DEF Counted
      <4> QED  BY <4>1, <4>2
    <3> QED  BY <2>2, <3>4, <3>5 DEF RoundInv
  <2>5. CASE ~e.enabled
    <3>1. t = s  BY <1>5, <2>5, Zenon DEF Entry
    <3>2. Enabled(T, k + 1) = Enabled(T, k)  BY <1>2, <2>5
    <3> QED  BY <2>1, <2>2, <3>1, <3>2 DEF RoundInv, Counted
  <2> QED  BY <2>4, <2>5
<1>6. CASE s.at = "loop" /\ e.type = "IOAPIC"
  <2>1. e.type # "APIC"  BY <1>6
  <2>2. t = IntrInitIoApic(s, e.addr, e.irqBase)  BY <1>6, <2>1, Zenon DEF Entry
  <2> QED  BY <1>6, <2>2, IoApicSetUp
<1>7. CASE s.at = "loop" /\ e.type = "IRQOVERRIDE"
  <2>1. e.type # "APIC" /\ e.type # "IOAPIC"  BY <1>7
  <2>2. t = IntrInitSetOverride(s, e)  BY <1>7, <2>1, Zenon DEF Entry
  <2> QED  BY <1>7, <2>2, OverrideSetUp
<1> QED  BY <1>1, <1>4, <1>5, <1>6, <1>7

\* The whole table.
LEMMA ParsedInv ==
  ASSUME NEW T \in Seq(MadtEntry), Separate(T)
  PROVE  RoundInv(T, Len(T), Parsed(T))
<1> DEFINE L == Len(T)
<1>1. L \in Nat /\ DOMAIN T = 1..L  OBVIOUS
<1> HIDE DEF L
<1>2. PICK f : /\ f[0] = Start /\ \A k \in 1..L : f[k] = Entry(f[k - 1], T[k])
               /\ Parsed(T) = f[L]
  <2>1. L = Len(T)  BY DEF L
  <2> QED  BY <1>1, <2>1, ParsedRounds
<1> DEFINE S == {k \in Nat : k <= L => RoundInv(T, k, f[k])}
<1>3. 0 \in S  BY <1>2, BeforeRounds
<1>4. ASSUME NEW k \in Nat, k \in S PROVE k + 1 \in S
  <2> SUFFICES ASSUME k + 1 <= L PROVE RoundInv(T, k + 1, f[k + 1])
    OBVIOUS
  <2>1. k <= L /\ k + 1 \in 1..L /\ (k + 1) - 1 = k  BY <1>1
  <2>2. RoundInv(T, k, f[k])  BY <1>4, <2>1
  <2>3. f[k + 1] = Entry(f[k], T[k + 1])  BY <1>2, <2>1
  <2> QED  BY <1>1, <2>1, <2>2, <2>3, RoundKeeps
<1> HIDE DEF S
<1>5. L \in S  BY <1>1, <1>3, <1>4, Inductive
<1>6. RoundInv(T, L, f[L])  BY <1>1, <1>5 DEF S
<1> QED  BY <1>2, <1>6 DEF L

\* What the loop and the defaults after it make of the table T, last pins included: r.
Obeyed(T, r) ==
  IF r.at = "panic"
  THEN \/ \E k \in IoApicsTo(T, Len(T)) : T[k].addr \notin DOMAIN MaxPin
       \/ Cardinality(IoApicsTo(T, Len(T))) > MaxIoApics
       \/ IoApicsTo(T, Len(T)) = {} /\ DefaultAddr \notin DOMAIN MaxPin
  ELSE /\ Len(r.cpus) \in 1..MaxCpus /\ Len(r.ioApics) \in 1..MaxIoApics
       /\ \A k \in IoApicsTo(T, Len(T)) :
            /\ \E n \in DOMAIN r.ioApics : r.ioApics[n].addr = T[k].addr
            /\ T[k].addr \in DOMAIN MaxPin /\ r.pins[T[k].addr] = PinsTo(T, k, Len(T))

\* Whatever the loop has found, there is a processor and an IO APIC after it.
LEMMA ParsesAll ==
  ASSUME NEW T \in Seq(MadtEntry), Separate(T)
  PROVE  Obeyed(T, ParseAcpiTables(T))
<1> DEFINE s == Parsed(T)
           u == AtLeastOneCpu(s)
           t == ParseAcpiTables(T)
           F == IoApicsTo(T, Len(T))
<1>1. RoundInv(T, Len(T), s)  BY ParsedInv
<1>2. t = AtLeastOneIoApic(u)  BY DEF ParseAcpiTables
<1> HIDE DEF s, t
<1>3. CASE s.at = "panic"
  <2>1. t = s  BY <1>2, <1>3 DEF AtLeastOneCpu, AtLeastOneIoApic
  <2> QED  BY <1>1, <1>3, <2>1 DEF RoundInv, Unfit, Obeyed, t
<1>4. CASE s.at # "panic"
  <2>1. /\ SetUp(T, Len(T), s.ioApics, s.pins) /\ Counted(T, Len(T), s.cpus, s.at)
        /\ s = [cpus |-> s.cpus, ioApics |-> s.ioApics, pins |-> s.pins, at |-> s.at]
    BY <1>1, <1>4 DEF RoundInv
  <2>2. /\ MaxCpus \in Nat \ {0} /\ MaxIoApics \in Nat \ {0} /\ Len(T) \in Nat
        /\ Enabled(T, Len(T)) \in Nat
    BY LimitsAssumption, EnabledCounts
  <2>3. s.cpus \in Seq(Nat) /\ Len(s.cpus) <= MaxCpus /\ Len(s.cpus) \in Nat
    BY <2>1, <2>2 DEF Counted
  <2>4. /\ u.at # "panic" /\ u.ioApics = s.ioApics /\ u.pins = s.pins
        /\ u = [cpus |-> u.cpus, ioApics |-> u.ioApics, pins |-> u.pins, at |-> u.at]
        /\ Len(u.cpus) \in 1..MaxCpus
    <3>1. CASE s.cpus = <<>>
      <4>1. u = [cpus |-> Append(s.cpus, SelfId), ioApics |-> s.ioApics, pins |-> s.pins, at |-> s.at]
        BY <1>4, <2>1, <3>1 DEF AtLeastOneCpu, AddNewCpu
      <4>2. Len(Append(s.cpus, SelfId)) = 1  BY <3>1
      <4> QED  BY <1>4, <2>2, <4>1, <4>2
    <3>2. CASE s.cpus # <<>>
      <4>1. u = s  BY <3>2 DEF AtLeastOneCpu
      <4>2. Len(s.cpus) # 0  BY <2>3, <3>2
      <4> QED  BY <1>4, <2>1, <2>2, <2>3, <4>1, <4>2
    <3> QED  BY <3>1, <3>2
  <2> HIDE DEF u
  <2>5. Len(s.ioApics) \in Nat /\ Len(s.ioApics) <= MaxIoApics /\ Len(s.ioApics) = Cardinality(F)
        /\ DOMAIN s.ioApics = 1..Len(s.ioApics)
        /\ IsFiniteSet(F) /\ (s.ioApics = <<>> => F = {})
    <3> DEFINE Datas == [addr : DOMAIN MaxPin, baseIrq : Nat, maxIrqs : Nat]
    <3>1. s.ioApics \in Seq(Datas) /\ Len(s.ioApics) = Cardinality(F) /\ Len(s.ioApics) <= MaxIoApics
      BY <2>1 DEF SetUp
    <3>2. IsFiniteSet(F)  BY <2>2, OneMoreFound
    <3> HIDE DEF Datas, F
    <3>3. s.ioApics = <<>> => Cardinality(F) = 0  BY <3>1
    <3> QED  BY <3>1, <3>2, <3>3, FS_EmptySet
  <2>6. CASE u.ioApics # <<>>
    <3>1. t = u  BY <1>2, <2>6 DEF AtLeastOneIoApic
    <3>2. Len(u.ioApics) \in 1..MaxIoApics  
      <4>1. u.ioApics \in Seq([addr : DOMAIN MaxPin, baseIrq : Nat, maxIrqs : Nat])
        BY <2>1, <2>4 DEF SetUp
      <4>2. Len(u.ioApics) # 0  BY <2>6, <4>1
      <4> QED  BY <2>2, <2>4, <2>5, <4>2
    <3>3. ASSUME NEW k \in F
          PROVE  /\ \E n \in DOMAIN u.ioApics : u.ioApics[n].addr = T[k].addr
                 /\ T[k].addr \in DOMAIN MaxPin /\ u.pins[T[k].addr] = PinsTo(T, k, Len(T))
      <4>1. PICK n \in 1..Len(s.ioApics) : s.ioApics[n] = Data(T[k])  BY <2>1 DEF SetUp
      <4>2. T[k].addr \in DOMAIN MaxPin /\ s.pins[T[k].addr] = PinsTo(T, k, Len(T))
        BY <2>1 DEF SetUp
      <4> QED  BY <2>4, <2>5, <4>1, <4>2 DEF Data
    <3> QED  BY <2>4, <3>1, <3>2, <3>3 DEF Obeyed, t
  <2>7. CASE u.ioApics = <<>>
    <3> DEFINE d == IntrInitIoApic(u, DefaultAddr, 0)
               o == [isaIrq |-> 0, apicIrq |-> 2, low |-> FALSE, level |-> FALSE]
    <3>1. F = {}  BY <2>4, <2>5, <2>7
    <3>2. t = IF d.at = "panic" THEN d ELSE IntrInitSetOverride(d, o)
      BY <1>2, <2>4, <2>7, Zenon DEF AtLeastOneIoApic
    <3>3. Len(u.ioApics) = 0 /\ MaxIoApics # 0  BY <2>2, <2>7
    <3>4. CASE DefaultAddr \notin DOMAIN MaxPin
      <4>1. d.at = "panic"  BY <2>4, <3>4 DEF IntrInitIoApic, Panic
      <4> QED  BY <3>1, <3>2, <3>4, <4>1 DEF Obeyed, t
    <3>5. CASE DefaultAddr \in DOMAIN MaxPin
      <4> DEFINE io2 == Append(u.ioApics, [addr |-> DefaultAddr, baseIrq |-> 0,
                                           maxIrqs |-> MaxPin[DefaultAddr]])
      <4>1. d = [cpus |-> u.cpus, ioApics |-> io2, pins |-> d.pins, at |-> u.at]
        BY <2>4, <3>3, <3>5 DEF IntrInitIoApic
      <4>2. Len(io2) = 1  BY <2>7
      <4> HIDE DEF d, io2
      <4>3. t = IntrInitSetOverride(d, o)
        <5>1. d.at # "panic"  BY <2>4, <4>1
        <5> QED  BY <3>2, <5>1, Zenon
      <4>4. t.cpus = d.cpus /\ t.ioApics = d.ioApics /\ t.at = d.at
        <5> HIDE DEF o
        <5> QED  BY <4>1, <4>3 DEF IntrInitSetOverride
      <4>5. 1 \in 1..MaxIoApics  BY <2>2
      <4>6. Len(t.cpus) \in 1..MaxCpus /\ t.ioApics = io2 /\ t.at # "panic"
        <5>1. d.cpus = u.cpus /\ d.ioApics = io2 /\ d.at = u.at
          <6> DEFINE p == d.pins
          <6> HIDE DEF p
          <6>1. d = [cpus |-> u.cpus, ioApics |-> io2, pins |-> p, at |-> u.at]  BY <4>1 DEF p
          <6> QED  BY <6>1
        <5> QED  BY <2>4, <4>4, <5>1
      <4> QED  BY <3>1, <4>2, <4>5, <4>6 DEF Obeyed, t
    <3> QED  BY <3>4, <3>5
  <2> QED  BY <2>6, <2>7
<1> QED  BY <1>3, <1>4

----------------------------------------------------------------------------
(* The function that is called is called as it may be, and ret is what it  *)
(* returns.                                                                *)

\* What each function returned.
Answered(c, r) ==
  /\ c.fn = "TimeMakePeriod" => r = <<TimeMakePeriod(c.us)>>
  /\ c.fn = "TimeExpandPeriodBase" => r = <<TimeExpandPeriodBase(c.period, c.base)>>
  /\ c.fn = "memcpy" => r = <<MemCpy(c.mem, c.dest, c.src, c.len)>>
  /\ c.fn = "memset" => r = <<MemSet(c.mem, c.dest, c.value, c.len)>>
  /\ c.fn = "memcmp" => r = <<MemCmp(c.mem, c.a, c.b, c.len)>>
  /\ c.fn = "put_fat" => r = <<Put12(c.table, c.clst, c.val)>>
  /\ c.fn = "f_mkfs" => r = <<FMkfs(c.sectors)>>
  /\ c.fn = "ParseAcpiTables" => r = <<ParseAcpiTables(c.madt)>>
CallInv == call \in Calls /\ Allowed(call) /\ (ret = <<>> \/ Answered(call, ret))

\* Every function is called once and returns what its definition says.
LEMMA ReturnsOnce == Spec => []CallInv
<1>1. Init => CallInv
  BY DEF Init, CallInv
<1>2. CallInv /\ [Next]_vars => CallInv'
  <2> SUFFICES ASSUME CallInv, [Next]_vars PROVE CallInv'
    OBVIOUS
  <2>1. CASE UNCHANGED vars
    BY <2>1 DEF CallInv, vars
  <2>2. CASE Next
    <3>1. call' = call  BY <2>2 DEF Next, Returns
    <3>2. Answered(call, ret')  BY <2>2 DEF Next, Returns, Answered
    <3> QED  BY <3>1, <3>2 DEF CallInv
  <2> QED  BY <2>1, <2>2
<1> QED  BY <1>1, <1>2, PTL DEF Spec

\* What the arguments of each function are.
LEMMA Arguments ==
  ASSUME NEW c \in Calls
  PROVE  /\ c.fn = "TimeMakePeriod" => c.us \in Lengths
         /\ c.fn = "TimeExpandPeriodBase" => c.period \in Periods /\ c.base \in Clocks
         /\ c.fn = "memcpy" =>
              c.mem \in Memories /\ c.dest \in Addresses /\ c.src \in Addresses /\ c.len \in Lens
         /\ c.fn = "memset" =>
              c.mem \in Memories /\ c.dest \in Addresses /\ c.value \in Values /\ c.len \in Lens
         /\ c.fn = "memcmp" =>
              c.mem \in Memories /\ c.a \in Addresses /\ c.b \in Addresses /\ c.len \in Lens
         /\ c.fn = "put_fat" => c.table \in Tables /\ c.clst \in FatEntries /\ c.val \in Links
         /\ c.fn = "f_mkfs" => c.sectors \in Images
         /\ c.fn = "ParseAcpiTables" => c.madt \in Madts
  BY DEF Calls

\* The period made of any length of time, in any width of periods and clocks.
THEOREM PeriodsAreClose == Spec => []MadeIsClose
<1>1. CallInv => MadeIsClose
  <2> SUFFICES ASSUME CallInv, Returned("TimeMakePeriod") PROVE Close(call.us, ret[1])
    BY Zenon DEF MadeIsClose, Close
  <2>1. call.us \in 0..(Pow2[ClockBits] - 1)
    BY Arguments, TimeAssumption DEF CallInv, Returned
  <2>2. ret[1] = TimeMakePeriod(call.us)
    BY DEF CallInv, Returned, Answered
  <2> QED  BY <2>1, <2>2, MadeOfAll
<1> QED  BY <1>1, ReturnsOnce, PTL

\* Every absolute period on every clock.
THEOREM AbsolutesReplace == Spec => []AbsoluteReplaces
<1>1. CallInv => AbsoluteReplaces
  <2> SUFFICES ASSUME CallInv, Returned("TimeExpandPeriodBase"), ~Relative(call.period)
               PROVE  Replaces(call.period, call.base, ret[1])
    BY Zenon DEF AbsoluteReplaces, Replaces
  <2>0. /\ Pow2[ClockBits] - 1 \in Int
        /\ 2 * Pow2[MantissaBits + ExponentBits] - 1 \in Int
    <3>1. MantissaBits + ExponentBits \in Nat /\ ClockBits \in Nat  BY Widths
    <3> QED  BY <3>1, Powers
  <2>1. call.period \in Nat /\ call.base \in Nat
    <3>1. call.period \in Periods /\ call.base \in Clocks
      BY Arguments DEF CallInv, Returned
    <3>2. /\ call.period \in 0..(2 * Pow2[MantissaBits + ExponentBits] - 1)
          /\ call.base \in 0..(Pow2[ClockBits] - 1)
      BY <3>1, TimeAssumption, Zenon
    <3> QED  BY <2>0, <3>2
  <2>2. ret[1] = TimeExpandPeriodBase(call.period, call.base)
    BY DEF CallInv, Returned, Answered
  <2> QED  BY <2>1, <2>2, AllReplaced
<1> QED  BY <1>1, ReturnsOnce, PTL

\* An entry of a FAT12 table that is written reads back and no other changes.
THEOREM FatEntriesApart == Spec => []EntriesApart
<1>1. CallInv => EntriesApart
  <2> SUFFICES ASSUME CallInv, Returned("put_fat") PROVE
        /\ Get12(ret[1], call.clst) = call.val
        /\ \A c \in FatEntries \ {call.clst} :
             /\ Get12(ret[1], c) = Get12(call.table, c)
             /\ Get12(PutLow(call.table, call.clst, call.val), c) = Get12(call.table, c)
    BY DEF EntriesApart
  <2> DEFINE table == call.table
             clst == call.clst
             val == call.val
             D == DOMAIN table
             b == FirstByte(clst)
  <2>1. table \in Tables /\ clst \in FatEntries /\ val \in Links
    BY Arguments DEF CallInv, Returned
  <2>2. ret[1] = Put12(table, clst, val)
    BY DEF CallInv, Returned, Answered
  <2> HIDE DEF table, clst, val
  <2>3. /\ val \in Entries /\ table \in [D -> Bytes] /\ D \in SUBSET Int
        /\ \A c \in FatEntries : c \in Nat /\ FirstByte(c) \in D /\ FirstByte(c) + 1 \in D
    BY <2>1, TableAssumption DEF Bytes, Entries
  <2> HIDE DEF D
  <2>4. clst \in Nat /\ b \in D /\ b + 1 \in D
    BY <2>1, <2>3
  <2> HIDE DEF b
  <2>5. b = FirstByte(clst)  BY DEF b
  <2>6. Get12(ret[1], clst) = val
    BY <2>2, <2>3, <2>4, <2>5, ReadsBack
  <2>7. ASSUME NEW c \in FatEntries \ {clst}
        PROVE  /\ Get12(ret[1], c) = Get12(table, c)
               /\ Get12(PutLow(table, clst, val), c) = Get12(table, c)
    <3>1. PICK d : d = FirstByte(c) /\ c \in Nat /\ c # clst /\ d \in D /\ d + 1 \in D
      BY <2>3
    <3>2. \A w : (w = PutLow(table, clst, val) \/ w = Put12(table, clst, val)) =>
                   Get12(w, c) = Get12(table, c)
      BY <2>3, <2>4, <2>5, <3>1, OthersKept
    <3> QED  BY <2>2, <3>2
  <2> QED  BY <2>6, <2>7 DEF table, clst, val
<1> QED  BY <1>1, ReturnsOnce, PTL

\* memcpy, memset and memcmp on every memory, at every address and for every length, as far as
\* BytesExact claims it.
THEOREM BytesAreExact == Spec => []BytesExact
<1>1. CallInv => BytesExact
  <2> SUFFICES ASSUME CallInv PROVE BytesExact
    OBVIOUS
  <2>0. call \in Calls /\ Allowed(call)  BY DEF CallInv
  <2>1. ASSUME Returned("memcpy") PROVE Copied
    <3>1. /\ call.mem \in [DOMAIN call.mem -> Bytes] /\ DOMAIN call.mem \in SUBSET Int
          /\ call.dest \in Int /\ call.src \in Int /\ call.len \in Nat
      BY <2>0, <2>1, Arguments, MemoryAssumption DEF Returned, Bytes
    <3>2. /\ Cells(call.dest, call.len) \cup Cells(call.src, call.len) \subseteq DOMAIN call.mem
          /\ Cells(call.dest, call.len) \cap Cells(call.src, call.len) = {}
      BY <2>0, <2>1 DEF Returned, Allowed
    <3>3. ret[1] = MemCpy(call.mem, call.dest, call.src, call.len)
      BY <2>1 DEF CallInv, Returned, Answered
    <3> QED  BY <3>1, <3>2, <3>3, CopiesAll DEF Copied
  <2>2. ASSUME Returned("memset")
        PROVE  /\ (call.value = 0 \/ call.len \notin Word..(2 * Word - 1)) => Filled
               /\ NoOtherByte
    <3> DEFINE mem == call.mem
               D == DOMAIN mem
               dest == call.dest
               len == call.len
               value == call.value
               r == ret[1]
    <3>1. mem \in [D -> Bytes] /\ D \in SUBSET Int /\ dest \in Int /\ value \in Bytes /\ len \in Nat
      BY <2>0, <2>2, Arguments, MemoryAssumption DEF Returned, Bytes
    <3>2. r = MemSet(mem, dest, value, len)
      BY <2>2 DEF CallInv, Returned, Answered
    <3>3. PICK skipped : skipped = IF value # 0 /\ len \in Word..(2 * Word - 1) THEN Word ELSE 0
      OBVIOUS
    <3> HIDE DEF D, mem, dest, len, value, r
    <3>4. r = [a \in D |-> IF a \in Cells(dest, len - skipped) THEN value ELSE mem[a]]
      BY <3>1, <3>2, <3>3, FillsAll
    <3>5. ASSUME value = 0 \/ len \notin Word..(2 * Word - 1)
          PROVE  r = [a \in D |-> IF a \in Cells(dest, len) THEN value ELSE mem[a]]
      <4>1. len - skipped = len  BY <3>1, <3>3, <3>5
      <4> QED  BY <3>4, <4>1
    <3>6. ASSUME NEW a \in D \ Cells(dest, len) PROVE r[a] = mem[a]
      <4>1. skipped \in Nat  BY <3>3 DEF Word
      <4>2. a \notin Cells(dest, len - skipped)  BY <3>1, <3>6, <4>1 DEF Cells
      <4> QED  BY <3>4, <4>2
    <3>7. (value = 0 \/ len \notin Word..(2 * Word - 1)) => Filled
      BY <3>5, Zenon DEF Filled, D, mem, dest, len, value, r
    <3>8. NoOtherByte
      BY <3>6, Zenon DEF NoOtherByte, D, mem, dest, len, value, r
    <3> QED  BY <3>7, <3>8 DEF value, len
  <2>3. ASSUME Returned("memcmp") PROVE Ordered
    <3> DEFINE mem == call.mem
               D == DOMAIN mem
               a == call.a
               b == call.b
               len == call.len
               r == ret[1]
    <3>1. mem \in [D -> Bytes] /\ D \in SUBSET Int /\ a \in Int /\ b \in Int /\ len \in Nat
      BY <2>0, <2>3, Arguments, MemoryAssumption DEF Returned, Bytes
    <3>2. Cells(a, len) \cup Cells(b, len) \subseteq D
      BY <2>0, <2>3 DEF Returned, Allowed
    <3>3. r = MemCmp(mem, a, b, len)
      BY <2>3 DEF CallInv, Returned, Answered
    <3> HIDE DEF D, mem, a, b, len, r
    <3>4. Orders(r, mem, a, b, len)
      BY <3>1, <3>2, <3>3, OrdersAll
    <3> QED  BY <3>4, Zenon DEF Ordered, Orders, mem, a, b, len, r
  <2> QED  BY <2>1, <2>2, <2>3 DEF BytesExact
<1> QED  BY <1>1, ReturnsOnce, PTL

\* A volume of any size that f_mkfs makes is mounted as what it was made, and no size is
\* refused but those that are known.
THEOREM EverySizeMounts == Spec => []MountsAsFormatted
<1>1. CallInv => MountsAsFormatted
  <2> SUFFICES ASSUME CallInv, Returned("f_mkfs") PROVE
        IF ret[1].res = "FR_OK" THEN ~SizeRefused /\ Fitting(ret[1]) ELSE SizeRefused
    BY DEF MountsAsFormatted
  <2>1. call.sectors \in Nat
    BY Arguments, ImageAssumption DEF CallInv, Returned
  <2>2. ret[1] = FMkfs(call.sectors)
    BY DEF CallInv, Returned, Answered
  <2>3. PICK n \in Nat : call.sectors = n
    BY <2>1
  <2> QED  BY <2>2, <2>3, MakesOrRefuses
<1> QED  BY <1>1, ReturnsOnce, PTL

\* What the loop makes of a pin is what the table lists.
LEMMA DescribedAsListed ==
  ASSUME NEW T \in Seq(MadtEntry), NEW k \in Nat, NEW irq, NEW pin,
         pin = DescribedTo(T, k, irq, Len(T))
  PROVE  PinAsListed(T, k, irq, pin)
<1> DEFINE L == Len(T)
           O == OverridesTo(T, k, irq, L)
           Last(S) == CHOOSE o \in S : \A l \in S : l <= o
<1>0. L \in Nat /\ DOMAIN T = 1..L  OBVIOUS
<1>1. pin = IF O = {} THEN Masked(INTR_IRQ + irq) ELSE Override(T[Last(O)])
  BY Zenon DEF DescribedTo
<1>2. O \subseteq Naming(T, irq)  BY <1>0 DEF OverridesTo, Naming
<1>3. pin.masked  BY <1>1 DEF Masked, Override
<1>4. ASSUME Naming(T, irq) = {} PROVE pin = Masked(INTR_IRQ + irq)
  BY <1>1, <1>2, <1>4
<1>5. ASSUME NEW j \in Seen(T), j > k, Settles(T, j, irq) PROVE Formed(pin, T[j])
  <2>1. j \in 1..L /\ Enabled(T, j - 1) < MaxCpus  BY <1>5 DEF Seen
  <2>2. T[j].type = "IRQOVERRIDE" /\ T[j].isaIrq = irq
    BY <1>5 DEF Settles, Naming
  <2>3. j \in O  BY <1>5, <2>1, <2>2 DEF OverridesTo
  <2>4. \A l \in O : l <= j  BY <1>2, <1>5 DEF Settles
  <2>5. O \subseteq Int  BY DEF OverridesTo
  <2> HIDE DEF O
  <2> HIDE DEF Last
  <2>7. pin = Override(T[j])
    <3>1. Last(O) = CHOOSE o \in O : \A l \in O : l <= o  BY DEF Last
    <3>2. Last(O) \in O /\ \A l \in O : l <= Last(O)  BY <2>3, <2>4, <3>1
    <3>3. Last(O) = j
      <4>1. Last(O) \in Int /\ j \in Int /\ j <= Last(O) /\ Last(O) <= j
        BY <2>3, <2>4, <2>5, <3>2
      <4> QED  BY <4>1
    <3> QED  BY <1>1, <2>3, <3>3
  <2> QED  BY <2>7 DEF Formed, Override
<1> HIDE DEF O
<1> QED  BY <1>3, <1>4, <1>5 DEF PinAsListed

\* Whatever an ACPI table lists and in whatever order, as long as its IO APICs are apart, the
\* pins are set up as it lists them.
THEOREM TablesSetUpAsListed == Spec => []PinsAsListed
<1>1. CallInv => PinsAsListed
  <2> SUFFICES ASSUME CallInv, Returned("ParseAcpiTables") PROVE PinsAsListed
    BY DEF PinsAsListed
  <2> DEFINE T == call.madt
             r == ret[1]
             L == Len(T)
  <2>1. T \in Seq(MadtEntry) /\ Separate(T)
    <3>1. T \in Madts  BY Arguments DEF CallInv, Returned
    <3> QED  BY <3>1, MadtAssumption, Zenon DEF Separate
  <2>2. r = ParseAcpiTables(T)
    BY DEF CallInv, Returned, Answered
  <2>3. Obeyed(T, r)  BY <2>1, <2>2, ParsesAll
  <2> HIDE DEF T, r
  <2>4. L \in Nat  BY <2>1
  <2>5. IoApicsOf(T) = IoApicsTo(T, L)  BY DEF IoApicsOf, Seen, IoApicsTo
  <2>6. CASE r.at = "panic"
    <3>1. Unusable  BY <2>3, <2>5, <2>6, Zenon DEF Obeyed, Unusable, T, r
    <3> QED  BY <2>6, <3>1, Zenon DEF PinsAsListed, T, r
  <2>7. CASE r.at # "panic"
    <3>1. /\ Len(r.cpus) \in 1..MaxCpus /\ Len(r.ioApics) \in 1..MaxIoApics
          /\ \A k \in IoApicsOf(T) : /\ \E n \in DOMAIN r.ioApics : r.ioApics[n].addr = T[k].addr
                                     /\ T[k].addr \in DOMAIN MaxPin
                                     /\ r.pins[T[k].addr] = PinsTo(T, k, L)
      BY <2>3, <2>5, <2>7, Zenon DEF Obeyed
    <3>2. ASSUME NEW k \in IoApicsOf(T), NEW i \in 0..(MaxPin[T[k].addr] - 1)
          PROVE  PinAsListed(T, k, T[k].irqBase + i, r.pins[T[k].addr][i])
      <4> DEFINE M == MaxPin[T[k].addr]
      <4>1. k \in 1..L  BY DEF IoApicsOf, Seen
      <4>2. r.pins[T[k].addr] = [j \in 0..M |-> IF j = M THEN Masked(0)
                                                ELSE DescribedTo(T, k, T[k].irqBase + j, L)]
        BY <3>1, Zenon DEF PinsTo
      <4>3. i \in 0..M /\ i # M
        <5>1. M \in Nat  BY <3>1, PinNumbers
        <5> QED  BY <5>1
      <4> HIDE DEF M
      <4>4. r.pins[T[k].addr][i] = DescribedTo(T, k, T[k].irqBase + i, L)
        BY <4>2, <4>3
      <4>5. k \in Nat  BY <2>4, <4>1
      <4> QED  BY <2>1, <4>4, <4>5, DescribedAsListed
    <3> QED  BY <2>7, <3>1, <3>2, Zenon DEF PinsAsListed, T, r
  <2> QED  BY <2>6, <2>7
<1> QED  BY <1>1, ReturnsOnce, PTL
=============================================================================
