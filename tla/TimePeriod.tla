------------------------------ MODULE TimePeriod ------------------------------
(***************************************************************************)
(* Time periods, kernel/src/time.c: a length of time in a few bits, a      *)
(* mantissa with an exponent, relative to a clock or replacing its low     *)
(* bits.  The widths are constants, in the code 10 and 5 of 16, 32 and 64. *)
(***************************************************************************)
EXTENDS Integers

CONSTANTS
  MantissaBits, ExponentBits,
  MaskBits,    \* of the constant that clears the mantissa
  ClockBits

\* 1 shifted to the left.
Pow2[n \in Nat] == IF n = 0 THEN 1 ELSE 2 * Pow2[n - 1]

\* The logarithm of the lengths with the largest exponent.
MaxLog2 == (MantissaBits - 1) + (Pow2[ExponentBits] - 1)

\* They fit into a clock.
ASSUME WidthAssumption ==
  /\ {MantissaBits, ExponentBits, MaskBits, ClockBits} \subseteq Nat
  /\ MantissaBits > 1 /\ ExponentBits > 1
  /\ MantissaBits + 1 < MaskBits /\ MaskBits < ClockBits /\ MaxLog2 < ClockBits

Mantissas == Pow2[MantissaBits]
Wrapped(t) == t % Pow2[ClockBits]

TIME_PEROID_ZERO == Mantissas
TIME_PEROID_INFINITE == 0

Log2(n) == CHOOSE k \in 0..ClockBits : Pow2[k] <= n /\ n < Pow2[k + 1]

Encoded(n, shift) == shift * Mantissas + (n \div Pow2[shift])

\* Mutant of TimeMakePeriod: the mantissa is one bit short.
TimeMakePeriodShort(n) ==
  CASE n = 0 -> TIME_PEROID_ZERO
    [] n > 0 /\ Log2(n) < MantissaBits - 1 -> n
    [] n > 0 /\ Log2(n) > MaxLog2 - 1 -> TIME_PEROID_INFINITE
    [] OTHER -> Encoded(n, Log2(n) - (MantissaBits - 2))

TimeMakePeriod(n) ==
  CASE n = 0 -> TIME_PEROID_ZERO
    [] n > 0 /\ Log2(n) < MantissaBits -> n
    [] n > 0 /\ Log2(n) > MaxLog2      -> TIME_PEROID_INFINITE
    [] OTHER -> Encoded(n, Log2(n) - (MantissaBits - 1))

\* The flag of an absolute period is the highest bit, its carry the lowest of the
\* exponent.
Relative(period) == period < Pow2[MantissaBits + ExponentBits]
Carry(period) == (period \div Mantissas) % 2
Mantissa(period) == period % Mantissas
AbsExponent(period) == (period % Pow2[MantissaBits + ExponentBits]) \div (2 * Mantissas)

\* The base without its low bits, as far as the mask reaches.
Upper(b) == (b % Pow2[MaskBits]) - (b % Mantissas)

\* carry is 0 or 1, and is compared with a bit that is 0 or Mantissas.
Adjusted(carry, b) == IF carry # ((b \div Mantissas) % 2) * Mantissas THEN Mantissas ELSE 0

\* Mutant of Absolute: the carry is not looked at.
AbsoluteNoCarry(period, b) ==
  Wrapped((Mantissa(period) + Upper(b)) * Pow2[AbsExponent(period)])

\* b is the base, shifted.
Absolute(period, b) ==
  Wrapped((Mantissa(period) + Upper(b) + Adjusted(Carry(period), b)) * Pow2[AbsExponent(period)])

TimeExpandPeriodBase(period, base) ==
  IF Relative(period)
  THEN Wrapped(base + Mantissa(period) * Pow2[period \div Mantissas])
  ELSE Absolute(period, base \div Pow2[AbsExponent(period)])
=============================================================================
