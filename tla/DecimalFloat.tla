---------------------------- MODULE DecimalFloat ----------------------------
(* The decimal numbers of EIP-7543: a coefficient and an exponent, both      *)
(* machine words read as signed integers.  Every operation computes with the *)
(* wrapping arithmetic of the words, then normalizes and rounds its result.  *)
(* Gas is left out.                                                          *)
EXTENDS Integers, FiniteSetsExt

CONSTANT Width          \* bits of a word; 256 in the code

ASSUME WidthAssumption == Width \in Nat \ {0}

Word == -(2 ^ (Width - 1)) .. 2 ^ (Width - 1) - 1
Wrap(n) == ((n + 2 ^ (Width - 1)) % 2 ^ Width) - 2 ^ (Width - 1)
Magnitude(n) == IF n < 0 THEN -n ELSE n
Sign(n) == IF n < 0 THEN -1 ELSE IF n = 0 THEN 0 ELSE 1

(* The exponent is read as unsigned: from the width on, as for a negative    *)
(* one, all factors 2 are lost.                                              *)
PowerOfTen(n) ==
  LET power[k \in 0 .. Width] == IF k = 0 THEN 1 ELSE Wrap(power[k - 1] * 10)
  IN  IF n \in 0 .. Width THEN power[n] ELSE 0

(* The library divides unsigned magnitudes, and by 0 gives 0.  A numerator 0 *)
(* leaves the output as it was: the code assigns to its own pointer.         *)
signedDiv(numerator, denominator, old) ==
  IF numerator = 0 THEN old
  ELSE IF denominator = 0 THEN 0
  ELSE Wrap(Sign(numerator) * Sign(denominator)
            * (Magnitude(numerator) \div Magnitude(denominator)))

-----------------------------------------------------------------------------

Decimal == [c : Word, q : Word]
Dec(c, q) == [c |-> c, q |-> q]

ZERO_DECIMAL == Dec(0, 1)
ONE_DECIMAL == Dec(1, 0)
MINUS_ONE_DECIMAL == Dec(-1, 0)
TWO_DECIMAL == Dec(2, 0)
TEN_DECIMAL == Dec(10, 0)

(* The code multiplies up the power of ten it divides by; the first one that *)
(* does not divide is below 2^Width at 256 bits and at the widths used here. *)
TrailingZeros(c) ==
  LET zeros[n \in Nat \ {0}] == IF n % 10 = 0 THEN 1 + zeros[n \div 10] ELSE 0
  IN  IF c = 0 THEN 0 ELSE zeros[Magnitude(c)]

Stripped(a) ==
  LET zeros == TrailingZeros(a.c)
  IN  IF a.c = 0 THEN Dec(0, 0) ELSE Dec(a.c \div 10 ^ zeros, Wrap(a.q + zeros))

(* Mutant: the division rounds down instead of towards zero.                 *)
RoundDown(a, precision) ==
  LET shift == Wrap(precision + a.q)
  IN  IF shift > 0 \/ shift < a.q THEN a
      ELSE Dec(a.c \div PowerOfTen(-shift), Wrap(a.q - shift))

round(a, precision) ==
  LET shift == Wrap(precision + a.q)
  IN  IF shift > 0 \/ shift < a.q THEN a
      ELSE Dec(signedDiv(a.c, PowerOfTen(-shift), a.c), Wrap(a.q - shift))

normalize(a, precision) == round(Stripped(a), precision)

-----------------------------------------------------------------------------

Shifted(a, b) == Wrap(a.c * PowerOfTen(Max({0, Wrap(a.q - b.q)})))

Add(a, b, precision) ==
  normalize(Dec(Wrap(Shifted(a, b) + Shifted(b, a)), Min({a.q, b.q})), precision)

Neg(a) == Dec(Wrap(-a.c), a.q)

Mul(a, b, precision) == normalize(Dec(Wrap(a.c * b.c), Wrap(a.q + b.q)), precision)

(* Any other exponent panics.                                                *)
CanInvert(a, precision) == Wrap(precision - a.q) >= 0

(* old is the coefficient the output holds before, here that of a.           *)
InvOver(a, precision, old) ==
  normalize(Dec(signedDiv(PowerOfTen(Wrap(precision - a.q)), a.c, old), -precision), precision)

Inv(a, precision) == InvOver(a, precision, a.c)

isOne(a) == a = ONE_DECIMAL
lessThan(a, b, precision) == Add(a, Neg(b), precision).c < 0
=============================================================================
