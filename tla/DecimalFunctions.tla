-------------------------- MODULE DecimalFunctions --------------------------
(* The elementary functions of EIP-7543 as the code computes them: e^a and   *)
(* sin(a) by their Taylor series, ln(a) by a continued fraction, every       *)
(* intermediate result rounded to the precision.                             *)
EXTENDS DecimalFloat

CONSTANT MaxAdjust      \* bound on the divisions by ten that ln tries

ASSUME AdjustAssumption == MaxAdjust \in Nat

(* The variables of the loop over the terms of a series: i counts the terms  *)
(* added, "out" is their sum.  The loops run while i < steps.                *)
Loop(out, a, next, steps) ==
  [out |-> out, a |-> a, power |-> ONE_DECIMAL, factorial |-> ONE_DECIMAL, next |-> next,
   inverse |-> Dec(0, 0), i |-> 1, steps |-> steps]

(* Each step inverts the next factorial, which panics if that has more       *)
(* trailing zeros than the precision has digits.                             *)
ExpFactorial(s, precision) ==
  Mul(s.factorial, Add(s.next, ONE_DECIMAL, precision), precision)

(* e^a: term i is a^i / i!.                                                  *)
ExpLoop(a, steps) == Loop(ONE_DECIMAL, a, ZERO_DECIMAL, steps)

ExpStep(s, precision) ==
  LET power == Mul(s.power, s.a, precision)
      next == Add(s.next, ONE_DECIMAL, precision)
      factorial == ExpFactorial(s, precision)
      inverse == Mul(InvOver(factorial, precision, s.inverse.c), power, precision)
  IN  [s EXCEPT !.out = Add(s.out, inverse, precision), !.power = power,
                !.factorial = factorial, !.next = next, !.inverse = inverse, !.i = s.i + 1]

SinFactorial(s, precision) ==
  LET even == Add(s.next, ONE_DECIMAL, precision)
  IN  Mul(Mul(s.factorial, even, precision), Add(even, ONE_DECIMAL, precision), precision)

(* sin(a): the powers grow by the square of a, from 1.                       *)
SinLoop(a, steps) == Loop(a, a, ONE_DECIMAL, steps)

SinStep(s, precision) ==
  LET power == Mul(s.power, Mul(s.a, s.a, precision), precision)
      next == Add(Add(s.next, ONE_DECIMAL, precision), ONE_DECIMAL, precision)
      factorial == SinFactorial(s, precision)
      term == Mul(InvOver(factorial, precision, s.inverse.c), power, precision)
      inverse == IF s.i % 2 = 1 THEN Neg(term) ELSE term
  IN  [s EXCEPT !.out = Add(s.out, inverse, precision), !.power = power,
                !.factorial = factorial, !.next = next, !.inverse = inverse, !.i = s.i + 1]

-----------------------------------------------------------------------------

(* The continued fraction of ln(1 + a): level n is (2n - 1)(2 + a) less      *)
(* (n a)^2 over level n + 1, down to level "steps".                          *)
Levels(a, precision, steps) ==
  LET base == Add(a, TWO_DECIMAL, precision)
      Odd(n) == Add(Mul(Dec(n, 0), TWO_DECIMAL, precision), MINUS_ONE_DECIMAL, precision)
      Square(n) == LET na == Mul(Dec(n, 0), a, precision) IN Mul(na, na, precision)
      level[n \in 1 .. steps] ==
        LET out == Mul(Odd(n), base, precision)
        IN  IF n = steps THEN out
            ELSE Add(out, Neg(Mul(Square(n), Inv(level[n + 1], precision), precision)), precision)
  IN  level

LnOnePlus(a, precision, steps) ==
  Mul(Inv(Levels(a, precision, steps)[1], precision), Mul(a, TWO_DECIMAL, precision), precision)

(* ln(10) = 10 ln(1 + 1/4) + 3 ln(1 + 3/125).                                *)
OneQuarter == Dec(25, -2)
ThreeOver125 == Dec(24, -3)
Ln10(precision, steps) ==
  Add(Mul(LnOnePlus(OneQuarter, precision, steps), TEN_DECIMAL, precision),
      Mul(LnOnePlus(ThreeOver125, precision, steps), Dec(3, 0), precision), precision)

(* How often a is divided by ten until it is below two.                      *)
Adjust(a, precision) ==
  Min({n \in 0 .. MaxAdjust : lessThan(Dec(a.c, Wrap(a.q - n)), TWO_DECIMAL, precision)})

Scaled(a, precision) ==
  Add(Dec(a.c, Wrap(a.q - Adjust(a, precision))), MINUS_ONE_DECIMAL, precision)

(* A negative number panics, and so does a level that cannot be inverted.    *)
CanLn(a, precision, steps) ==
  /\ a.c >= 0
  /\ isOne(a) \/ \A x \in {Scaled(a, precision), OneQuarter, ThreeOver125} :
       \A n \in 1 .. steps : CanInvert(Levels(x, precision, steps)[n], precision)

Ln(a, precision, steps) ==
  IF isOne(a) THEN ZERO_DECIMAL
  ELSE Add(LnOnePlus(Scaled(a, precision), precision, steps),
           Mul(Dec(Adjust(a, precision), 0), Ln10(precision, steps), precision), precision)
=============================================================================
