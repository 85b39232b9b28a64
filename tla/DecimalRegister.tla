--------------------------- MODULE DecimalRegister ---------------------------
(* A contract that computes with the opcodes of EIP-7543: it keeps a decimal *)
(* in a register and combines it with other decimals, in the order it likes  *)
(* and at the precision it likes.                                            *)
EXTENDS DecimalFunctions

CONSTANTS Operands,     \* the decimals a contract may push
          Precisions,   \* the precisions it may ask for
          Terms,        \* the numbers of terms it may ask for
          Depths,       \* the depths of the continued fraction it may ask for
          MaxAngle,     \* bounds on the arguments of the series,
          MaxArgument,  \* and of the logarithm, in thousandths
          MaxCalls      \* bound on the opcodes executed

ASSUME RegisterAssumption ==
  /\ Operands \subseteq Decimal
  /\ Precisions \subseteq Nat
  /\ Terms \subseteq Nat /\ Depths \subseteq Nat \ {0}
  /\ MaxAngle \in Nat /\ MaxArgument \in Nat /\ MaxCalls \in Nat

VARIABLES acc,          \* the register
          executed,     \* the opcode that put it there, with its other arguments
          calls,        \* opcodes begun
          series        \* the loop of DECEXP or DECSIN, while it runs

vars == <<acc, executed, calls, series>>

None == [opcode |-> <<"none">>]
Idle == series = None

(* A decimal in thousandths; every number here has at most three decimals.   *)
Thousandths(a) ==
  IF a.q >= -3 THEN a.c * 10 ^ (a.q + 3) ELSE a.c \div 10 ^ (-a.q - 3)

-----------------------------------------------------------------------------

Init == acc = ZERO_DECIMAL /\ executed = <<"push", 0>> /\ calls = 0 /\ series = None

Call == Idle /\ calls < MaxCalls /\ calls' = calls + 1
Returns(opcode, a) == Call /\ executed' = opcode /\ acc' = a /\ UNCHANGED series
Runs(opcode, loop) ==
  /\ Call
  /\ series' = [opcode |-> opcode, loop |-> loop]
  /\ UNCHANGED <<acc, executed>>

Push == \E a \in Operands : Returns(<<"push", Thousandths(a)>>, a)
DecAdd ==
  \E b \in Operands, p \in Precisions : Returns(<<"add", Thousandths(b), p>>, Add(acc, b, p))
DecNeg == Returns(<<"neg">>, Neg(acc))
DecMul ==
  \E b \in Operands, p \in Precisions : Returns(<<"mul", Thousandths(b), p>>, Mul(acc, b, p))
DecInv == \E p \in Precisions : CanInvert(acc, p) /\ Returns(<<"inv", p>>, Inv(acc, p))

Within(bound) == Magnitude(Thousandths(acc)) <= bound
DecLn ==
  \E p \in Precisions, steps \in Depths :
    Within(MaxArgument) /\ CanLn(acc, p, steps) /\ Returns(<<"ln", p>>, Ln(acc, p, steps))

(* The series of 0 is known without a loop.                                  *)
DecExp ==
  \E p \in Precisions, steps \in Terms :
    IF acc.c = 0 THEN Returns(<<"exp", p>>, ONE_DECIMAL)
    ELSE Within(MaxAngle) /\ Runs(<<"exp", p>>, ExpLoop(acc, steps))
DecSin ==
  \E p \in Precisions, steps \in Terms :
    IF acc.c = 0 \/ p = 1 THEN Returns(<<"sin", p>>, acc)
    ELSE Within(MaxAngle) /\ Runs(<<"sin", p>>, SinLoop(acc, steps))

Running == ~Idle /\ series.loop.i < series.loop.steps
Precision == series.opcode[2]
Step == IF series.opcode[1] = "exp" THEN ExpStep(series.loop, Precision)
        ELSE SinStep(series.loop, Precision)
Invertible ==
  CanInvert(IF series.opcode[1] = "exp" THEN ExpFactorial(series.loop, Precision)
            ELSE SinFactorial(series.loop, Precision), Precision)

NextTerm ==
  /\ Running /\ Invertible
  /\ series' = [series EXCEPT !.loop = Step]
  /\ UNCHANGED <<acc, executed, calls>>

(* The call ends without a result.                                           *)
Panic ==
  /\ Running /\ ~Invertible
  /\ series' = None
  /\ UNCHANGED <<acc, executed, calls>>

Result ==
  /\ ~Idle /\ ~Running
  /\ acc' = series.loop.out /\ executed' = series.opcode /\ series' = None
  /\ UNCHANGED calls

Next ==
  \/ Push \/ DecAdd \/ DecNeg \/ DecMul \/ DecInv
  \/ DecLn \/ DecExp \/ DecSin \/ NextTerm \/ Panic \/ Result

Spec == Init /\ [][Next]_vars

-----------------------------------------------------------------------------

Abstract == INSTANCE FixedPoint WITH
              value <- Thousandths(acc),
              Numbers <- {Thousandths(b) : b \in Operands}

(* Whatever the forms of the decimals a computation passes through (trailing *)
(* zeros, a zero with an exponent), every opcode but the sine gives the exact*)
(* result cut at the precision, or a function within units of the last place.*)
ImplementsFixedPoint == Abstract!Spec

-----------------------------------------------------------------------------
(* What the functions are for and the code does otherwise. *)

(* The sine of some numbers, to the nearest thousandth.                      *)
SinPoints == {<<-1000, -841>>, <<-500, -479>>, <<500, 479>>, <<1000, 841>>, <<2000, 909>>}

(* The sine of a number that the table has is right to units of the last     *)
(* place.                                                                    *)
SinAccurate ==
  [][Result /\ series.opcode = <<"sin", 3>> => \A point \in SinPoints :
       Thousandths(acc) = point[1] => Magnitude(Thousandths(acc') - point[2]) <= 4]_vars

(* The logarithm of a number is computed only when it is positive.           *)
LnOfPositive == [][DecLn => acc.c > 0]_vars

=============================================================================
