----------------------------- MODULE FixedPoint -----------------------------
(* What EIP-7543 promises of its opcodes: a register holds a number with at  *)
(* most three decimals, kept here in thousandths.  A sum, product or         *)
(* reciprocal is the exact one without the digits below the precision of the *)
(* call; a function is the true one up to a few units of the last place.     *)
EXTENDS Integers

CONSTANTS Numbers,      \* the other operands, in thousandths
          Precisions    \* decimals that a call keeps, at most 3

VARIABLES value,
          executed      \* the opcode that gave it, with its other arguments

Distance(m, n) == IF m < n THEN n - m ELSE m - n

Truncated(numerator, denominator) ==
  LET quotient == Distance(0, numerator) \div Distance(0, denominator)
  IN  IF (numerator < 0) = (denominator < 0) THEN quotient ELSE -quotient

Grain(p) == 10 ^ (3 - p)
Kept(numerator, denominator, p) == Grain(p) * Truncated(numerator, denominator * Grain(p))

(* e^a and ln(a) of some numbers, to the nearest thousandth.                 *)
ExpPoints == {<<-1000, 368>>, <<-500, 607>>, <<0, 1000>>, <<500, 1649>>, <<1000, 2718>>}
LnPoints == {<<500, -693>>, <<1000, 0>>, <<1500, 405>>, <<2000, 693>>, <<3000, 1099>>,
             <<5000, 1609>>, <<10000, 2303>>, <<30000, 3401>>, <<100000, 4605>>}

-----------------------------------------------------------------------------

Init == value = 0 /\ executed = <<"push", 0>>
Load == \E n \in Numbers : executed' = <<"push", n>> /\ value' = n
Sum == \E n \in Numbers, p \in Precisions :
         executed' = <<"add", n, p>> /\ value' = Kept(value + n, 1, p)
Negation == executed' = <<"neg">> /\ value' = -value
Product == \E n \in Numbers, p \in Precisions :
             executed' = <<"mul", n, p>> /\ value' = Kept(value * n, 1000, p)
Reciprocal == \E p \in Precisions :
                /\ executed' = <<"inv", p>>
                /\ value' = IF value = 0 THEN 0 ELSE Kept(1000 * 1000, value, p)

(* What a function gives outside of its table is some number; the sine is    *)
(* compared with its own table apart from this specification.                *)
Function(name, p, points, error) ==
  /\ executed' = <<name, p>>
  /\ value' \in Int
  /\ \A point \in points : value = point[1] => Distance(value', point[2]) <= error * Grain(p)

Functions ==
  \E p \in Precisions :
    \/ Function("exp", p, ExpPoints, 4)
    \/ value >= 0 /\ Function("ln", p, LnPoints, 16)
    \/ Function("sin", p, {}, 0)

Next == Load \/ Sum \/ Negation \/ Product \/ Reciprocal \/ Functions

Spec == Init /\ [][Next]_<<value, executed>>
=============================================================================
