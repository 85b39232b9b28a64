------------------------------ MODULE MCDecimal ------------------------------
(* Decimals in several forms: a zero of each exponent the code makes, one    *)
(* with trailing zeros, one with a positive exponent, and one with more      *)
(* decimals than the lower precisions keep.                                  *)
EXTENDS DecimalRegister

MCOperands == {Dec(0, 0), Dec(2, 0), Dec(-5, -1), Dec(1999, -3), Dec(100, -2), Dec(1, 1)}
=============================================================================
