---------------------------- MODULE StateByteCost ----------------------------
(***************************************************************************)
(* The cost per state byte of EIP-8037, a step function of the gas limit,  *)
(* and its analysis (assets/quantization_analysis.ipynb).  The integers    *)
(* are those of the notebook; products that exceed 32 bits are divided in  *)
(* two steps of 14 bits, which is exact.                                   *)
(***************************************************************************)
EXTENDS Integers

\* 2,628,000 per year to 2 * 100 * 1024^3 bytes, in lowest terms: P / 2^28.
P == 3285
HALF == 2^14

CeilDiv(a, b) == (a + b - 1) \div b

\* ceil(gas_limit * P / 2^28)
raw(gas_limit) ==
  CeilDiv((gas_limit \div HALF) * P + CeilDiv((gas_limit % HALF) * P, HALF), HALF)

\* The smallest gas limit whose raw cost is n: (n - 1) * 2^28 // P + 1.
gas_limit_of(n) ==
  LET high == (n - 1) * HALF
  IN (high \div P) * HALF + ((high % P) * HALF) \div P + 1

bit_length(n) == CHOOSE k \in 0 .. 30 : 2^k > n /\ (k = 0 \/ 2^(k - 1) <= n)

shift_of(shifted, sig_bits) ==
  IF bit_length(shifted) > sig_bits THEN bit_length(shifted) - sig_bits ELSE 0

Truncated(n, shift) == (n \div 2^shift) * 2^shift

\* Mutant of compute_cpsb: the offset is left out.
CpsbWithoutOffset(gas_limit, sig_bits, offset) ==
  Truncated(raw(gas_limit), shift_of(raw(gas_limit), sig_bits))

\* Mutant of compute_cpsb: the bits are counted before the offset is added.
CpsbShiftOfRaw(gas_limit, sig_bits, offset) ==
  LET shifted == raw(gas_limit) + offset
      quantized == Truncated(shifted, shift_of(raw(gas_limit), sig_bits)) - offset
  IN IF quantized > 1 THEN quantized ELSE 1

compute_cpsb(gas_limit, sig_bits, offset) ==
  LET shifted == raw(gas_limit) + offset
      quantized == Truncated(shifted, shift_of(shifted, sig_bits)) - offset
  IN IF quantized > 1 THEN quantized ELSE 1

\* Mutant of boundaries: the bits are counted before the offset is added.
BoundariesOfRaw(target_gl, sig_bits, offset) ==
  LET shift == shift_of(raw(target_gl), sig_bits)
      lower_shifted == Truncated(raw(target_gl) + offset, shift)
  IN [lower |-> gas_limit_of(lower_shifted - offset),
      upper |-> gas_limit_of(lower_shifted + 2^shift - offset)]

\* Mutant of boundaries: the upper one is the end of the bucket.
BoundariesInclusive(target_gl, sig_bits, offset) ==
  LET shifted == raw(target_gl) + offset
      shift == shift_of(shifted, sig_bits)
      lower_shifted == Truncated(shifted, shift)
  IN [lower |-> gas_limit_of(lower_shifted - offset),
      upper |-> gas_limit_of(lower_shifted + 2^shift - 1 - offset)]

\* The first gas limit of the bucket of target_gl, and of the next bucket.
boundaries(target_gl, sig_bits, offset) ==
  LET shifted == raw(target_gl) + offset
      shift == shift_of(shifted, sig_bits)
      lower_shifted == Truncated(shifted, shift)
  IN [lower |-> gas_limit_of(lower_shifted - offset),
      upper |-> gas_limit_of(lower_shifted + 2^shift - offset)]

\* find_boundary_distance, in gas
boundary_distance(target_gl, sig_bits, offset) ==
  LET b == boundaries(target_gl, sig_bits, offset)
      up == b.upper - target_gl
      down == target_gl - b.lower
  IN IF up < down THEN up ELSE down
=============================================================================
