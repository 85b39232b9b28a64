---------------------------- MODULE GasLimitWalk ----------------------------
(***************************************************************************)
(* Blocks after one with a common gas limit, each of which moves the limit *)
(* by the largest change, 1/1024 of its parent's (a rule of the chain, not *)
(* of this code): what becomes of the cost per state byte of EIP-8037.     *)
(***************************************************************************)
EXTENDS StateByteCost

CONSTANTS CPSB_SIGNIFICANT_BITS, CPSB_OFFSET,
          Targets,        \* gas limits the blocks start from, in millions
          MaxBlocks,      \* bound: blocks
          Tabulated,      \* those of them that the proposal has a table for
          StableBlocks    \* the number of blocks the table promises

VARIABLES target, gas_limit, blocks
vars == <<target, gas_limit, blocks>>

Cpsb(gl) == compute_cpsb(gl, CPSB_SIGNIFICANT_BITS, CPSB_OFFSET)

Init ==
  /\ target \in Targets
  /\ gas_limit = target * 1000000
  /\ blocks = 0

Raise == gas_limit' = gas_limit + gas_limit \div 1024
Lower == gas_limit' = gas_limit - gas_limit \div 1024

Block ==
  /\ blocks < MaxBlocks
  /\ Raise \/ Lower
  /\ blocks' = blocks + 1
  /\ UNCHANGED target

Next == Block

Spec == Init /\ [][Next]_vars

-----------------------------------------------------------------------------
\* From each gas limit of the table, the cost stays the same for nine blocks of
\* changes however they go: the smallest distance in the table is 9.1 blocks.
CostIsStable ==
  target \in Tabulated /\ blocks <= StableBlocks => Cpsb(gas_limit) = Cpsb(target * 1000000)

\* The boundaries the distances are measured to are where the cost changes: at
\* the first gas limit of a bucket, and nowhere inside.
BoundariesAreSharp ==
  LET b == boundaries(gas_limit, CPSB_SIGNIFICANT_BITS, CPSB_OFFSET)
  IN /\ b.lower <= gas_limit /\ gas_limit < b.upper
     /\ Cpsb(b.lower) = Cpsb(gas_limit) /\ Cpsb(b.upper - 1) = Cpsb(gas_limit)
     /\ Cpsb(b.lower - 1) < Cpsb(gas_limit) /\ Cpsb(gas_limit) < Cpsb(b.upper)

\* A higher gas limit never makes state cheaper, nor a lower one dearer, also
\* across a limit from which the steps are coarser.
CostFollowsLimit ==
  [][ /\ gas_limit' >= gas_limit => Cpsb(gas_limit') >= Cpsb(gas_limit)
      /\ gas_limit' <= gas_limit => Cpsb(gas_limit') <= Cpsb(gas_limit) ]_vars
=============================================================================
