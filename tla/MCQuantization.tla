--------------------------- MODULE MCQuantization ---------------------------
(***************************************************************************)
(* The search for the offset, or blocks that move the gas limit once it is *)
(* set: a behaviour is of one of the two.  Blocks start from the gas       *)
(* limits of the table of EIP-8037 (index.md, "Quantization"), from where  *)
(* the cost before quantization passes a power of two, and from either     *)
(* side of the one limit in range, 556,074,058, where the steps double.    *)
(***************************************************************************)
EXTENDS OffsetSearch

CONSTANTS Targets, MaxBlocks, Tabulated, StableBlocks

VARIABLES part, target, gas_limit, blocks
walkVars == <<target, gas_limit, blocks>>

Walk == INSTANCE GasLimitWalk WITH CPSB_SIGNIFICANT_BITS <- SEARCH_BITS

QuantizationInit ==
  /\ part \in {"search", "walk"}
  /\ Init /\ Walk!Init
  /\ part = "search" => target = 100

QuantizationNext ==
  \/ part = "search" /\ Next /\ UNCHANGED <<part, walkVars>>
  \/ part = "walk" /\ Walk!Next /\ UNCHANGED <<part, vars>>

QuantizationSpec == QuantizationInit /\ [][QuantizationNext]_<<part, vars, walkVars>>

\* The boundaries that the notebook measures distances to are where the cost
\* changes: at the first gas limit of a bucket, and nowhere inside.
BoundariesAreSharp == Walk!BoundariesAreSharp

\* A higher gas limit never makes state cheaper, nor a lower one dearer, also
\* across the limit from which the steps are twice as coarse (compute_cpsb).
CostFollowsLimit == Walk!CostFollowsLimit

\* From each gas limit of the table, the cost stays the same for nine blocks of
\* changes however they go (what the proposal says of its offset).
CostIsStable == Walk!CostIsStable

-----------------------------------------------------------------------------
TableLimits == {50 * i : i \in 2 .. 20}
MC_Targets == TableLimits \cup {60, 84, 167, 168, 334, 335, 556, 557, 668, 670}
=============================================================================
