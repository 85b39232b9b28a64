---------------------------- MODULE OffsetSearch ----------------------------
(***************************************************************************)
(* The brute-force search of EIP-8037's notebook for the offset whose      *)
(* nearest boundary, relative to the gas limits it is to serve, is         *)
(* farthest: one offset a step, the best so far kept.                      *)
(***************************************************************************)
EXTENDS StateByteCost, FiniteSets

CONSTANTS SEARCH_BITS, SEARCH_MAX_OFFSET,
          SEARCH_GAS_LIMITS,    \* in millions
          CPSB_OFFSET           \* the offset the proposal sets

VARIABLES offset, best
vars == <<offset, best>>

\* A distance relative to its gas limit: m / gl, compared without overflow.
Less(a, b) ==
  LET qa == a.m \div a.gl    qb == b.m \div b.gl
  IN qa < qb \/ (qa = qb /\ (a.m % a.gl) * b.gl < (b.m % b.gl) * a.gl)

Distance(o, gl) == [m |-> boundary_distance(gl * 1000000, SEARCH_BITS, o), gl |-> gl]

min_frac(o) ==
  LET ds == {Distance(o, gl) : gl \in SEARCH_GAS_LIMITS}
  IN CHOOSE d \in ds : \A e \in ds : ~Less(e, d)

Init == offset = 0 /\ best = [offset |-> -1, frac |-> [m |-> -1, gl |-> 1]]

\* Sorting in reverse puts the larger offset first among equals.
Step ==
  /\ offset <= SEARCH_MAX_OFFSET
  /\ LET d == min_frac(offset)
     IN best' = IF Less(d, best.frac) THEN best ELSE [offset |-> offset, frac |-> d]
  /\ offset' = offset + 1

Next == Step

Spec == Init /\ [][Next]_vars

-----------------------------------------------------------------------------
\* The offset the proposal sets is the one the whole search puts first.
OffsetIsBest == offset > SEARCH_MAX_OFFSET => best.offset = CPSB_OFFSET
=============================================================================
