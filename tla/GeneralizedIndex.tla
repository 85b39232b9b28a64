-------------------------- MODULE GeneralizedIndex --------------------------
(***************************************************************************)
(* Arithmetic of generalized tree indices (EIP-7745 binary_tree.py): the   *)
(* path from the root to a node, one bit a level, after a leading 1.       *)
(* Indices are unbounded here: the trees that are checked are small.       *)
(***************************************************************************)
EXTENDS Integers, FiniteSetsExt

Shl(n, k) == n * 2 ^ k
Shr(n, k) == n \div 2 ^ k

gti_height(index) == CHOOSE h \in 0 .. index : 2 ^ h <= index /\ index < 2 ^ (h + 1)

\* root << height + index, where + binds tighter than <<.
gti_vector(root, index, height) == Shl(root, height + index)

\* (index - 1) << sub_height + sub_index, likewise.
gti_merge(index, sub_index) == Shl(index - 1, gti_height(sub_index) + sub_index)

gti_split_below(index, level) ==
  LET height == gti_height(index)
  IN IF height > level THEN Shr(index, height - level) ELSE index

gti_split_above(index, level) ==
  LET height == gti_height(index)
      gti_base == Shl(1, height - level)
  IN IF height <= level THEN 1 ELSE gti_base + (index % gti_base)

\* What gti_vector is for: item number index of a vector of 2^height below root.
VectorItem(root, index, height) == Shl(root, height) + index
=============================================================================
