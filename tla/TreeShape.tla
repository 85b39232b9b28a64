------------------------------ MODULE TreeShape ------------------------------
(***************************************************************************)
(* Generalized tree indices of EIP-7745 (assets/binary_tree.py): node i    *)
(* has the children 2i and 2i+1, the root is 1.  The empty_node callback   *)
(* of a tree is given by the set of its optional containers.               *)
(***************************************************************************)
EXTENDS Integers, Sequences

CONSTANTS GTI_MAX_LEVEL,  \* the first leaf; 2^255 in the code
          Containers      \* inner nodes whose empty value is zero

ASSUME TreeAssumption == GTI_MAX_LEVEL \in Nat \ {0}

GTI_ROOT == 1
Nodes == 1 .. 2 * GTI_MAX_LEVEL - 1
Leaves == GTI_MAX_LEVEL .. 2 * GTI_MAX_LEVEL - 1

\* Hashes are pairs and the zero node is none, as no hash is zero.
BinaryHash(left, right) == <<left, right>>
Zero == <<>>

\* Strict ancestors of a node, and the nodes strictly below it.
Above[i \in Nodes] == IF i = GTI_ROOT THEN {} ELSE {i \div 2} \cup Above[i \div 2]
Below(i) == {j \in Nodes : i \in Above[j]}

\* The empty_node callback of a tree: a leaf or an optional container is zero
\* while empty, any other node hashes its empty children.
EmptyNode[i \in Nodes] ==
  IF i \in Leaves \cup Containers THEN Zero
                                  ELSE BinaryHash(EmptyNode[2 * i], EmptyNode[2 * i + 1])
=============================================================================
