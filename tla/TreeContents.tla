---------------------------- MODULE TreeContents ----------------------------
(***************************************************************************)
(* What the binary tree of EIP-7745 promises its caller: a Merkle tree     *)
(* whose root commits to the values of its leaves and to which optional    *)
(* containers have been initialised.  The hash is injective, so the root,  *)
(* a nested pair, is the contents; nothing here is cached, invalidated,    *)
(* expanded on demand or forgotten.  Each step is one call.                *)
(***************************************************************************)
EXTENDS TreeShape

CONSTANT Values   \* what a leaf is set to

VARIABLES
    root,
    call,     \* the last call: its name, its node and the value set or returned
    raised    \* it was refused

contentsVars == <<root, call, raised>>

\* The value at each node, those below an empty container included.
At[i \in Nodes] ==
  IF i = GTI_ROOT THEN root
  ELSE IF At[i \div 2] = Zero THEN EmptyNode[i]
  ELSE At[i \div 2][1 + (i % 2)]

\* The root once node i is v: what contains i is hashed, so it is not empty.
Put(i, v) ==
  LET new[n \in Nodes] ==
        IF n = i THEN v
        ELSE IF n \in Above[i] THEN BinaryHash(new[2 * n], new[2 * n + 1])
        ELSE At[n]
  IN new[GTI_ROOT]

Init == root = EmptyNode[GTI_ROOT] /\ call = <<>> /\ raised = FALSE

\* btree_get returns what the node contains.
Get(i) == call' = <<"get", i, At[i]>> /\ UNCHANGED root

\* btree_set: one leaf gets the value.
Set(i, v) == call' = <<"set", i, v>> /\ root' = Put(i, v)

\* btree_expand: a node exists from now on, so what contains it does too.
Expand(i) == call' = <<"expand", i>> /\ root' = Put(i, At[i])

Collapse(i) == call' = <<"collapse", i>> /\ UNCHANGED root

\* A get or a collapse may be refused, as the contents do not tell which nodes
\* can be read; a set or an expansion only where the node or one that contains it
\* is in use.
InUse(i) == \E n \in Above[i] \cup {i} : At[n] # EmptyNode[n]

Refuse(i) ==
  /\ \/ call' \in {<<"get", i>>, <<"collapse", i>>}
     \/ call' = <<"expand", i>> /\ InUse(i)
     \/ \E v \in Values : call' = <<"set", i, v>> /\ InUse(i)
  /\ UNCHANGED root

Succeed == \/ \E i \in Nodes : Get(i) \/ Expand(i) \/ Collapse(i)
           \/ \E i \in Leaves, v \in Values : Set(i, v)

Next == ~raised /\ IF raised' THEN \E i \in Nodes : Refuse(i) ELSE Succeed

Spec == Init /\ [][Next]_contentsVars
=============================================================================
