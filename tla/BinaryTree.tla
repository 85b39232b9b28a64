----------------------------- MODULE BinaryTree -----------------------------
(***************************************************************************)
(* The lazily hashed binary tree of EIP-7745 (assets/binary_tree.py).      *)
(* data holds the nodes that are present.  A node that is absent above     *)
(* present ones was invalidated and is recomputed by btree_get; one that   *)
(* is absent below a present one was never expanded or was collapsed.      *)
(* Nothing rolls back when an assertion is raised, so raised keeps what    *)
(* was changed before, and stops the caller.                               *)
(***************************************************************************)
EXTENDS TreeShape

CONSTANTS Values,   \* what a leaf is set to
          Touched   \* the indices callers use

ASSUME TouchedAssumption == Touched \subseteq Nodes

VARIABLES data,    \* BinaryTree._data
          raised,  \* an AssertionError ended the last call
          call     \* the last call, its arguments and what btree_get returned

vars == <<data, raised, call>>

\* Not the value of any node: what reading a node that does not exist gives.
Nothing == <<"AssertionError">>

ASSUME ValueAssumption == Nothing \notin Values

\* The dictionary d once the entries of new are assigned.
Updated(d, new) ==
  [j \in DOMAIN d \cup DOMAIN new |-> IF j \in DOMAIN new THEN new[j] ELSE d[j]]

\* The nodes from i up to a, both included.
PathUp(i, a) == {n \in Above[i] \cup {i} : n >= a}

-----------------------------------------------------------------------------
\* What btree_get finds at each node of d.
NodeIn(d) ==
  LET node[i \in Nodes] ==
        IF i \in DOMAIN d THEN d[i]
        ELSE IF i >= GTI_MAX_LEVEL THEN Nothing
        ELSE LET left == node[2 * i] right == node[2 * i + 1]
             IN IF Nothing \in {left, right} THEN Nothing ELSE BinaryHash(left, right)
  IN node

\* The nodes btree_get caches on its way: left before right, and nothing
\* after the first node that does not exist.
Computed(d, i) ==
  LET node == NodeIn(d)
      new[j \in Nodes] ==
        IF j \in DOMAIN d \/ j >= GTI_MAX_LEVEL THEN {}
        ELSE IF node[2 * j] = Nothing THEN new[2 * j]
        ELSE new[2 * j] \cup new[2 * j + 1]
               \cup (IF node[2 * j + 1] = Nothing THEN {} ELSE {j})
  IN new[i]

AfterGet(d, i) == Updated(d, [j \in Computed(d, i) |-> NodeIn(d)[j]])

GetRaises(d, i) == NodeIn(d)[i] = Nothing

Without(d, gone) == [j \in DOMAIN d \ gone |-> d[j]]

\* Mutant of Invalidated: only the parent is dropped.
InvalidatedParent(d, i) == Without(d, {i \div 2})

\* Ancestors of i are dropped from i upwards until one is found absent.
Invalidated(d, i) ==
  Without(d, {a \in Above[i] : PathUp(i, a) \ {i} \subseteq DOMAIN d})

\* The nodes an expansion of i creates, and the present node it hangs them on.
NewNodes(d, i) == {n \in Above[i] \cup {i} : PathUp(i, n) \cap DOMAIN d = {}}
Frontier(d, i) == {n \in Above[i] \cup {i} : n \in DOMAIN d /\ PathUp(i, n) \cap DOMAIN d = {n}}

ExpandRaises(d, i) == \E n \in Frontier(d, i) : d[n] # EmptyNode[n]

\* Mutant of AfterExpand: ancestors are invalidated before the region is known
\* to be empty.
InvalidateFirst(d, i) ==
  LET path == [n \in NewNodes(d, i) |-> EmptyNode[n]]
      sibling(n) == (n \div 2) * 4 + 1 - n
      siblings == {sibling(n) : n \in NewNodes(d, i) \ {GTI_ROOT}}
  IN IF i \in DOMAIN d THEN d
     ELSE IF ExpandRaises(d, i) THEN Invalidated(Updated(d, path), i)
     ELSE Invalidated(Updated(Updated(d, path), [n \in siblings |-> EmptyNode[n]]), i)

\* Each new node gets its empty value on the way up; its sibling and the
\* invalidation of its ancestors come on the way back.
AfterExpand(d, i) ==
  LET path == [n \in NewNodes(d, i) |-> EmptyNode[n]]
      sibling(n) == (n \div 2) * 4 + 1 - n
      siblings == {sibling(n) : n \in NewNodes(d, i) \ {GTI_ROOT}}
  IN IF i \in DOMAIN d THEN d
     ELSE IF ExpandRaises(d, i) THEN Updated(d, path)
     ELSE Invalidated(Updated(Updated(d, path), [n \in siblings |-> EmptyNode[n]]), i)

SetRaises(d, i) == i \notin DOMAIN d /\ ExpandRaises(d, i)

\* Mutant of AfterSet: a leaf that did not exist is created and left empty.
SetOnlyCreates(d, i, v) ==
  IF i \notin DOMAIN d THEN AfterExpand(d, i)
                      ELSE Invalidated(Updated(d, [n \in {i} |-> v]), i)

\* Mutant of AfterSet: the ancestors keep their cached hashes.
SetKeepsCache(d, i, v) ==
  IF SetRaises(d, i) THEN AfterExpand(d, i) ELSE Updated(AfterExpand(d, i), [n \in {i} |-> v])

AfterSet(d, i, v) ==
  IF SetRaises(d, i) THEN AfterExpand(d, i)
  ELSE LET e == AfterExpand(d, i) IN Invalidated(Updated(e, [n \in {i} |-> v]), i)

\* Descendants are dropped as far as they are present.
AfterCollapse(d, i) ==
  IF GetRaises(d, i) THEN AfterGet(d, i)
  ELSE LET e == AfterGet(d, i)
       IN Without(e, {j \in Below(i) : PathUp(j, i) \subseteq DOMAIN e})

-----------------------------------------------------------------------------
Init == data = <<>> /\ raised = FALSE /\ call = <<>>

Get(i) ==
  /\ ~raised
  /\ data' = AfterGet(data, i)
  /\ raised' = GetRaises(data, i)
  /\ call' = IF raised' THEN <<"get", i>> ELSE <<"get", i, data'[i]>>

\* Callers set leaves.
Set(i, v) ==
  /\ ~raised
  /\ data' = AfterSet(data, i, v)
  /\ raised' = SetRaises(data, i)
  /\ call' = <<"set", i, v>>

\* Callers expand a node that is present or lies in an untouched region.
Expand(i) ==
  /\ ~raised
  /\ i \in DOMAIN data \/ Below(i) \cap DOMAIN data = {}
  /\ data' = AfterExpand(data, i)
  /\ raised' = ExpandRaises(data, i)
  /\ call' = <<"expand", i>>

Collapse(i) ==
  /\ ~raised
  /\ data' = AfterCollapse(data, i)
  /\ raised' = GetRaises(data, i)
  /\ call' = <<"collapse", i>>

Next == \/ \E i \in Touched : Get(i) \/ Expand(i) \/ Collapse(i)
        \/ \E i \in Touched \cap Leaves, v \in Values : Set(i, v)

Spec == Init /\ [][Next]_vars

-----------------------------------------------------------------------------
\* The value of the root a caller would read, before any call the empty one.
RootNode == IF DOMAIN data = {} THEN EmptyNode[GTI_ROOT] ELSE NodeIn(data)[GTI_ROOT]

Contents == INSTANCE TreeContents WITH root <- RootNode

\* A node that is absent above a present one has no present ancestor: what
\* _invalidate_ancestors assumes when it stops at the first absent node, and
\* every operation has to re-establish for the next.
InvalidatedUpwards ==
  ~raised => \A j \in DOMAIN data : \A a \in Above[j] \ DOMAIN data :
               Above[a] \cap DOMAIN data = {}

\* No cached value is stale: an inner node that is present with its children
\* readable is the hash of what reading them without any inner cache gives.
CachedIsFresh ==
  LET inner == {j \in DOMAIN data : Below(j) \cap DOMAIN data # {}}
      uncached == Without(data, inner)
  IN ~raised => \A j \in inner : data[j] = NodeIn(uncached)[j]

\* A call that raises, whatever it had already written, leaves the root as it
\* was: an expansion refused at a collapsed node has only added nodes below.
RefusalKeepsRoot ==
  [][raised' /\ DOMAIN data # {} => NodeIn(data')[GTI_ROOT] = NodeIn(data)[GTI_ROOT]]_vars

\* The tree implements its contents, call by call: btree_get returns what its
\* node contains and changes nothing, btree_set puts its value into its leaf and
\* into no other, btree_expand initialises the containers around its node,
\* btree_collapse changes nothing, and a call that raises has no effect and was
\* made of a node that was in use or cannot be read; all of this whatever is
\* cached, invalidated or collapsed at the time.
ContentsSpec == Contents!Spec
=============================================================================
