-------------------------- MODULE BinaryTreeProofs --------------------------
(***************************************************************************)
(* Theorems about BinaryTree, for a tree of any height and any containers.   *)
(***************************************************************************)
EXTENDS BinaryTree, FiniteSums

LastNode == 2 * GTI_MAX_LEVEL - 1

-----------------------------------------------------------------------------
(* Induction over the nodes, and the order of ancestors. *)

LEMMA NodesAreNumbers ==
    /\ GTI_MAX_LEVEL \in Nat /\ GTI_MAX_LEVEL >= 1
    /\ LastNode \in Nat /\ LastNode >= 1
    /\ Nodes = 1..LastNode
    /\ GTI_ROOT \in Nodes
    /\ \A i \in Nodes : i \in Nat /\ i >= 1 /\ i <= LastNode
BY TreeAssumption DEF Nodes, LastNode, GTI_ROOT

\* From the leaves to the root: a node is in Q if all larger nodes are.
LEMMA LeavesUp ==
    ASSUME NEW Q,
           \A i \in Nodes : (\A j \in Nodes : j > i => j \in Q) => i \in Q
    PROVE  \A i \in Nodes : i \in Q
<1> DEFINE N == {n \in Nat : \A i \in Nodes : i > LastNode - n => i \in Q}
<1>1. 0 \in N
  BY NodesAreNumbers
<1>2. ASSUME NEW n \in Nat, n \in N PROVE n + 1 \in N
  <2>1. SUFFICES ASSUME NEW i \in Nodes, i > LastNode - (n + 1) PROVE i \in Q
    OBVIOUS
  <2>2. \A j \in Nodes : j > i => j \in Q
    BY <1>2, <2>1, NodesAreNumbers
  <2>3. QED BY <2>2
<1>3. \A n \in Nat : n \in N
  <2> HIDE DEF N
  <2>1. QED BY <1>1, <1>2, NumberInduction
<1>4. LastNode \in N
  <2> HIDE DEF N
  <2>1. QED BY <1>3, NodesAreNumbers
<1>5. QED BY <1>4, NodesAreNumbers

\* From the root to the leaves: a node is in Q if all smaller nodes are.
LEMMA RootDown ==
    ASSUME NEW Q,
           \A i \in Nodes : (\A j \in Nodes : j < i => j \in Q) => i \in Q
    PROVE  \A i \in Nodes : i \in Q
<1> DEFINE N == {n \in Nat : \A i \in Nodes : i < n + 1 => i \in Q}
<1>1. 0 \in N
  BY NodesAreNumbers
<1>2. ASSUME NEW n \in Nat, n \in N PROVE n + 1 \in N
  <2>1. SUFFICES ASSUME NEW i \in Nodes, i < (n + 1) + 1 PROVE i \in Q
    OBVIOUS
  <2>2. \A j \in Nodes : j < i => j \in Q
    BY <1>2, <2>1, NodesAreNumbers
  <2>3. QED BY <2>2
<1>3. \A n \in Nat : n \in N
  <2> HIDE DEF N
  <2>1. QED BY <1>1, <1>2, NumberInduction
<1>4. LastNode \in N
  <2> HIDE DEF N
  <2>1. QED BY <1>3, NodesAreNumbers
<1>5. QED BY <1>4, NodesAreNumbers

\* The parent of a node other than the root is a smaller node.
LEMMA Parents ==
    ASSUME NEW i \in Nodes, i # GTI_ROOT
    PROVE  i \div 2 \in Nodes /\ i \div 2 < i /\ i \div 2 < GTI_MAX_LEVEL
BY TreeAssumption DEF Nodes, GTI_ROOT

\* A node above the leaves has two children, and they have no other parent.
LEMMA Children ==
    ASSUME NEW i \in Nodes, i < GTI_MAX_LEVEL
    PROVE  /\ 2 * i \in Nodes /\ 2 * i + 1 \in Nodes
           /\ 2 * i # GTI_ROOT /\ 2 * i + 1 # GTI_ROOT
           /\ 2 * i > i /\ 2 * i + 1 > i
           /\ (2 * i) \div 2 = i /\ (2 * i + 1) \div 2 = i
           /\ (2 * i) % 2 = 0 /\ (2 * i + 1) % 2 = 1
BY TreeAssumption DEF Nodes, GTI_ROOT

LEMMA ChildOfParent ==
    ASSUME NEW i \in Nodes, i # GTI_ROOT
    PROVE  \/ i = 2 * (i \div 2) /\ i % 2 = 0
           \/ i = 2 * (i \div 2) + 1 /\ i % 2 = 1
BY TreeAssumption DEF Nodes, GTI_ROOT

\* The ancestors are a function of the node: they are found by halving.
AboveStep(f, i) == IF i = GTI_ROOT THEN {} ELSE {i \div 2} \cup f[i \div 2]

LEMMA AboveUnfolds ==
    \A i \in Nodes : Above[i] = AboveStep(Above, i)
<1> DEFINE Q == {n \in Nodes : \E f : f = [i \in 1..n |-> AboveStep(f, i)]}
<1>1. ASSUME NEW n \in Nodes, \A m \in Nodes : m < n => m \in Q PROVE n \in Q
  <2>1. CASE n = 1
    <3> DEFINE f == [i \in 1..1 |-> {}]
    <3>1. f = [i \in 1..1 |-> AboveStep(f, i)]
      BY DEF AboveStep, GTI_ROOT
    <3>2. QED BY <2>1, <3>1
  <2>2. CASE n # 1
    <3>1. n - 1 \in Nodes /\ n - 1 < n
      BY <2>2, NodesAreNumbers
    <3>2. PICK f : f = [i \in 1..(n - 1) |-> AboveStep(f, i)]
      BY <1>1, <3>1
    <3> DEFINE g == [i \in 1..n |-> AboveStep(f, i)]
    <3>3. \A i \in 1..(n - 1) : g[i] = f[i]
      BY <3>2, NodesAreNumbers
    <3>4. ASSUME NEW i \in 1..n PROVE AboveStep(f, i) = AboveStep(g, i)
      <4>1. i = GTI_ROOT \/ i \div 2 \in 1..(n - 1)
        BY NodesAreNumbers DEF GTI_ROOT
      <4> HIDE DEF g
      <4>2. QED BY <3>3, <4>1 DEF AboveStep
    <3>5. g = [i \in 1..n |-> AboveStep(g, i)]
      <4>1. \A i \in 1..n : g[i] = AboveStep(g, i)
        BY <3>4
      <4>2. g = [i \in 1..n |-> g[i]]
        OBVIOUS
      <4> HIDE DEF g
      <4>3. QED BY <4>1, <4>2
    <3> HIDE DEF g
    <3>6. QED BY <3>5
  <2>3. QED BY <2>1, <2>2
<1>2. LastNode \in Q
  <2> HIDE DEF Q
  <2>1. QED BY <1>1, RootDown, NodesAreNumbers
<1>3. \E f : f = [i \in Nodes |-> AboveStep(f, i)]
  BY <1>2, NodesAreNumbers
<1>4. Above = [i \in Nodes |-> AboveStep(Above, i)]
  <2>1. Above = CHOOSE f : f = [i \in Nodes |-> AboveStep(f, i)]
    BY DEF Above, AboveStep
  <2>2. QED BY <1>3, <2>1
<1>5. QED BY <1>4

LEMMA AboveRoot == Above[GTI_ROOT] = {}
BY AboveUnfolds, NodesAreNumbers DEF AboveStep

LEMMA AboveParent ==
    ASSUME NEW i \in Nodes, i # GTI_ROOT
    PROVE  Above[i] = {i \div 2} \cup Above[i \div 2]
BY AboveUnfolds DEF AboveStep

LEMMA AboveChild ==
    ASSUME NEW i \in Nodes, i < GTI_MAX_LEVEL
    PROVE  Above[2 * i] = {i} \cup Above[i] /\ Above[2 * i + 1] = {i} \cup Above[i]
BY Children, AboveParent

\* Ancestors are smaller nodes, and no leaf is one.
LEMMA AboveType ==
    \A i \in Nodes : \A a \in Above[i] : a \in Nodes /\ a < i /\ a < GTI_MAX_LEVEL
<1> DEFINE Q == {i \in Nodes : \A a \in Above[i] : a \in Nodes /\ a < i /\ a < GTI_MAX_LEVEL}
<1>1. ASSUME NEW i \in Nodes, \A j \in Nodes : j < i => j \in Q PROVE i \in Q
  <2>1. CASE i = GTI_ROOT
    BY <2>1, AboveRoot
  <2>2. CASE i # GTI_ROOT
    <3>1. i \div 2 \in Q
      BY <1>1, <2>2, Parents
    <3>2. QED BY <2>2, <3>1, Parents, AboveParent, NodesAreNumbers
  <2>3. QED BY <2>1, <2>2
<1> HIDE DEF Q
<1>2. \A i \in Nodes : i \in Q
  BY <1>1, RootDown
<1>3. QED BY <1>2 DEF Q

LEMMA AboveTransitive ==
    \A i \in Nodes : \A b \in Above[i] : Above[b] \subseteq Above[i]
<1> DEFINE Q == {i \in Nodes : \A b \in Above[i] : Above[b] \subseteq Above[i]}
<1>1. ASSUME NEW i \in Nodes, \A j \in Nodes : j < i => j \in Q PROVE i \in Q
  <2>1. CASE i = GTI_ROOT
    BY <2>1, AboveRoot
  <2>2. CASE i # GTI_ROOT
    <3>1. i \div 2 \in Q
      BY <1>1, <2>2, Parents
    <3>2. QED BY <2>2, <3>1, AboveParent
  <2>3. QED BY <2>1, <2>2
<1> HIDE DEF Q
<1>2. \A i \in Nodes : i \in Q
  BY <1>1, RootDown
<1>3. QED BY <1>2 DEF Q

\* A node and its ancestors: the line from it to the root.
Line(i) == Above[i] \cup {i}

\* Of two nodes on a line, the smaller one is an ancestor of the other.
LEMMA LineOrdered ==
    \A i \in Nodes : \A a, b \in Line(i) : a < b => a \in Above[b]
<1> DEFINE Q == {i \in Nodes : \A a, b \in Line(i) : a < b => a \in Above[b]}
<1>1. ASSUME NEW i \in Nodes, \A j \in Nodes : j < i => j \in Q PROVE i \in Q
  <2>1. CASE i = GTI_ROOT
    BY <2>1, AboveRoot, NodesAreNumbers DEF Line
  <2>2. CASE i # GTI_ROOT
    <3>1. i \div 2 \in Q /\ i \div 2 \in Nodes
      BY <1>1, <2>2, Parents
    <3>2. Above[i] = Line(i \div 2)
      BY <2>2, AboveParent DEF Line
    <3>3. ASSUME NEW a \in Line(i), NEW b \in Line(i), a < b PROVE a \in Above[b]
      <4>1. CASE b = i
        BY <3>3, <4>1, NodesAreNumbers DEF Line
      <4>2. CASE b # i
        <5>1. b \in Above[i]
          BY <4>2 DEF Line
        <5>2. a # i
          BY <3>3, <5>1, AboveType, NodesAreNumbers
        <5>3. QED BY <3>1, <3>2, <3>3, <5>1, <5>2 DEF Line
      <4>3. QED BY <4>1, <4>2
    <3>4. QED BY <3>3
  <2>3. QED BY <2>1, <2>2
<1> HIDE DEF Q
<1>2. \A i \in Nodes : i \in Q
  BY <1>1, RootDown
<1>3. QED BY <1>2 DEF Q

LEMMA LineType ==
    \A i \in Nodes : \A a \in Line(i) : a \in Nodes /\ a <= i /\ Line(a) \subseteq Line(i)
BY AboveType, AboveTransitive, NodesAreNumbers DEF Line

LEMMA RootOnLine ==
    \A i \in Nodes : GTI_ROOT \in Line(i)
<1> DEFINE Q == {i \in Nodes : GTI_ROOT \in Line(i)}
<1>1. ASSUME NEW i \in Nodes, \A j \in Nodes : j < i => j \in Q PROVE i \in Q
  <2>1. CASE i = GTI_ROOT
    BY <2>1 DEF Line
  <2>2. CASE i # GTI_ROOT
    <3>1. i \div 2 \in Q
      BY <1>1, <2>2, Parents
    <3>2. QED BY <2>2, <3>1, AboveParent DEF Line
  <2>3. QED BY <2>1, <2>2
<1> HIDE DEF Q
<1>2. \A i \in Nodes : i \in Q
  BY <1>1, RootDown
<1>3. QED BY <1>2 DEF Q

\* A line goes through exactly one child of each ancestor on it.
LEMMA LineThroughChild ==
    ASSUME NEW i \in Nodes, NEW a \in Above[i]
    PROVE  /\ 2 * a \in Line(i) \/ 2 * a + 1 \in Line(i)
           /\ ~(2 * a \in Line(i) /\ 2 * a + 1 \in Line(i))
<1> DEFINE Q == {n \in Nodes : \A b \in Above[n] : 2 * b \in Line(n) \/ 2 * b + 1 \in Line(n)}
<1>1. ASSUME NEW n \in Nodes, \A j \in Nodes : j < n => j \in Q PROVE n \in Q
  <2>1. CASE n = GTI_ROOT
    BY <2>1, AboveRoot
  <2>2. CASE n # GTI_ROOT
    <3>1. n \div 2 \in Q
      BY <1>1, <2>2, Parents
    <3>2. n = 2 * (n \div 2) \/ n = 2 * (n \div 2) + 1
      BY <2>2, ChildOfParent
    <3>3. Above[n] = Line(n \div 2)
      BY <2>2, AboveParent DEF Line
    <3>4. ASSUME NEW b \in Above[n] PROVE 2 * b \in Line(n) \/ 2 * b + 1 \in Line(n)
      <4>1. CASE b = n \div 2
        BY <3>2, <4>1 DEF Line
      <4>2. CASE b \in Above[n \div 2]
        BY <3>1, <3>3, <4>2 DEF Line
      <4>3. QED BY <3>3, <4>1, <4>2 DEF Line
    <3>5. QED BY <3>4
  <2>3. QED BY <2>1, <2>2
<1>2. \A n \in Nodes : n \in Q
  <2> HIDE DEF Q
  <2>1. QED BY <1>1, RootDown
<1>3. a \in Nodes /\ a < GTI_MAX_LEVEL
  BY AboveType
<1>4. ASSUME 2 * a \in Line(i), 2 * a + 1 \in Line(i) PROVE FALSE
  <2>1. 2 * a < 2 * a + 1
    BY <1>3, NodesAreNumbers
  <2>2. 2 * a \in Above[2 * a + 1]
    BY <1>4, <2>1, LineOrdered
  <2>3. 2 * a \in {a} \cup Above[a]
    BY <1>3, <2>2, AboveChild
  <2>4. QED BY <1>3, <2>3, AboveType, NodesAreNumbers
<1>5. QED BY <1>2, <1>4

\* A line with an ancestor on it goes through a child of it.
LEMMA NextOnLine ==
    ASSUME NEW i \in Nodes, NEW a \in Above[i]
    PROVE  \E c \in {2 * a, 2 * a + 1} :
             c \in Nodes /\ c \in Line(i) /\ a \in Above[c] /\ c > a
<1>1. a \in Nodes /\ a < GTI_MAX_LEVEL
  BY AboveType
<1>2. QED BY <1>1, LineThroughChild, Children, AboveChild

-----------------------------------------------------------------------------
(* Reading: what btree_get finds and what it caches. *)

NodeStep(d, f, i) ==
  IF i \in DOMAIN d THEN d[i]
  ELSE IF i >= GTI_MAX_LEVEL THEN Nothing
  ELSE IF Nothing \in {f[2 * i], f[2 * i + 1]} THEN Nothing
  ELSE BinaryHash(f[2 * i], f[2 * i + 1])

\* Every node is read from its children when it is absent.
LEMMA NodeUnfolds ==
    ASSUME NEW d
    PROVE  \A i \in Nodes : NodeIn(d)[i] = NodeStep(d, NodeIn(d), i)
<1> DEFINE Q == {n \in Nodes : \E f : f = [i \in n..LastNode |-> NodeStep(d, f, i)]}
<1>1. ASSUME NEW n \in Nodes, \A m \in Nodes : m > n => m \in Q PROVE n \in Q
  <2>1. \A i \in n..LastNode : i \in Nodes
    BY NodesAreNumbers
  <2>2. PICK f : f = [i \in (n + 1)..LastNode |-> NodeStep(d, f, i)]
    <3>1. CASE n = LastNode
      <4> DEFINE f == [i \in (n + 1)..LastNode |-> Nothing]
      <4>1. (n + 1)..LastNode = {}
        BY <3>1, NodesAreNumbers
      <4>2. f = [i \in (n + 1)..LastNode |-> NodeStep(d, f, i)]
        BY <4>1
      <4>3. QED BY <4>2
    <3>2. CASE n # LastNode
      <4>1. n + 1 \in Q
        BY <1>1, <3>2, NodesAreNumbers
      <4>2. QED BY <4>1
    <3>3. QED BY <3>1, <3>2
  <2> DEFINE g == [i \in n..LastNode |-> NodeStep(d, f, i)]
  <2>3. \A i \in (n + 1)..LastNode : g[i] = f[i]
    BY <2>2, NodesAreNumbers
  <2>4. ASSUME NEW i \in n..LastNode PROVE NodeStep(d, f, i) = NodeStep(d, g, i)
    <3>1. i < GTI_MAX_LEVEL => 2 * i \in (n + 1)..LastNode /\ 2 * i + 1 \in (n + 1)..LastNode
      BY <2>1, Children, NodesAreNumbers
    <3>2. i >= GTI_MAX_LEVEL \/ i < GTI_MAX_LEVEL
      BY <2>1, NodesAreNumbers
    <3> HIDE DEF g
    <3>3. CASE i < GTI_MAX_LEVEL
      <4>1. g[2 * i] = f[2 * i] /\ g[2 * i + 1] = f[2 * i + 1]
        BY <2>3, <3>1, <3>3
      <4>2. QED BY <4>1 DEF NodeStep
    <3>4. CASE i >= GTI_MAX_LEVEL
      BY <2>1, <3>4 DEF NodeStep
    <3>5. QED BY <3>2, <3>3, <3>4
  <2>5. g = [i \in n..LastNode |-> NodeStep(d, g, i)]
    <3>1. \A i \in n..LastNode : g[i] = NodeStep(d, g, i)
      BY <2>4
    <3>2. g = [i \in n..LastNode |-> g[i]]
      OBVIOUS
    <3> HIDE DEF g
    <3>3. QED BY <3>1, <3>2
  <2> HIDE DEF g
  <2>6. QED BY <2>5
<1>2. GTI_ROOT \in Q
  <2> HIDE DEF Q
  <2>1. QED BY <1>1, LeavesUp, NodesAreNumbers
<1>3. \E f : f = [i \in Nodes |-> NodeStep(d, f, i)]
  BY <1>2, NodesAreNumbers DEF GTI_ROOT
<1>4. NodeIn(d) = [i \in Nodes |-> NodeStep(d, NodeIn(d), i)]
  <2>1. NodeIn(d) = CHOOSE f : f = [i \in Nodes |-> NodeStep(d, f, i)]
    BY DEF NodeIn, NodeStep
  <2>2. QED BY <1>3, <2>1
<1>5. QED BY <1>4

CacheStep(d, f, i) ==
  IF i \in DOMAIN d \/ i >= GTI_MAX_LEVEL THEN {}
  ELSE IF NodeIn(d)[2 * i] = Nothing THEN f[2 * i]
  ELSE f[2 * i] \cup f[2 * i + 1]
         \cup (IF NodeIn(d)[2 * i + 1] = Nothing THEN {} ELSE {i})

Cached(d) == CHOOSE f : f = [i \in Nodes |-> CacheStep(d, f, i)]

\* What is cached for a node is what is cached for its children, and the node.
LEMMA CacheUnfolds ==
    ASSUME NEW d
    PROVE  \A i \in Nodes : Cached(d)[i] = CacheStep(d, Cached(d), i)
<1> DEFINE Q == {n \in Nodes : \E f : f = [i \in n..LastNode |-> CacheStep(d, f, i)]}
<1>1. ASSUME NEW n \in Nodes, \A m \in Nodes : m > n => m \in Q PROVE n \in Q
  <2>1. \A i \in n..LastNode : i \in Nodes
    BY NodesAreNumbers
  <2>2. PICK f : f = [i \in (n + 1)..LastNode |-> CacheStep(d, f, i)]
    <3>1. CASE n = LastNode
      <4> DEFINE f == [i \in (n + 1)..LastNode |-> Nothing]
      <4>1. (n + 1)..LastNode = {}
        BY <3>1, NodesAreNumbers
      <4>2. f = [i \in (n + 1)..LastNode |-> CacheStep(d, f, i)]
        BY <4>1
      <4>3. QED BY <4>2
    <3>2. CASE n # LastNode
      <4>1. n + 1 \in Q
        BY <1>1, <3>2, NodesAreNumbers
      <4>2. QED BY <4>1
    <3>3. QED BY <3>1, <3>2
  <2> DEFINE g == [i \in n..LastNode |-> CacheStep(d, f, i)]
  <2>3. \A i \in (n + 1)..LastNode : g[i] = f[i]
    BY <2>2, NodesAreNumbers
  <2>4. ASSUME NEW i \in n..LastNode PROVE CacheStep(d, f, i) = CacheStep(d, g, i)
    <3>1. i < GTI_MAX_LEVEL => 2 * i \in (n + 1)..LastNode /\ 2 * i + 1 \in (n + 1)..LastNode
      BY <2>1, Children, NodesAreNumbers
    <3>2. i >= GTI_MAX_LEVEL \/ i < GTI_MAX_LEVEL
      BY <2>1, NodesAreNumbers
    <3> HIDE DEF g
    <3>3. CASE i < GTI_MAX_LEVEL
      <4>1. g[2 * i] = f[2 * i] /\ g[2 * i + 1] = f[2 * i + 1]
        BY <2>3, <3>1, <3>3
      <4>2. QED BY <4>1 DEF CacheStep
    <3>4. CASE i >= GTI_MAX_LEVEL
      BY <2>1, <3>4 DEF CacheStep
    <3>5. QED BY <3>2, <3>3, <3>4
  <2>5. g = [i \in n..LastNode |-> CacheStep(d, g, i)]
    <3>1. \A i \in n..LastNode : g[i] = CacheStep(d, g, i)
      BY <2>4
    <3>2. g = [i \in n..LastNode |-> g[i]]
      OBVIOUS
    <3> HIDE DEF g
    <3>3. QED BY <3>1, <3>2
  <2> HIDE DEF g
  <2>6. QED BY <2>5
<1>2. GTI_ROOT \in Q
  <2> HIDE DEF Q
  <2>1. QED BY <1>1, LeavesUp, NodesAreNumbers
<1>3. \E f : f = [i \in Nodes |-> CacheStep(d, f, i)]
  BY <1>2, NodesAreNumbers DEF GTI_ROOT
<1>4. Cached(d) = [i \in Nodes |-> CacheStep(d, Cached(d), i)]
  <2>1. Cached(d) = CHOOSE f : f = [i \in Nodes |-> CacheStep(d, f, i)]
    BY DEF Cached, CacheStep
  <2>2. QED BY <1>3, <2>1
<1>5. QED BY <1>4

LEMMA ComputedIsCached ==
    ASSUME NEW d, NEW i
    PROVE  Computed(d, i) = Cached(d)[i]
BY DEF Computed, Cached, CacheStep

EmptyStep(f, i) ==
  IF i \in Leaves \cup Containers THEN Zero ELSE BinaryHash(f[2 * i], f[2 * i + 1])

\* The empty value of a node is made of the empty values of its children.
LEMMA EmptyUnfolds ==
    \A i \in Nodes : EmptyNode[i] = EmptyStep(EmptyNode, i)
<1> DEFINE Q == {n \in Nodes : \E f : f = [i \in n..LastNode |-> EmptyStep(f, i)]}
<1>1. ASSUME NEW n \in Nodes, \A m \in Nodes : m > n => m \in Q PROVE n \in Q
  <2>1. \A i \in n..LastNode : i \in Nodes
    BY NodesAreNumbers
  <2>2. PICK f : f = [i \in (n + 1)..LastNode |-> EmptyStep(f, i)]
    <3>1. CASE n = LastNode
      <4> DEFINE f == [i \in (n + 1)..LastNode |-> Nothing]
      <4>1. (n + 1)..LastNode = {}
        BY <3>1, NodesAreNumbers
      <4>2. f = [i \in (n + 1)..LastNode |-> EmptyStep(f, i)]
        BY <4>1
      <4>3. QED BY <4>2
    <3>2. CASE n # LastNode
      <4>1. n + 1 \in Q
        BY <1>1, <3>2, NodesAreNumbers
      <4>2. QED BY <4>1
    <3>3. QED BY <3>1, <3>2
  <2> DEFINE g == [i \in n..LastNode |-> EmptyStep(f, i)]
  <2>3. \A i \in (n + 1)..LastNode : g[i] = f[i]
    BY <2>2, NodesAreNumbers
  <2>4. ASSUME NEW i \in n..LastNode PROVE EmptyStep(f, i) = EmptyStep(g, i)
    <3>1. i < GTI_MAX_LEVEL => 2 * i \in (n + 1)..LastNode /\ 2 * i + 1 \in (n + 1)..LastNode
      BY <2>1, Children, NodesAreNumbers
    <3>2. i >= GTI_MAX_LEVEL \/ i < GTI_MAX_LEVEL
      BY <2>1, NodesAreNumbers
    <3> HIDE DEF g
    <3>3. CASE i < GTI_MAX_LEVEL
      <4>1. g[2 * i] = f[2 * i] /\ g[2 * i + 1] = f[2 * i + 1]
        BY <2>3, <3>1, <3>3
      <4>2. QED BY <4>1 DEF EmptyStep
    <3>4. CASE i >= GTI_MAX_LEVEL
      BY <2>1, <3>4, NodesAreNumbers DEF EmptyStep, Leaves, LastNode
    <3>5. QED BY <3>2, <3>3, <3>4
  <2>5. g = [i \in n..LastNode |-> EmptyStep(g, i)]
    <3>1. \A i \in n..LastNode : g[i] = EmptyStep(g, i)
      BY <2>4
    <3>2. g = [i \in n..LastNode |-> g[i]]
      OBVIOUS
    <3> HIDE DEF g
    <3>3. QED BY <3>1, <3>2
  <2> HIDE DEF g
  <2>6. QED BY <2>5
<1>2. GTI_ROOT \in Q
  <2> HIDE DEF Q
  <2>1. QED BY <1>1, LeavesUp, NodesAreNumbers
<1>3. \E f : f = [i \in Nodes |-> EmptyStep(f, i)]
  BY <1>2, NodesAreNumbers DEF GTI_ROOT
<1>4. EmptyNode = [i \in Nodes |-> EmptyStep(EmptyNode, i)]
  <2>1. EmptyNode = CHOOSE f : f = [i \in Nodes |-> EmptyStep(f, i)]
    BY DEF EmptyNode, EmptyStep
  <2>2. QED BY <1>3, <2>1
<1>5. QED BY <1>4

-----------------------------------------------------------------------------
(* The inductive invariant, of the dictionary d a call leaves. *)

\* Indices are nodes, and what they hold was read or set.
Typed(d) == DOMAIN d \subseteq Nodes /\ \A j \in DOMAIN d : d[j] # Nothing

\* A node that is absent above a present one has no present ancestor.
Connected(d) ==
  \A j \in DOMAIN d : \A a \in Above[j] \ DOMAIN d : Above[a] \cap DOMAIN d = {}

\* A present node has both children or none, and is their hash if it has them.
Hashed(d) ==
  \A j \in DOMAIN d : j < GTI_MAX_LEVEL =>
     /\ 2 * j \in DOMAIN d <=> 2 * j + 1 \in DOMAIN d
     /\ 2 * j \in DOMAIN d => d[j] = BinaryHash(d[2 * j], d[2 * j + 1])

\* Once the tree has nodes its root can be read.
Rooted(d) == DOMAIN d # {} => NodeIn(d)[GTI_ROOT] # Nothing

TreeOK(d) == Typed(d) /\ Connected(d) /\ Hashed(d) /\ Rooted(d)

Inv == ~raised => TreeOK(data)

LEMMA Distinct ==
    /\ Zero # Nothing
    /\ \A l, r : BinaryHash(l, r) # Nothing /\ BinaryHash(l, r) # Zero
    /\ \A l, r, m, s : BinaryHash(l, r) = BinaryHash(m, s) => l = m /\ r = s
BY DEF Zero, Nothing, BinaryHash

LEMMA ReadPresent ==
    ASSUME NEW d, NEW i \in Nodes, i \in DOMAIN d
    PROVE  NodeIn(d)[i] = d[i]
BY NodeUnfolds DEF NodeStep

LEMMA ReadAbsent ==
    ASSUME NEW d, NEW i \in Nodes, i \notin DOMAIN d
    PROVE  /\ NodeIn(d)[i] # Nothing <=>
                /\ i < GTI_MAX_LEVEL
                /\ NodeIn(d)[2 * i] # Nothing
                /\ NodeIn(d)[2 * i + 1] # Nothing
           /\ NodeIn(d)[i] # Nothing =>
                NodeIn(d)[i] = BinaryHash(NodeIn(d)[2 * i], NodeIn(d)[2 * i + 1])
<1>1. NodeIn(d)[i] = NodeStep(d, NodeIn(d), i)
  BY NodeUnfolds
<1>2. i < GTI_MAX_LEVEL <=> ~(i >= GTI_MAX_LEVEL)
  BY NodesAreNumbers
<1>3. QED BY <1>1, <1>2, Distinct DEF NodeStep

\* A node that can be read is present or above a present node.
LEMMA ReadableAbovePresent ==
    ASSUME NEW d, Typed(d), NEW i \in Nodes, NodeIn(d)[i] # Nothing
    PROVE  \E x \in DOMAIN d : x \in Nodes /\ i \in Line(x)
<1> DEFINE Q == {n \in Nodes : NodeIn(d)[n] # Nothing =>
                                 \E x \in DOMAIN d : x \in Nodes /\ n \in Line(x)}
<1>1. ASSUME NEW n \in Nodes, \A j \in Nodes : j > n => j \in Q PROVE n \in Q
  <2>1. SUFFICES ASSUME NodeIn(d)[n] # Nothing, n \notin DOMAIN d
                 PROVE  \E x \in DOMAIN d : x \in Nodes /\ n \in Line(x)
    BY DEF Line
  <2>2. n < GTI_MAX_LEVEL /\ NodeIn(d)[2 * n] # Nothing
    BY <2>1, ReadAbsent
  <2>3. 2 * n \in Q /\ 2 * n \in Nodes
    BY <1>1, <2>2, Children
  <2>4. PICK x \in DOMAIN d : x \in Nodes /\ 2 * n \in Line(x)
    BY <2>2, <2>3
  <2>5. n \in Line(2 * n)
    BY <2>2, AboveChild DEF Line
  <2>6. QED BY <2>4, <2>5, LineType
<1>2. \A n \in Nodes : n \in Q
  <2> HIDE DEF Q
  <2>1. QED BY <1>1, LeavesUp
<1>3. QED BY <1>2

\* Every node is below a present one, is one, or can be read.
LEMMA Covered ==
    ASSUME NEW d, Rooted(d), DOMAIN d # {}
    PROVE  \A i \in Nodes : Line(i) \cap DOMAIN d # {} \/ NodeIn(d)[i] # Nothing
<1> DEFINE Q == {i \in Nodes : Line(i) \cap DOMAIN d # {} \/ NodeIn(d)[i] # Nothing}
<1>1. ASSUME NEW i \in Nodes, \A j \in Nodes : j < i => j \in Q PROVE i \in Q
  <2>1. CASE i = GTI_ROOT
    BY <2>1 DEF Rooted
  <2>2. CASE i # GTI_ROOT
    <3> DEFINE p == i \div 2
    <3>1. p \in Q /\ p \in Nodes
      BY <1>1, <2>2, Parents
    <3>2. Line(p) \subseteq Line(i)
      BY <2>2, AboveParent DEF Line
    <3>3. CASE Line(p) \cap DOMAIN d # {}
      BY <3>2, <3>3
    <3>4. CASE Line(p) \cap DOMAIN d = {}
      <4>1. NodeIn(d)[p] # Nothing /\ p \notin DOMAIN d
        BY <3>1, <3>4 DEF Line
      <4>2. NodeIn(d)[2 * p] # Nothing /\ NodeIn(d)[2 * p + 1] # Nothing
        BY <3>1, <4>1, ReadAbsent
      <4>3. i = 2 * p \/ i = 2 * p + 1
        BY <2>2, ChildOfParent
      <4>4. QED BY <4>2, <4>3
    <3>5. QED BY <3>3, <3>4
  <2>3. QED BY <2>1, <2>2
<1> HIDE DEF Q
<1>2. \A i \in Nodes : i \in Q
  BY <1>1, RootDown
<1>3. QED BY <1>2 DEF Q

\* Between two present nodes of a line every node is present.
LEMMA PresentBetween ==
    ASSUME NEW d, Typed(d), Connected(d), NEW x \in DOMAIN d, NEW n \in DOMAIN d,
           NEW m \in Nodes, m \in Line(x), n \in Line(m)
    PROVE  m \in DOMAIN d
BY DEF Connected, Typed, Line

\* The parent of a node that can be read can be read, and hashes its children.
LEMMA ReadableParent ==
    ASSUME NEW d, TreeOK(d), NEW i \in Nodes, i # GTI_ROOT, NodeIn(d)[i] # Nothing
    PROVE  /\ NodeIn(d)[i \div 2] # Nothing
           /\ NodeIn(d)[i \div 2] =
                BinaryHash(NodeIn(d)[2 * (i \div 2)], NodeIn(d)[2 * (i \div 2) + 1])
<1> DEFINE p == i \div 2
<1>1. p \in Nodes /\ p < GTI_MAX_LEVEL /\ (i = 2 * p \/ i = 2 * p + 1) /\ p \in Line(i)
  BY Parents, ChildOfParent, AboveParent DEF Line
<1>2. PICK x \in DOMAIN d : x \in Nodes /\ i \in Line(x)
  BY ReadableAbovePresent DEF TreeOK
<1>3. CASE p \in DOMAIN d
  <2>1. i \in DOMAIN d
    BY <1>1, <1>2, <1>3, PresentBetween DEF TreeOK
  <2>2. 2 * p \in DOMAIN d /\ 2 * p + 1 \in DOMAIN d /\ d[p] = BinaryHash(d[2 * p], d[2 * p + 1])
    BY <1>1, <1>3, <2>1 DEF TreeOK, Hashed
  <2>3. QED BY <1>1, <1>3, <2>2, Children, ReadPresent, Distinct
<1>4. CASE p \notin DOMAIN d
  <2>1. p \in Line(x)
    BY <1>1, <1>2, LineType
  <2>2. Line(p) \cap DOMAIN d = {}
    BY <1>2, <1>4, <2>1 DEF TreeOK, Connected, Line
  <2>3. NodeIn(d)[p] # Nothing
    BY <1>1, <1>2, <2>2, Covered DEF TreeOK
  <2>4. QED BY <1>1, <1>4, <2>3, ReadAbsent
<1>5. QED BY <1>3, <1>4

\* Reading a node depends on what is present from there down.
LEMMA SameBelow ==
    ASSUME NEW d, NEW e, NEW i \in Nodes,
           \A j \in Nodes : i \in Line(j) =>
              (j \in DOMAIN d <=> j \in DOMAIN e) /\ (j \in DOMAIN d => d[j] = e[j])
    PROVE  NodeIn(d)[i] = NodeIn(e)[i]
<1> DEFINE Q == {j \in Nodes : i \in Line(j) => NodeIn(d)[j] = NodeIn(e)[j]}
<1>1. ASSUME NEW j \in Nodes, \A k \in Nodes : k > j => k \in Q PROVE j \in Q
  <2>1. SUFFICES ASSUME i \in Line(j) PROVE NodeIn(d)[j] = NodeIn(e)[j]
    OBVIOUS
  <2>2. CASE j \in DOMAIN d
    BY <2>1, <2>2, ReadPresent
  <2>3. CASE j \notin DOMAIN d /\ j < GTI_MAX_LEVEL
    <3>1. i \in Line(2 * j) /\ i \in Line(2 * j + 1)
      BY <2>1, <2>3, AboveChild DEF Line
    <3>2. 2 * j \in Q /\ 2 * j + 1 \in Q
      BY <1>1, <2>3, Children
    <3>3. QED BY <2>1, <2>3, <3>1, <3>2, NodeUnfolds DEF NodeStep
  <2>4. CASE j \notin DOMAIN d /\ j >= GTI_MAX_LEVEL
    BY <2>1, <2>4, NodeUnfolds DEF NodeStep
  <2>5. QED BY <2>2, <2>3, <2>4, NodesAreNumbers
<1>2. \A j \in Nodes : j \in Q
  <2> HIDE DEF Q
  <2>1. QED BY <1>1, LeavesUp
<1>3. QED BY <1>2 DEF Line

\* What changes below a present node changes no reading elsewhere.
LEMMA SameElsewhere ==
    ASSUME NEW d, NEW e, NEW n \in Nodes, n \in DOMAIN d,
           \A j \in Nodes : n \notin Above[j] =>
              (j \in DOMAIN d <=> j \in DOMAIN e) /\ (j \in DOMAIN d => d[j] = e[j])
    PROVE  \A i \in Nodes : n \notin Above[i] => NodeIn(d)[i] = NodeIn(e)[i]
<1> DEFINE Q == {j \in Nodes : n \notin Above[j] => NodeIn(d)[j] = NodeIn(e)[j]}
<1>1. ASSUME NEW j \in Nodes, \A k \in Nodes : k > j => k \in Q PROVE j \in Q
  <2>1. SUFFICES ASSUME n \notin Above[j] PROVE NodeIn(d)[j] = NodeIn(e)[j]
    OBVIOUS
  <2>2. CASE j \in DOMAIN d
    BY <2>1, <2>2, ReadPresent
  <2>3. CASE j \notin DOMAIN d /\ j < GTI_MAX_LEVEL
    <3>1. n \notin Above[2 * j] /\ n \notin Above[2 * j + 1]
      BY <2>1, <2>3, AboveChild
    <3>2. 2 * j \in Q /\ 2 * j + 1 \in Q
      BY <1>1, <2>3, Children
    <3>3. QED BY <2>1, <2>3, <3>1, <3>2, NodeUnfolds DEF NodeStep
  <2>4. CASE j \notin DOMAIN d /\ j >= GTI_MAX_LEVEL
    BY <2>1, <2>4, NodeUnfolds DEF NodeStep
  <2>5. QED BY <2>2, <2>3, <2>4, NodesAreNumbers
<1>2. \A j \in Nodes : j \in Q
  <2> HIDE DEF Q
  <2>1. QED BY <1>1, LeavesUp
<1>3. QED BY <1>2

-----------------------------------------------------------------------------
(* btree_get: caching what was read changes no reading. *)

\* Only absent nodes that can be read are cached.
LEMMA CachedReadable ==
    ASSUME NEW d
    PROVE  \A i \in Nodes : \A j \in Cached(d)[i] :
             j \in Nodes /\ j \notin DOMAIN d /\ NodeIn(d)[j] # Nothing
<1> DEFINE Fine(j) == j \in Nodes /\ j \notin DOMAIN d /\ NodeIn(d)[j] # Nothing
           Q == {i \in Nodes : \A j \in Cached(d)[i] : Fine(j)}
<1>1. ASSUME NEW i \in Nodes, \A k \in Nodes : k > i => k \in Q PROVE i \in Q
  <2>1. Cached(d)[i] = CacheStep(d, Cached(d), i)
    BY CacheUnfolds
  <2>2. CASE i \in DOMAIN d \/ i >= GTI_MAX_LEVEL
    BY <2>1, <2>2 DEF CacheStep
  <2>3. CASE i \notin DOMAIN d /\ i < GTI_MAX_LEVEL
    <3>1. 2 * i \in Q /\ 2 * i + 1 \in Q
      BY <1>1, <2>3, Children
    <3>2. ~(i >= GTI_MAX_LEVEL)
      BY <2>3, NodesAreNumbers
    <3>3. CASE NodeIn(d)[2 * i] = Nothing
      BY <2>1, <2>3, <3>1, <3>2, <3>3 DEF CacheStep
    <3>4. CASE NodeIn(d)[2 * i] # Nothing /\ NodeIn(d)[2 * i + 1] = Nothing
      BY <2>1, <2>3, <3>1, <3>2, <3>4 DEF CacheStep
    <3>5. CASE NodeIn(d)[2 * i] # Nothing /\ NodeIn(d)[2 * i + 1] # Nothing
      <4>1. Fine(i)
        BY <2>3, <3>5, ReadAbsent
      <4>2. Cached(d)[i] = Cached(d)[2 * i] \cup Cached(d)[2 * i + 1] \cup {i}
        BY <2>1, <2>3, <3>2, <3>5 DEF CacheStep
      <4>3. QED BY <3>1, <4>1, <4>2
    <3>6. QED BY <3>3, <3>4, <3>5
  <2>4. QED BY <2>2, <2>3, NodesAreNumbers
<1> HIDE DEF Q
<1>2. \A i \in Nodes : i \in Q
  BY <1>1, LeavesUp
<1>3. QED BY <1>2 DEF Q

LEMMA AfterGetIs ==
    ASSUME NEW d, NEW i \in Nodes
    PROVE  /\ DOMAIN AfterGet(d, i) = DOMAIN d \cup Cached(d)[i]
           /\ \A j \in DOMAIN d : AfterGet(d, i)[j] = d[j]
           /\ \A j \in Cached(d)[i] : AfterGet(d, i)[j] = NodeIn(d)[j]
BY ComputedIsCached, CachedReadable DEF AfterGet, Updated

\* After a get every node is read as before.
LEMMA GetChangesNothing ==
    ASSUME NEW d, NEW i \in Nodes
    PROVE  \A j \in Nodes : NodeIn(AfterGet(d, i))[j] = NodeIn(d)[j]
<1> DEFINE e == AfterGet(d, i)
           Q == {j \in Nodes : NodeIn(e)[j] = NodeIn(d)[j]}
<1>1. /\ DOMAIN e = DOMAIN d \cup Cached(d)[i]
      /\ \A j \in DOMAIN d : e[j] = d[j]
      /\ \A j \in Cached(d)[i] : e[j] = NodeIn(d)[j]
  BY AfterGetIs
<1> HIDE DEF e
<1>2. ASSUME NEW j \in Nodes, \A k \in Nodes : k > j => k \in Q PROVE j \in Q
  <2>1. CASE j \in DOMAIN e
    <3>1. NodeIn(e)[j] = e[j] /\ (j \in DOMAIN d => NodeIn(d)[j] = d[j])
      BY <2>1, ReadPresent
    <3>2. QED BY <1>1, <2>1, <3>1
  <2>2. CASE j \notin DOMAIN e /\ j < GTI_MAX_LEVEL
    <3>1. 2 * j \in Q /\ 2 * j + 1 \in Q
      BY <1>2, <2>2, Children
    <3>2. j \notin DOMAIN d
      BY <1>1, <2>2
    <3>3. QED BY <2>2, <3>1, <3>2, NodeUnfolds DEF NodeStep
  <2>3. CASE j \notin DOMAIN e /\ j >= GTI_MAX_LEVEL
    <3>1. j \notin DOMAIN d
      BY <1>1, <2>3
    <3>2. QED BY <2>3, <3>1, NodeUnfolds DEF NodeStep
  <2>4. QED BY <2>1, <2>2, <2>3, NodesAreNumbers
<1>3. \A j \in Nodes : j \in Q
  <2> HIDE DEF Q
  <2>1. QED BY <1>2, LeavesUp
<1>4. QED BY <1>3 DEF e

\* A get of a tree without nodes caches nothing.
LEMMA GetOfNothing ==
    ASSUME NEW d, NEW i \in Nodes
    PROVE  DOMAIN d = {} <=> DOMAIN AfterGet(d, i) = {}
<1>1. ASSUME DOMAIN d = {} PROVE Cached(d)[i] = {}
  <2>1. Typed(d)
    BY <1>1 DEF Typed
  <2>2. QED BY <1>1, <2>1, CachedReadable, ReadableAbovePresent
<1>2. DOMAIN AfterGet(d, i) = DOMAIN d \cup Cached(d)[i]
  BY AfterGetIs
<1>3. CASE DOMAIN d = {}
  BY <1>1, <1>2, <1>3
<1>4. CASE DOMAIN d # {}
  BY <1>2, <1>4
<1>5. QED BY <1>3, <1>4

\* A get that finds its node caches every absent node it can read from there.
LEMMA CachedIsReadable ==
    ASSUME NEW d, TreeOK(d)
    PROVE  \A i \in Nodes : NodeIn(d)[i] # Nothing =>
             \A x \in Nodes : i \in Line(x) /\ x \notin DOMAIN d /\ NodeIn(d)[x] # Nothing
                                => x \in Cached(d)[i]
<1> DEFINE Absent(x) == x \notin DOMAIN d /\ NodeIn(d)[x] # Nothing
           Q == {i \in Nodes : NodeIn(d)[i] # Nothing =>
                   \A x \in Nodes : i \in Line(x) /\ Absent(x) => x \in Cached(d)[i]}
<1>1. ASSUME NEW i \in Nodes, \A k \in Nodes : k > i => k \in Q PROVE i \in Q
  <2>1. SUFFICES ASSUME NodeIn(d)[i] # Nothing, NEW x \in Nodes, i \in Line(x), Absent(x)
                 PROVE  x \in Cached(d)[i]
    OBVIOUS
  <2>2. PICK y \in DOMAIN d : y \in Nodes /\ x \in Line(y)
    BY <2>1, ReadableAbovePresent DEF TreeOK
  <2>3. i \notin DOMAIN d
    BY <2>1, <2>2, PresentBetween DEF TreeOK
  <2>4. /\ i < GTI_MAX_LEVEL
        /\ NodeIn(d)[2 * i] # Nothing
        /\ NodeIn(d)[2 * i + 1] # Nothing
    BY <2>1, <2>3, ReadAbsent
  <2>5. Cached(d)[i] = Cached(d)[2 * i] \cup Cached(d)[2 * i + 1] \cup {i}
    <3>1. ~(i >= GTI_MAX_LEVEL)
      BY <2>4, NodesAreNumbers
    <3>2. QED BY <2>3, <2>4, <3>1, CacheUnfolds DEF CacheStep
  <2>6. CASE x = i
    BY <2>5, <2>6
  <2>7. CASE i \in Above[x]
    <3>1. PICK c \in {2 * i, 2 * i + 1} : c \in Nodes /\ c \in Line(x) /\ c > i
      BY <2>7, NextOnLine
    <3>2. c \in Q
      BY <1>1, <3>1
    <3>3. x \in Cached(d)[c]
      BY <2>1, <2>4, <3>1, <3>2
    <3>4. QED BY <2>5, <3>3
  <2>8. QED BY <2>1, <2>6, <2>7 DEF Line
<1>2. \A i \in Nodes : i \in Q
  <2> HIDE DEF Q
  <2>1. QED BY <1>1, LeavesUp
<1>3. QED BY <1>2

\* What a get caches lies below the node that was asked for.
LEMMA CachedBelow ==
    ASSUME NEW d
    PROVE  \A i \in Nodes : \A x \in Cached(d)[i] : i \in Line(x)
<1> DEFINE Q == {i \in Nodes : \A x \in Cached(d)[i] : i \in Line(x)}
<1>1. ASSUME NEW i \in Nodes, \A k \in Nodes : k > i => k \in Q PROVE i \in Q
  <2>1. Cached(d)[i] = CacheStep(d, Cached(d), i)
    BY CacheUnfolds
  <2>2. CASE i \in DOMAIN d \/ i >= GTI_MAX_LEVEL
    BY <2>1, <2>2 DEF CacheStep
  <2>3. CASE i \notin DOMAIN d /\ i < GTI_MAX_LEVEL
    <3>1. 2 * i \in Q /\ 2 * i + 1 \in Q /\ i \in Line(2 * i) /\ i \in Line(2 * i + 1)
      BY <1>1, <2>3, Children, AboveChild DEF Line
    <3>2. Cached(d)[i] \subseteq Cached(d)[2 * i] \cup Cached(d)[2 * i + 1] \cup {i}
      <4>1. ~(i >= GTI_MAX_LEVEL)
        BY <2>3, NodesAreNumbers
      <4>2. QED BY <2>1, <2>3, <4>1 DEF CacheStep
    <3>3. ASSUME NEW c \in {2 * i, 2 * i + 1}, NEW x \in Cached(d)[c] PROVE i \in Line(x)
      <4>1. x \in Nodes /\ c \in Line(x) /\ i \in Line(c)
        BY <2>3, <3>1, <3>3, CachedReadable, Children
      <4>2. QED BY <4>1, LineType
    <3>4. QED BY <3>2, <3>3 DEF Line
  <2>4. QED BY <2>2, <2>3, NodesAreNumbers
<1> HIDE DEF Q
<1>2. \A i \in Nodes : i \in Q
  BY <1>1, LeavesUp
<1>3. QED BY <1>2 DEF Q

\* A get that finds its node keeps the invariant, and the node is present then.
LEMMA GetKeepsTree ==
    ASSUME NEW d, TreeOK(d), NEW i \in Nodes, ~GetRaises(d, i)
    PROVE  TreeOK(AfterGet(d, i)) /\ i \in DOMAIN AfterGet(d, i)
<1> DEFINE e == AfterGet(d, i)
           C == Cached(d)[i]
<1>1. /\ DOMAIN e = DOMAIN d \cup C
      /\ \A j \in DOMAIN d : e[j] = d[j]
      /\ \A j \in C : e[j] = NodeIn(d)[j]
  BY AfterGetIs
<1>2. \A j \in C : j \in Nodes /\ j \notin DOMAIN d /\ NodeIn(d)[j] # Nothing /\ i \in Line(j)
  BY CachedReadable, CachedBelow
<1>3. NodeIn(d)[i] # Nothing
  BY DEF GetRaises
<1>4. \A x \in Nodes : i \in Line(x) /\ x \notin DOMAIN d /\ NodeIn(d)[x] # Nothing => x \in C
  BY <1>3, CachedIsReadable
<1>5. \A j \in Nodes : NodeIn(e)[j] = NodeIn(d)[j]
  BY GetChangesNothing
<1> HIDE DEF e, C
<1>6. Typed(e)
  BY <1>1, <1>2 DEF TreeOK, Typed
<1>7. Rooted(e)
  <2>1. DOMAIN e # {} => DOMAIN d # {}
    BY GetOfNothing DEF e
  <2>2. QED BY <1>5, <2>1, NodesAreNumbers DEF TreeOK, Rooted
<1>8. Connected(e)
  <2>1. SUFFICES ASSUME NEW j \in DOMAIN e, NEW a \in Above[j], a \notin DOMAIN e,
                        NEW b \in Above[a], b \in DOMAIN e
                 PROVE  FALSE
    BY DEF Connected
  <2>2. j \in Nodes /\ a \in Nodes /\ b \in Nodes
    BY <1>6, AboveType DEF Typed
  <2>3. PICK y \in DOMAIN d : y \in Nodes /\ j \in Line(y)
    <3>1. CASE j \in DOMAIN d
      BY <2>2, <3>1 DEF Line
    <3>2. CASE j \in C
      BY <1>2, <2>2, <3>2, ReadableAbovePresent DEF TreeOK
    <3>3. QED BY <1>1, <2>1, <3>1, <3>2
  <2>4. a \in Above[y]
    BY <2>1, <2>2, <2>3, LineType, AboveTransitive DEF Line
  <2>5. Above[a] \cap DOMAIN d = {} /\ a \notin DOMAIN d
    BY <1>1, <2>1, <2>4 DEF TreeOK, Connected
  <2>6. b \in C /\ i \in Line(a)
    <3>1. b \in C
      BY <1>1, <2>1, <2>5
    <3>2. i \in Line(b)
      BY <1>2, <3>1
    <3>3. QED BY <2>1, <2>2, <3>1, <3>2, AboveTransitive DEF Line
  <2>7. NodeIn(d)[a] # Nothing
    <3>1. DOMAIN d # {} /\ Line(a) \cap DOMAIN d = {}
      BY <2>3, <2>5 DEF Line
    <3>2. QED BY <2>2, <3>1, Covered DEF TreeOK
  <2>8. QED BY <1>1, <1>4, <2>1, <2>2, <2>5, <2>6, <2>7
<1>9. Hashed(e)
  <2>1. SUFFICES ASSUME NEW j \in DOMAIN e, j < GTI_MAX_LEVEL
                 PROVE  /\ 2 * j \in DOMAIN e <=> 2 * j + 1 \in DOMAIN e
                        /\ 2 * j \in DOMAIN e => e[j] = BinaryHash(e[2 * j], e[2 * j + 1])
    BY DEF Hashed
  <2>2. j \in Nodes /\ 2 * j \in Nodes /\ 2 * j + 1 \in Nodes
    BY <1>6, <2>1, Children DEF Typed
  <2>3. CASE j \in DOMAIN d
    <3>1. ASSUME NEW c \in {2 * j, 2 * j + 1}, c \in C PROVE FALSE
      <4>1. c \in Nodes /\ c \notin DOMAIN d /\ NodeIn(d)[c] # Nothing /\ j \in Above[c]
        BY <1>2, <2>1, <2>2, <3>1, AboveChild
      <4>2. PICK y \in DOMAIN d : y \in Nodes /\ c \in Line(y)
        BY <4>1, ReadableAbovePresent DEF TreeOK
      <4>3. QED BY <2>3, <4>1, <4>2, PresentBetween DEF TreeOK, Line
    <3>2. /\ 2 * j \in DOMAIN e <=> 2 * j \in DOMAIN d
          /\ 2 * j + 1 \in DOMAIN e <=> 2 * j + 1 \in DOMAIN d
      BY <1>1, <3>1
    <3>3. QED BY <1>1, <2>1, <2>3, <3>2 DEF TreeOK, Hashed
  <2>4. CASE j \in C
    <3>1. j \notin DOMAIN d /\ NodeIn(d)[j] # Nothing /\ i \in Line(j)
      BY <1>2, <2>4
    <3>2. /\ NodeIn(d)[2 * j] # Nothing /\ NodeIn(d)[2 * j + 1] # Nothing
          /\ e[j] = BinaryHash(NodeIn(d)[2 * j], NodeIn(d)[2 * j + 1])
      BY <1>1, <2>2, <2>4, <3>1, ReadAbsent
    <3>3. ASSUME NEW c \in {2 * j, 2 * j + 1}
          PROVE  c \in DOMAIN e /\ e[c] = NodeIn(d)[c]
      <4>1. c \in Nodes /\ NodeIn(d)[c] # Nothing /\ i \in Line(c)
        BY <2>1, <2>2, <3>1, <3>2, AboveChild DEF Line
      <4>2. c \in DOMAIN e
        BY <1>1, <1>4, <4>1
      <4>3. QED BY <1>5, <4>1, <4>2, ReadPresent
    <3>4. QED BY <3>2, <3>3
  <2>5. QED BY <1>1, <2>1, <2>3, <2>4
<1>10. i \in DOMAIN e
  BY <1>1, <1>3, <1>4 DEF Line
<1>11. QED BY <1>6, <1>7, <1>8, <1>9, <1>10 DEF TreeOK, e

-----------------------------------------------------------------------------
(* Removing: invalidated ancestors and collapsed descendants. *)

LEMMA WithoutIs ==
    ASSUME NEW d, NEW gone
    PROVE  /\ DOMAIN Without(d, gone) = DOMAIN d \ gone
           /\ \A j \in DOMAIN d \ gone : Without(d, gone)[j] = d[j]
BY DEF Without

LEMMA PathUpIs ==
    ASSUME NEW i \in Nodes, NEW a \in Line(i)
    PROVE  \A n : n \in PathUp(i, a) <=> n \in Line(i) /\ a \in Line(n)
<1>1. SUFFICES ASSUME NEW n \in Line(i) PROVE n >= a <=> a \in Line(n)
  BY DEF PathUp, Line
<1>2. n \in Nodes /\ a \in Nodes /\ n \in Int /\ a \in Int
  BY LineType, NodesAreNumbers
<1>3. ASSUME n >= a PROVE a \in Line(n)
  <2>1. n = a \/ a < n
    BY <1>2, <1>3
  <2>2. QED BY <2>1, LineOrdered DEF Line
<1>4. ASSUME a \in Line(n) PROVE n >= a
  BY <1>2, <1>4, LineType
<1>5. QED BY <1>3, <1>4

\* Up from a present node to a present ancestor all nodes are present.
LEMMA PathPresent ==
    ASSUME NEW d, Typed(d), Connected(d), NEW x \in DOMAIN d, NEW n \in DOMAIN d, n \in Line(x)
    PROVE  PathUp(x, n) \subseteq DOMAIN d
<1>1. x \in Nodes /\ n \in Nodes
  BY DEF Typed
<1>2. QED BY <1>1, PathUpIs, PresentBetween, LineType

\* Invalidation removes all ancestors if it finds them without a gap.
LEMMA InvalidatedIs ==
    ASSUME NEW d, NEW i \in Nodes,
           \A a \in Above[i] \cap DOMAIN d : PathUp(i, a) \ {i} \subseteq DOMAIN d
    PROVE  /\ DOMAIN Invalidated(d, i) = DOMAIN d \ Above[i]
           /\ \A j \in DOMAIN d \ Above[i] : Invalidated(d, i)[j] = d[j]
<1>1. \A a \in Above[i] : a \in PathUp(i, a) /\ a # i
  BY AboveType, NodesAreNumbers DEF PathUp
<1>2. \A a \in Above[i] : PathUp(i, a) \ {i} \subseteq DOMAIN d => a \in DOMAIN d
  BY <1>1
<1>3. {a \in Above[i] : PathUp(i, a) \ {i} \subseteq DOMAIN d} = Above[i] \cap DOMAIN d
  BY <1>2
<1>4. DOMAIN d \ (Above[i] \cap DOMAIN d) = DOMAIN d \ Above[i]
  OBVIOUS
<1>5. QED BY <1>3, <1>4, WithoutIs DEF Invalidated

\* A collapse that finds its node leaves nothing below it.
LEMMA AfterCollapseIs ==
    ASSUME NEW d, TreeOK(d), NEW i \in Nodes, ~GetRaises(d, i)
    PROVE  /\ DOMAIN AfterCollapse(d, i) = DOMAIN AfterGet(d, i) \ Below(i)
           /\ \A j \in DOMAIN AfterGet(d, i) \ Below(i) :
                 AfterCollapse(d, i)[j] = AfterGet(d, i)[j]
<1> DEFINE e == AfterGet(d, i)
           gone == {j \in Below(i) : PathUp(j, i) \subseteq DOMAIN e}
<1>1. TreeOK(e) /\ i \in DOMAIN e
  BY GetKeepsTree
<1>2. AfterCollapse(d, i) = Without(e, gone)
  BY DEF AfterCollapse
<1>3. ASSUME NEW j \in DOMAIN e, j \in Below(i) PROVE j \in gone
  <2>1. i \in Line(j)
    BY <1>3 DEF Below, Line
  <2>2. QED BY <1>1, <1>3, <2>1, PathPresent DEF TreeOK
<1> HIDE DEF e
<1>4. DOMAIN e \ gone = DOMAIN e \ Below(i)
  BY <1>3
<1> HIDE DEF gone
<1>5. /\ DOMAIN Without(e, gone) = DOMAIN e \ gone
      /\ \A j \in DOMAIN e \ gone : Without(e, gone)[j] = e[j]
  BY WithoutIs
<1>6. QED BY <1>2, <1>4, <1>5 DEF e

\* A collapse that finds its node keeps the invariant and the readings outside.
LEMMA CollapseKeepsTree ==
    ASSUME NEW d, TreeOK(d), NEW i \in Nodes, ~GetRaises(d, i)
    PROVE  /\ TreeOK(AfterCollapse(d, i))
           /\ DOMAIN AfterCollapse(d, i) # {}
           /\ NodeIn(AfterCollapse(d, i))[GTI_ROOT] = NodeIn(d)[GTI_ROOT]
<1> DEFINE e == AfterGet(d, i)
           f == AfterCollapse(d, i)
<1>1. TreeOK(e) /\ i \in DOMAIN e
  BY GetKeepsTree
<1>2. /\ DOMAIN f = DOMAIN e \ Below(i)
      /\ \A j \in DOMAIN e \ Below(i) : f[j] = e[j]
  BY AfterCollapseIs
<1>3. \A j \in Nodes : NodeIn(e)[j] = NodeIn(d)[j]
  BY GetChangesNothing
<1> HIDE DEF e, f
<1>4. \A j \in Nodes : j \in Below(i) <=> i \in Above[j]
  BY DEF Below
<1>5. i \notin Below(i) /\ GTI_ROOT \notin Below(i)
  BY <1>4, AboveType, AboveRoot, NodesAreNumbers
<1>6. Typed(f)
  BY <1>1, <1>2 DEF TreeOK, Typed
<1>7. Connected(f)
  <2>1. SUFFICES ASSUME NEW j \in DOMAIN f, NEW a \in Above[j], a \notin DOMAIN f,
                        NEW b \in Above[a], b \in DOMAIN f
                 PROVE  FALSE
    BY DEF Connected
  <2>2. j \in Nodes /\ a \in Nodes
    BY <1>6, AboveType DEF Typed
  <2>3. a \notin Below(i)
    BY <1>2, <1>4, <2>2, AboveTransitive
  <2>4. QED BY <1>1, <1>2, <2>1, <2>3 DEF TreeOK, Connected
<1>8. Hashed(f)
  <2>1. SUFFICES ASSUME NEW j \in DOMAIN f, j < GTI_MAX_LEVEL
                 PROVE  /\ 2 * j \in DOMAIN f <=> 2 * j + 1 \in DOMAIN f
                        /\ 2 * j \in DOMAIN f => f[j] = BinaryHash(f[2 * j], f[2 * j + 1])
    BY DEF Hashed
  <2>2. j \in Nodes
    BY <1>6 DEF Typed
  <2>3. 2 * j \in Below(i) <=> 2 * j + 1 \in Below(i)
    BY <1>4, <2>1, <2>2, Children, AboveChild
  <2>4. QED BY <1>1, <1>2, <2>1, <2>3 DEF TreeOK, Hashed
<1>9. NodeIn(f)[GTI_ROOT] = NodeIn(e)[GTI_ROOT]
  <2>1. i \in Nodes /\ i \in DOMAIN e
    BY <1>1
  <2>2. \A j \in Nodes : i \notin Above[j] =>
           (j \in DOMAIN e <=> j \in DOMAIN f) /\ (j \in DOMAIN e => e[j] = f[j])
    BY <1>2, <1>4
  <2>3. i \notin Above[GTI_ROOT] /\ GTI_ROOT \in Nodes
    BY AboveRoot, NodesAreNumbers
  <2>4. QED BY <2>1, <2>2, <2>3, SameElsewhere
<1>10. Rooted(f)
  BY <1>1, <1>9 DEF TreeOK, Rooted
<1>11. DOMAIN f # {}
  BY <1>1, <1>2, <1>5
<1>12. QED BY <1>3, <1>6, <1>7, <1>8, <1>9, <1>10, <1>11, NodesAreNumbers DEF TreeOK, e, f

-----------------------------------------------------------------------------
(* Expanding: what a node is hung on, and what becomes present with it. *)

Sibling(n) == (n \div 2) * 4 + 1 - n

\* The nodes an expansion of i creates beside its path.
Beside(d, i) == {Sibling(n) : n \in NewNodes(d, i) \ {GTI_ROOT}}

LEMMA SiblingIs ==
    ASSUME NEW n \in Nodes, n # GTI_ROOT
    PROVE  /\ Sibling(n) \in Nodes /\ Sibling(n) # GTI_ROOT /\ Sibling(n) # n
           /\ Sibling(n) \div 2 = n \div 2
           /\ \/ n = 2 * (n \div 2) /\ Sibling(n) = 2 * (n \div 2) + 1
              \/ n = 2 * (n \div 2) + 1 /\ Sibling(n) = 2 * (n \div 2)
           /\ Above[Sibling(n)] = Line(n \div 2)
<1> DEFINE p == n \div 2
<1>1. p \in Nodes /\ p < GTI_MAX_LEVEL /\ p \in Int
  BY Parents, NodesAreNumbers
<1>2. \/ n = 2 * p /\ Sibling(n) = 2 * p + 1
      \/ n = 2 * p + 1 /\ Sibling(n) = 2 * p
  <2>1. n = 2 * p \/ n = 2 * p + 1
    BY ChildOfParent
  <2>2. Sibling(n) = p * 4 + 1 - n
    BY DEF Sibling
  <2> HIDE DEF p
  <2>3. QED BY <1>1, <2>1, <2>2
<1>3. 2 * p # 2 * p + 1
  <2> HIDE DEF p
  <2>1. QED BY <1>1
<1>4. QED BY <1>1, <1>2, <1>3, Children, AboveChild DEF Line

\* If there are present nodes on a line, one is the lowest.
LEMMA LowestPresent ==
    ASSUME NEW d
    PROVE  \A i \in Nodes : Line(i) \cap DOMAIN d # {} =>
             \E n \in Line(i) \cap DOMAIN d : \A m \in Line(i) \cap DOMAIN d : m \in Line(n)
<1> DEFINE Lowest(i) == \E n \in Line(i) \cap DOMAIN d :
                           \A m \in Line(i) \cap DOMAIN d : m \in Line(n)
           Q == {i \in Nodes : Line(i) \cap DOMAIN d # {} => Lowest(i)}
<1>1. ASSUME NEW i \in Nodes, \A j \in Nodes : j < i => j \in Q PROVE i \in Q
  <2>1. CASE i \in DOMAIN d
    BY <2>1 DEF Line
  <2>2. CASE i \notin DOMAIN d /\ i = GTI_ROOT
    BY <2>2, AboveRoot DEF Line
  <2>3. CASE i \notin DOMAIN d /\ i # GTI_ROOT
    <3>1. i \div 2 \in Q
      BY <1>1, <2>3, Parents
    <3>2. Line(i) \cap DOMAIN d = Line(i \div 2) \cap DOMAIN d
      BY <2>3, AboveParent DEF Line
    <3>3. QED BY <3>1, <3>2
  <2>4. QED BY <2>1, <2>2, <2>3
<1> HIDE DEF Q
<1>2. \A i \in Nodes : i \in Q
  BY <1>1, RootDown
<1>3. QED BY <1>2 DEF Q

\* The new nodes are those of the line of i below its lowest present node.
LEMMA NewNodesBelow ==
    ASSUME NEW d, NEW i \in Nodes, i \notin DOMAIN d,
           NEW n \in Line(i) \cap DOMAIN d, \A m \in Line(i) \cap DOMAIN d : m \in Line(n)
    PROVE  /\ n \in Above[i]
           /\ Frontier(d, i) = {n}
           /\ NewNodes(d, i) = {m \in Line(i) : n \in Above[m]}
<1>1. n \in Above[i] /\ n \in Nodes
  BY LineType DEF Line
<1>2. \A m, k \in Line(i) : k \in PathUp(i, m) <=> m \in Line(k)
  BY PathUpIs
<1>3. \A m \in Line(i) : m \in Nodes /\ m \in Int
  BY LineType, NodesAreNumbers
<1>4. \A m, k \in Line(i) : m \in Line(k) /\ k \in Line(m) => m = k
  <2>1. SUFFICES ASSUME NEW m \in Line(i), NEW k \in Line(i), m \in Line(k), k \in Line(m)
                 PROVE  m = k
    OBVIOUS
  <2>2. m <= k /\ k <= m
    BY <1>3, <2>1, LineType
  <2>3. QED BY <1>3, <2>2
<1>5. \A m \in Line(i) : m \in Line(m)
  BY DEF Line
<1>6. \A m \in Line(i) : PathUp(i, m) \subseteq Line(i)
  BY DEF PathUp, Line
<1>7. Frontier(d, i) = {n}
  <2>1. n \in Frontier(d, i)
    <3>1. \A k \in PathUp(i, n) \cap DOMAIN d : k = n
      BY <1>2, <1>4, <1>6
    <3>2. n \in PathUp(i, n)
      BY <1>2, <1>5
    <3>3. QED BY <3>1, <3>2 DEF Frontier, Line
  <2>2. ASSUME NEW m \in Frontier(d, i) PROVE m = n
    <3>1. m \in Line(i) /\ m \in DOMAIN d /\ PathUp(i, m) \cap DOMAIN d = {m}
      BY DEF Frontier, Line
    <3>2. n \in PathUp(i, m)
      BY <1>2, <3>1
    <3>3. QED BY <3>1, <3>2
  <2>3. QED BY <2>1, <2>2
<1>8. ASSUME NEW m \in Line(i) PROVE m \in NewNodes(d, i) <=> n \in Above[m]
  <2>1. ASSUME n \in Above[m] PROVE PathUp(i, m) \cap DOMAIN d = {}
    <3>1. SUFFICES ASSUME NEW k \in PathUp(i, m) \cap DOMAIN d PROVE FALSE
      OBVIOUS
    <3>2. m \in Line(k) /\ k \in Line(n) /\ k \in Line(i)
      BY <1>2, <1>6
    <3>3. m \in Line(n)
      BY <1>1, <1>3, <3>2, LineType
    <3>4. n < m /\ m <= n
      BY <1>1, <1>3, <2>1, <3>3, AboveType, LineType
    <3>5. QED BY <1>1, <1>3, <3>4, NodesAreNumbers
  <2>2. ASSUME PathUp(i, m) \cap DOMAIN d = {} PROVE n \in Above[m]
    <3>1. n \notin PathUp(i, m)
      BY <2>2
    <3>2. ~(m \in Line(n))
      BY <1>2, <3>1
    <3>3. n < m
      <4>1. m # n /\ m \notin Above[n]
        BY <3>2 DEF Line
      <4>2. ~(m < n)
        BY <1>1, <4>1, LineOrdered
      <4>3. QED BY <1>3, <4>1, <4>2
    <3>4. QED BY <1>1, <3>3, LineOrdered
  <2>3. QED BY <2>1, <2>2 DEF NewNodes, Line
<1>9. NewNodes(d, i) \subseteq Line(i)
  BY DEF NewNodes, Line
<1>10. QED BY <1>1, <1>7, <1>8, <1>9

\* What a caller of expand or set knows of node i.
MayPlace(d, i) ==
  /\ TreeOK(d)
  /\ i \in Nodes
  /\ Below(i) \cap DOMAIN d = {}
  /\ i \notin DOMAIN d => ~ExpandRaises(d, i)

\* An expansion hangs its path on a present empty node, or it starts the tree.
LEMMA ExpansionCases ==
    ASSUME NEW d, TreeOK(d), NEW i \in Nodes, i \notin DOMAIN d, Below(i) \cap DOMAIN d = {}
    PROVE  \/ DOMAIN d = {} /\ NewNodes(d, i) = Line(i) /\ Frontier(d, i) = {}
           \/ \E n \in Above[i] \cap DOMAIN d :
                 /\ n \in Nodes
                 /\ Frontier(d, i) = {n}
                 /\ NewNodes(d, i) = {m \in Line(i) : n \in Above[m]}
<1>1. CASE DOMAIN d = {}
  BY <1>1 DEF NewNodes, Frontier, Line
<1>2. CASE DOMAIN d # {}
  <2>1. Line(i) \cap DOMAIN d # {}
    <3>1. SUFFICES ASSUME Line(i) \cap DOMAIN d = {} PROVE FALSE
      OBVIOUS
    <3>2. NodeIn(d)[i] # Nothing
      BY <1>2, <3>1, Covered DEF TreeOK
    <3>3. PICK x \in DOMAIN d : x \in Nodes /\ i \in Line(x)
      BY <3>2, ReadableAbovePresent DEF TreeOK
    <3>4. QED BY <3>3 DEF Below, Line
  <2>2. PICK n \in Line(i) \cap DOMAIN d : \A m \in Line(i) \cap DOMAIN d : m \in Line(n)
    BY <2>1, LowestPresent
  <2>3. QED BY <2>2, NewNodesBelow, LineType
<1>3. QED BY <1>1, <1>2

\* The nodes beside the path are new, and nothing below them is present.
LEMMA BesideIs ==
    ASSUME NEW d, NEW i, MayPlace(d, i), NEW s \in Beside(d, i)
    PROVE  /\ s \in Nodes /\ s # GTI_ROOT
           /\ s \div 2 \in Above[i] /\ Above[s] \subseteq Above[i]
           /\ s \notin Line(i) /\ s \notin DOMAIN d
           /\ \A x \in DOMAIN d : s \notin Above[x]
<1>0. TreeOK(d) /\ i \in Nodes /\ Below(i) \cap DOMAIN d = {} /\ DOMAIN d \subseteq Nodes
  BY DEF MayPlace, TreeOK, Typed
<1>1. PICK n \in NewNodes(d, i) : n # GTI_ROOT /\ s = Sibling(n)
  BY DEF Beside
<1>2. n \in Line(i) /\ n \in Nodes /\ n \notin DOMAIN d
  <2>1. n \in Line(i)
    BY <1>1 DEF NewNodes, Line
  <2>2. n \in PathUp(i, n)
    BY <1>0, <2>1, PathUpIs DEF Line
  <2>3. QED BY <1>0, <1>1, <2>1, <2>2, LineType DEF NewNodes
<1> DEFINE p == n \div 2
<1>3. /\ s \in Nodes /\ s # GTI_ROOT /\ s \div 2 = p /\ Above[s] = Line(p)
      /\ \/ n = 2 * p /\ s = 2 * p + 1
         \/ n = 2 * p + 1 /\ s = 2 * p
  BY <1>1, <1>2, SiblingIs
<1>4. p \in Above[n] /\ p \in Nodes /\ p < GTI_MAX_LEVEL
  BY <1>1, <1>2, AboveParent, Parents
<1>5. p \in Above[i] /\ Above[s] \subseteq Above[i]
  BY <1>0, <1>2, <1>3, <1>4, AboveTransitive DEF Line
<1>6. s \notin Line(i)
  BY <1>0, <1>2, <1>3, <1>5, LineThroughChild
<1>7. i \notin DOMAIN d
  <2>1. i \in PathUp(i, n)
    BY <1>0, <1>2, PathUpIs, LineType DEF Line
  <2>2. QED BY <1>1, <2>1 DEF NewNodes
<1>8. CASE DOMAIN d = {}
  BY <1>3, <1>5, <1>6, <1>8
<1>9. ASSUME NEW f \in Above[i] \cap DOMAIN d, f \in Nodes, Frontier(d, i) = {f},
             NewNodes(d, i) = {m \in Line(i) : f \in Above[m]}
      PROVE  s \notin DOMAIN d /\ \A x \in DOMAIN d : s \notin Above[x]
  <2>1. f \in Above[n] /\ f \in Above[s]
    <3>1. f \in Above[n]
      BY <1>1, <1>9
    <3>2. Above[n] = Above[s]
      BY <1>1, <1>2, <1>3, AboveParent DEF Line
    <3>3. QED BY <3>1, <3>2
  <2>2. s \notin DOMAIN d
    <3>1. SUFFICES ASSUME s \in DOMAIN d PROVE FALSE
      OBVIOUS
    <3>2. p \in DOMAIN d
      <4>1. p \in Line(s) /\ f \in Line(p)
        BY <1>3, <2>1 DEF Line
      <4>2. QED BY <1>0, <1>4, <1>9, <3>1, <4>1, PresentBetween DEF TreeOK
    <3>3. n \in DOMAIN d
      BY <1>0, <1>3, <1>4, <3>1, <3>2 DEF TreeOK, Hashed
    <3>4. QED BY <1>2, <3>3
  <2>3. QED BY <1>0, <1>9, <2>1, <2>2 DEF TreeOK, Connected
<1>10. QED
  <2>1. DOMAIN d = {} \/ \E f \in Above[i] \cap DOMAIN d :
                 /\ f \in Nodes
                 /\ Frontier(d, i) = {f}
                 /\ NewNodes(d, i) = {m \in Line(i) : f \in Above[m]}
    BY <1>0, <1>7, ExpansionCases
  <2>2. s \notin DOMAIN d /\ \A x \in DOMAIN d : s \notin Above[x]
    BY <1>8, <1>9, <2>1
  <2>3. QED BY <1>3, <1>5, <1>6, <2>2

\* Nothing is created for a node that is present.
LEMMA NothingBeside ==
    ASSUME NEW d, NEW i \in Nodes, i \in DOMAIN d
    PROVE  NewNodes(d, i) = {} /\ Beside(d, i) = {}
<1>1. \A n \in Line(i) : i \in PathUp(i, n)
  BY PathUpIs, LineType DEF Line
<1>2. NewNodes(d, i) = {}
  BY <1>1 DEF NewNodes, Line
<1>3. QED BY <1>2 DEF Beside

\* e is d with node i present and set to v, and its ancestors invalidated.
Placed(d, e, i, v) ==
  /\ DOMAIN e = (DOMAIN d \ Above[i]) \cup {i} \cup Beside(d, i)
  /\ e[i] = v
  /\ \A j \in DOMAIN d \ Above[i] : j # i => e[j] = d[j]
  /\ \A s \in Beside(d, i) : e[s] = EmptyNode[s]

LEMMA UpdatedIs ==
    ASSUME NEW d, NEW new
    PROVE  /\ DOMAIN Updated(d, new) = DOMAIN d \cup DOMAIN new
           /\ \A j \in DOMAIN new : Updated(d, new)[j] = new[j]
           /\ \A j \in DOMAIN d : j \notin DOMAIN new => Updated(d, new)[j] = d[j]
BY DEF Updated

\* An expansion that is not refused places the empty value of its node.
LEMMA ExpandPlaces ==
    ASSUME NEW d, NEW i, MayPlace(d, i), i \notin DOMAIN d
    PROVE  Placed(d, AfterExpand(d, i), i, EmptyNode[i])
<1>0. TreeOK(d) /\ i \in Nodes /\ Below(i) \cap DOMAIN d = {} /\ ~ExpandRaises(d, i)
  BY DEF MayPlace
<1> DEFINE New == NewNodes(d, i)
           S == Beside(d, i)
           path == [n \in New |-> EmptyNode[n]]
           beside == [n \in S |-> EmptyNode[n]]
           e == Updated(Updated(d, path), beside)
<1>1. AfterExpand(d, i) = Invalidated(e, i)
  BY <1>0 DEF AfterExpand, Beside, Sibling
<1>2. /\ \A s \in S : s \notin Line(i) /\ s \notin DOMAIN d
      /\ New \subseteq Line(i)
      /\ i \in New
  <2>1. \A s \in S : s \notin Line(i) /\ s \notin DOMAIN d
    BY BesideIs
  <2>2. PathUp(i, i) \cap DOMAIN d = {}
    <3>1. \A n \in PathUp(i, i) : n = i
      BY <1>0, AboveType, NodesAreNumbers DEF PathUp
    <3>2. QED BY <3>1
  <2>3. QED BY <2>1, <2>2 DEF NewNodes, Line
<1>3. New \cap DOMAIN d = {}
  <2>1. \A n \in New : n \in PathUp(i, n)
    BY <1>0, <1>2, PathUpIs DEF Line
  <2>2. QED BY <2>1 DEF NewNodes
<1>4. /\ DOMAIN e = DOMAIN d \cup New \cup S
      /\ \A j \in DOMAIN d : e[j] = d[j]
      /\ \A j \in New : e[j] = EmptyNode[j]
      /\ \A j \in S : e[j] = EmptyNode[j]
  <2>1. DOMAIN path = New /\ DOMAIN beside = S
    OBVIOUS
  <2>2. (\A j \in New : path[j] = EmptyNode[j]) /\ (\A j \in S : beside[j] = EmptyNode[j])
    OBVIOUS
  <2> DEFINE m == Updated(d, path)
  <2> HIDE DEF path, beside
  <2>3. /\ DOMAIN m = DOMAIN d \cup DOMAIN path
        /\ \A j \in DOMAIN path : m[j] = path[j]
        /\ \A j \in DOMAIN d : j \notin DOMAIN path => m[j] = d[j]
    BY UpdatedIs
  <2> HIDE DEF m
  <2>4. /\ DOMAIN Updated(m, beside) = DOMAIN m \cup DOMAIN beside
        /\ \A j \in DOMAIN beside : Updated(m, beside)[j] = beside[j]
        /\ \A j \in DOMAIN m : j \notin DOMAIN beside => Updated(m, beside)[j] = m[j]
    BY UpdatedIs
  <2>5. e = Updated(m, beside)
    BY DEF m
  <2> HIDE DEF New, S, e
  <2>6. QED BY <1>2, <1>3, <2>1, <2>2, <2>3, <2>4, <2>5
<1> HIDE DEF e
<1>5. \A a \in Above[i] \cap DOMAIN e : PathUp(i, a) \ {i} \subseteq DOMAIN e
  <2>1. SUFFICES ASSUME NEW a \in Above[i] \cap DOMAIN e, NEW k \in PathUp(i, a), k \notin New
                 PROVE  k \in DOMAIN d
    BY <1>4
  <2>2. /\ k \in Line(i) /\ a \in Line(k) /\ k \in Nodes /\ a \in Nodes
        /\ a \in DOMAIN d \cup New
    <3>1. k \in Line(i) /\ a \in Line(k)
      BY <1>0, <2>1, PathUpIs DEF Line
    <3>2. a \notin S
      BY <1>2 DEF Line
    <3>3. QED BY <1>0, <1>4, <3>1, <3>2, LineType
  <2>3. PICK f \in Above[i] \cap DOMAIN d : f \in Nodes /\ New = {m \in Line(i) : f \in Above[m]}
    BY <1>0, <2>1, <2>2, ExpansionCases
  <2>4. f \notin Above[k]
    BY <2>1, <2>2, <2>3
  <2>5. k \in Line(f)
    <3>1. ~(f < k)
      BY <1>0, <2>2, <2>3, <2>4, LineOrdered DEF Line
    <3>2. k = f \/ k < f
      BY <2>2, <2>3, <3>1, NodesAreNumbers
    <3>3. QED BY <1>0, <2>2, <2>3, <3>2, LineOrdered DEF Line
  <2>6. a \in DOMAIN d
    <3>1. SUFFICES ASSUME a \in New PROVE FALSE
      BY <2>2
    <3>2. f < a /\ a <= k /\ k <= f
      BY <2>2, <2>3, <2>5, <3>1, AboveType, LineType
    <3>3. QED BY <2>2, <2>3, <3>2, NodesAreNumbers
  <2>7. QED BY <1>0, <2>2, <2>3, <2>5, <2>6, PresentBetween DEF TreeOK
<1>6. /\ DOMAIN Invalidated(e, i) = DOMAIN e \ Above[i]
      /\ \A j \in DOMAIN e \ Above[i] : Invalidated(e, i)[j] = e[j]
  BY <1>0, <1>5, InvalidatedIs
<1>7. DOMAIN e \ Above[i] = (DOMAIN d \ Above[i]) \cup {i} \cup S
  <2>1. i \notin Above[i]
    BY <1>0, AboveType, NodesAreNumbers
  <2> HIDE DEF New, S
  <2>2. QED BY <1>2, <1>4, <2>1 DEF Line
<1>8. i \in DOMAIN e \ Above[i]
  BY <1>7
<1>9. Invalidated(e, i)[i] = EmptyNode[i]
  BY <1>2, <1>4, <1>6, <1>8
<1>10. ASSUME NEW j \in DOMAIN d \ Above[i] PROVE Invalidated(e, i)[j] = d[j]
  BY <1>4, <1>6, <1>7
<1>11. ASSUME NEW s \in S PROVE Invalidated(e, i)[s] = EmptyNode[s]
  BY <1>4, <1>6, <1>7
<1>12. QED BY <1>1, <1>6, <1>7, <1>9, <1>10, <1>11 DEF Placed

\* A set that is not refused places its value.
LEMMA SetPlaces ==
    ASSUME NEW d, NEW i \in Leaves, NEW v, MayPlace(d, i)
    PROVE  Placed(d, AfterSet(d, i, v), i, v)
<1>0. TreeOK(d) /\ i \in Nodes /\ ~SetRaises(d, i) /\ i \notin Above[i]
  BY AboveType, NodesAreNumbers DEF MayPlace, SetRaises
<1> DEFINE g == AfterExpand(d, i)
           one == [n \in {i} |-> v]
           e == Updated(g, one)
<1>1. AfterSet(d, i, v) = Invalidated(e, i)
  BY <1>0 DEF AfterSet
<1>2. DOMAIN e = DOMAIN g \cup {i} /\ e[i] = v /\ \A j \in DOMAIN g : j # i => e[j] = g[j]
  <2>1. DOMAIN one = {i} /\ one[i] = v
    OBVIOUS
  <2> HIDE DEF one, g
  <2>2. /\ DOMAIN Updated(g, one) = DOMAIN g \cup DOMAIN one
        /\ \A j \in DOMAIN one : Updated(g, one)[j] = one[j]
        /\ \A j \in DOMAIN g : j \notin DOMAIN one => Updated(g, one)[j] = g[j]
    BY UpdatedIs
  <2>3. e = Updated(g, one)
    OBVIOUS
  <2> HIDE DEF e
  <2>4. QED BY <2>1, <2>2, <2>3
<1> HIDE DEF e
<1>3. CASE i \in DOMAIN d
  <2>1. g = d /\ Beside(d, i) = {}
    BY <1>0, <1>3, NothingBeside DEF AfterExpand
  <2> HIDE DEF g
  <2>2. DOMAIN e = DOMAIN d
    BY <1>2, <1>3, <2>1
  <2>3. \A a \in Above[i] \cap DOMAIN e : PathUp(i, a) \ {i} \subseteq DOMAIN e
    BY <1>0, <1>3, <2>2, PathPresent DEF TreeOK, Line
  <2>4. /\ DOMAIN Invalidated(e, i) = DOMAIN e \ Above[i]
        /\ \A j \in DOMAIN e \ Above[i] : Invalidated(e, i)[j] = e[j]
    BY <1>0, <2>3, InvalidatedIs
  <2>5. QED BY <1>0, <1>1, <1>2, <1>3, <2>1, <2>2, <2>4 DEF Placed
<1>4. CASE i \notin DOMAIN d
  <2>1. Placed(d, g, i, EmptyNode[i])
    BY <1>4, ExpandPlaces
  <2>2. Above[i] \cap DOMAIN g = {}
    <3>1. \A s \in Beside(d, i) : s \notin Above[i]
      BY BesideIs DEF Line
    <3> HIDE DEF g
    <3>2. QED BY <1>0, <2>1, <3>1 DEF Placed
  <2> HIDE DEF g
  <2>3. DOMAIN e = DOMAIN g /\ DOMAIN e \ Above[i] = DOMAIN e
    BY <1>2, <2>1, <2>2 DEF Placed
  <2>4. /\ DOMAIN Invalidated(e, i) = DOMAIN e \ Above[i]
        /\ \A j \in DOMAIN e \ Above[i] : Invalidated(e, i)[j] = e[j]
    BY <1>0, <2>2, <2>3, InvalidatedIs
  <2>5. \A s \in Beside(d, i) : s # i
    BY BesideIs DEF Line
  <2>6. QED BY <1>0, <1>1, <1>2, <2>1, <2>3, <2>4, <2>5 DEF Placed
<1>5. QED BY <1>3, <1>4

-----------------------------------------------------------------------------
(* The contents: the abstract tree's reading and writing of a root r. *)

AtStep(r, f, i) ==
  IF i = GTI_ROOT THEN r
  ELSE IF f[i \div 2] = Zero THEN EmptyNode[i]
  ELSE f[i \div 2][1 + (i % 2)]

AtOf(r) == CHOOSE f : f = [i \in Nodes |-> AtStep(r, f, i)]

\* The value at a node is found from that of its parent.
LEMMA AtUnfolds ==
    ASSUME NEW r
    PROVE  \A i \in Nodes : AtOf(r)[i] = AtStep(r, AtOf(r), i)
<1> DEFINE Q == {n \in Nodes : \E f : f = [i \in 1..n |-> AtStep(r, f, i)]}
<1>1. ASSUME NEW n \in Nodes, \A m \in Nodes : m < n => m \in Q PROVE n \in Q
  <2>1. PICK f : f = [i \in 1..(n - 1) |-> AtStep(r, f, i)]
    <3>1. CASE n = 1
      <4> DEFINE f == [i \in 1..(n - 1) |-> Nothing]
      <4>1. 1..(n - 1) = {}
        BY <3>1
      <4>2. f = [i \in 1..(n - 1) |-> AtStep(r, f, i)]
        BY <4>1
      <4>3. QED BY <4>2
    <3>2. CASE n # 1
      <4>1. n - 1 \in Q
        BY <1>1, <3>2, NodesAreNumbers
      <4>2. QED BY <4>1
    <3>3. QED BY <3>1, <3>2
  <2> DEFINE g == [i \in 1..n |-> AtStep(r, f, i)]
  <2>2. \A i \in 1..(n - 1) : g[i] = f[i]
    BY <2>1, NodesAreNumbers
  <2>3. ASSUME NEW i \in 1..n PROVE AtStep(r, f, i) = AtStep(r, g, i)
    <3>1. i = GTI_ROOT \/ i \div 2 \in 1..(n - 1)
      BY NodesAreNumbers DEF GTI_ROOT
    <3> HIDE DEF g
    <3>2. QED BY <2>2, <3>1 DEF AtStep
  <2>4. g = [i \in 1..n |-> AtStep(r, g, i)]
    <3>1. \A i \in 1..n : g[i] = AtStep(r, g, i)
      BY <2>3
    <3>2. g = [i \in 1..n |-> g[i]]
      OBVIOUS
    <3> HIDE DEF g
    <3>3. QED BY <3>1, <3>2
  <2> HIDE DEF g
  <2>5. QED BY <2>4
<1>2. LastNode \in Q
  <2> HIDE DEF Q
  <2>1. QED BY <1>1, RootDown, NodesAreNumbers
<1>3. \E f : f = [i \in Nodes |-> AtStep(r, f, i)]
  BY <1>2, NodesAreNumbers
<1>4. AtOf(r) = [i \in Nodes |-> AtStep(r, AtOf(r), i)]
  <2>1. AtOf(r) = CHOOSE f : f = [i \in Nodes |-> AtStep(r, f, i)]
    BY DEF AtOf
  <2>2. QED BY <1>3, <2>1
<1>5. QED BY <1>4

PutStep(r, a, v, f, i) ==
  IF i = a THEN v
  ELSE IF i \in Above[a] THEN BinaryHash(f[2 * i], f[2 * i + 1])
  ELSE AtOf(r)[i]

PutIn(r, a, v) == CHOOSE f : f = [i \in Nodes |-> PutStep(r, a, v, f, i)]

\* A value is put into a node by hashing all of its ancestors again.
LEMMA PutUnfolds ==
    ASSUME NEW r, NEW a \in Nodes, NEW v
    PROVE  \A i \in Nodes : PutIn(r, a, v)[i] = PutStep(r, a, v, PutIn(r, a, v), i)
<1> DEFINE Q == {n \in Nodes : \E f : f = [i \in n..LastNode |-> PutStep(r, a, v, f, i)]}
<1>1. ASSUME NEW n \in Nodes, \A m \in Nodes : m > n => m \in Q PROVE n \in Q
  <2>1. \A i \in n..LastNode : i \in Nodes
    BY NodesAreNumbers
  <2>2. PICK f : f = [i \in (n + 1)..LastNode |-> PutStep(r, a, v, f, i)]
    <3>1. CASE n = LastNode
      <4> DEFINE f == [i \in (n + 1)..LastNode |-> Nothing]
      <4>1. (n + 1)..LastNode = {}
        BY <3>1, NodesAreNumbers
      <4>2. f = [i \in (n + 1)..LastNode |-> PutStep(r, a, v, f, i)]
        BY <4>1
      <4>3. QED BY <4>2
    <3>2. CASE n # LastNode
      <4>1. n + 1 \in Q
        BY <1>1, <3>2, NodesAreNumbers
      <4>2. QED BY <4>1
    <3>3. QED BY <3>1, <3>2
  <2> DEFINE g == [i \in n..LastNode |-> PutStep(r, a, v, f, i)]
  <2>3. \A i \in (n + 1)..LastNode : g[i] = f[i]
    BY <2>2, NodesAreNumbers
  <2>4. ASSUME NEW i \in n..LastNode PROVE PutStep(r, a, v, f, i) = PutStep(r, a, v, g, i)
    <3>1. i < GTI_MAX_LEVEL => 2 * i \in (n + 1)..LastNode /\ 2 * i + 1 \in (n + 1)..LastNode
      BY <2>1, Children, NodesAreNumbers
    <3>2. i >= GTI_MAX_LEVEL \/ i < GTI_MAX_LEVEL
      BY <2>1, NodesAreNumbers
    <3> HIDE DEF g
    <3>3. CASE i < GTI_MAX_LEVEL
      <4>1. g[2 * i] = f[2 * i] /\ g[2 * i + 1] = f[2 * i + 1]
        BY <2>3, <3>1, <3>3
      <4>2. QED BY <4>1 DEF PutStep
    <3>4. CASE i >= GTI_MAX_LEVEL
      BY <2>1, <3>4, AboveType, NodesAreNumbers DEF PutStep
    <3>5. QED BY <3>2, <3>3, <3>4
  <2>5. g = [i \in n..LastNode |-> PutStep(r, a, v, g, i)]
    <3>1. \A i \in n..LastNode : g[i] = PutStep(r, a, v, g, i)
      BY <2>4
    <3>2. g = [i \in n..LastNode |-> g[i]]
      OBVIOUS
    <3> HIDE DEF g
    <3>3. QED BY <3>1, <3>2
  <2> HIDE DEF g
  <2>6. QED BY <2>5
<1>2. GTI_ROOT \in Q
  <2> HIDE DEF Q
  <2>1. QED BY <1>1, LeavesUp, NodesAreNumbers
<1>3. \E f : f = [i \in Nodes |-> PutStep(r, a, v, f, i)]
  BY <1>2, NodesAreNumbers DEF GTI_ROOT
<1>4. PutIn(r, a, v) = [i \in Nodes |-> PutStep(r, a, v, PutIn(r, a, v), i)]
  <2>1. PutIn(r, a, v) = CHOOSE f : f = [i \in Nodes |-> PutStep(r, a, v, f, i)]
    BY DEF PutIn, PutStep
  <2>2. QED BY <1>3, <2>1
<1>5. QED BY <1>4

RootOf(d) == IF DOMAIN d = {} THEN EmptyNode[GTI_ROOT] ELSE NodeIn(d)[GTI_ROOT]

\* The abstract tree, with the root it is mapped to.
LEMMA ContentsIs ==
    /\ Contents!At = AtOf(RootOf(data))
    /\ \A i, v : Contents!Put(i, v) = PutIn(RootOf(data), i, v)[GTI_ROOT]
<1>1. RootNode = RootOf(data)
  BY DEF RootNode, RootOf
<1>2. Contents!EmptyNode = EmptyNode /\ Contents!Above = Above
  BY DEF Contents!EmptyNode, EmptyNode, Contents!Above, Above, Contents!Nodes, Nodes,
         Contents!Leaves, Leaves, Contents!BinaryHash, BinaryHash, Contents!Zero, Zero,
         Contents!GTI_ROOT, GTI_ROOT
<1>3. Contents!At = AtOf(RootOf(data))
  BY <1>1, <1>2 DEF Contents!At, AtOf, AtStep, Contents!Nodes, Nodes, Contents!GTI_ROOT, GTI_ROOT,
         Contents!Zero, Zero
<1>4. ASSUME NEW i, NEW v PROVE Contents!Put(i, v) = PutIn(RootOf(data), i, v)[GTI_ROOT]
  BY <1>2, <1>3 DEF Contents!Put, PutIn, PutStep, Contents!Nodes, Nodes,
         Contents!BinaryHash, BinaryHash, Contents!GTI_ROOT, GTI_ROOT
<1>5. QED BY <1>3, <1>4

LEMMA RootNodeIs == RootNode = RootOf(data)
BY DEF RootNode, RootOf

\* The empty value of a node with children is zero or made of theirs, never
\* the mark of a node that does not exist.
LEMMA EmptyIs ==
    \A i \in Nodes :
      /\ EmptyNode[i] # Nothing
      /\ i < GTI_MAX_LEVEL /\ EmptyNode[i] # Zero =>
           EmptyNode[i] = BinaryHash(EmptyNode[2 * i], EmptyNode[2 * i + 1])
BY EmptyUnfolds, Distinct DEF EmptyStep

\* The half of a hash that a child of its node is.
LEMMA HalfOfHash ==
    ASSUME NEW l, NEW r
    PROVE  BinaryHash(l, r)[1] = l /\ BinaryHash(l, r)[2] = r
BY DEF BinaryHash

\* What can be read is the contents.
LEMMA AtIsRead ==
    ASSUME NEW d, TreeOK(d), DOMAIN d # {}
    PROVE  \A i \in Nodes : NodeIn(d)[i] # Nothing => AtOf(RootOf(d))[i] = NodeIn(d)[i]
<1> DEFINE At == AtOf(RootOf(d))
           N == NodeIn(d)
           Q == {i \in Nodes : N[i] # Nothing => At[i] = N[i]}
<1>1. \A i \in Nodes : At[i] = AtStep(RootOf(d), At, i)
  BY AtUnfolds
<1> HIDE DEF At
<1>2. ASSUME NEW i \in Nodes, \A j \in Nodes : j < i => j \in Q PROVE i \in Q
  <2>1. SUFFICES ASSUME N[i] # Nothing PROVE At[i] = N[i]
    OBVIOUS
  <2>2. CASE i = GTI_ROOT
    BY <1>1, <2>2 DEF AtStep, RootOf
  <2>3. CASE i # GTI_ROOT
    <3> DEFINE p == i \div 2
    <3>1. p \in Q
      BY <1>2, <2>3, Parents
    <3>2. N[p] # Nothing /\ N[p] = BinaryHash(N[2 * p], N[2 * p + 1])
      BY <2>1, <2>3, ReadableParent
    <3>3. At[p] = BinaryHash(N[2 * p], N[2 * p + 1]) /\ At[p] # Zero
      BY <3>1, <3>2, Distinct
    <3>4. At[i] = At[p][1 + (i % 2)]
      BY <1>1, <2>3, <3>3 DEF AtStep
    <3>5. \/ i = 2 * p /\ 1 + (i % 2) = 1
          \/ i = 2 * p + 1 /\ 1 + (i % 2) = 2
      BY <2>3, ChildOfParent
    <3> HIDE DEF p, N
    <3>6. QED BY <3>3, <3>4, <3>5, HalfOfHash
  <2>4. QED BY <2>2, <2>3
<1>3. \A i \in Nodes : i \in Q
  <2> HIDE DEF Q
  <2>1. QED BY <1>2, RootDown
<1>4. QED BY <1>3 DEF At

\* Below an empty node everything is empty.
LEMMA AtStaysEmpty ==
    ASSUME NEW r, NEW n \in Nodes, AtOf(r)[n] = EmptyNode[n]
    PROVE  \A i \in Nodes : n \in Above[i] => AtOf(r)[i] = EmptyNode[i]
<1> DEFINE At == AtOf(r)
           Q == {i \in Nodes : n \in Above[i] => At[i] = EmptyNode[i]}
<1>1. \A i \in Nodes : At[i] = AtStep(r, At, i)
  BY AtUnfolds
<1>2. At[n] = EmptyNode[n]
  OBVIOUS
<1> HIDE DEF At
<1>3. ASSUME NEW i \in Nodes, \A j \in Nodes : j < i => j \in Q PROVE i \in Q
  <2>1. SUFFICES ASSUME n \in Above[i] PROVE At[i] = EmptyNode[i]
    OBVIOUS
  <2>2. i # GTI_ROOT
    BY <2>1, AboveRoot
  <2> DEFINE p == i \div 2
  <2>3. p \in Q /\ p \in Nodes /\ p < GTI_MAX_LEVEL
    BY <1>3, <2>2, Parents
  <2>4. At[p] = EmptyNode[p]
    BY <1>2, <2>1, <2>2, <2>3, AboveParent
  <2>5. CASE At[p] = Zero
    BY <1>1, <2>2, <2>5 DEF AtStep
  <2>6. CASE At[p] # Zero
    <3>1. At[p] = BinaryHash(EmptyNode[2 * p], EmptyNode[2 * p + 1])
      BY <2>3, <2>4, <2>6, EmptyIs
    <3>2. At[i] = At[p][1 + (i % 2)]
      BY <1>1, <2>2, <2>6 DEF AtStep
    <3>3. \/ i = 2 * p /\ 1 + (i % 2) = 1
          \/ i = 2 * p + 1 /\ 1 + (i % 2) = 2
      BY <2>2, ChildOfParent
    <3> HIDE DEF p
    <3>4. QED BY <3>1, <3>2, <3>3, HalfOfHash
  <2>7. QED BY <2>5, <2>6
<1>4. \A i \in Nodes : i \in Q
  <2> HIDE DEF Q
  <2>1. QED BY <1>3, RootDown
<1>5. QED BY <1>4 DEF At

\* After a node is placed, what lies beside its line is read as it was.
LEMMA BesideLine ==
    ASSUME NEW d, NEW i, MayPlace(d, i), NEW e, NEW v, Placed(d, e, i, v),
           NEW c \in Line(i), c # GTI_ROOT
    PROVE  /\ NodeIn(e)[Sibling(c)] # Nothing
           /\ NodeIn(e)[Sibling(c)] = AtOf(RootOf(d))[Sibling(c)]
<1> DEFINE o == Sibling(c)
           p == c \div 2
<1>1. TreeOK(d) /\ i \in Nodes /\ Below(i) \cap DOMAIN d = {} /\ DOMAIN d \subseteq Nodes
  BY DEF MayPlace, TreeOK, Typed
<1>2. /\ c \in Nodes /\ o \in Nodes /\ o # GTI_ROOT /\ p \in Nodes /\ p < GTI_MAX_LEVEL
      /\ Above[o] = Line(p) /\ Above[c] = Line(p) /\ o \div 2 = p /\ p \in Above[i]
      /\ \/ c = 2 * p /\ o = 2 * p + 1
         \/ c = 2 * p + 1 /\ o = 2 * p
  <2>1. c \in Nodes
    BY <1>1, LineType
  <2>2. p \in Above[c] /\ Above[c] = Line(p)
    BY <2>1, AboveParent DEF Line
  <2>3. p \in Above[i]
    BY <1>1, <2>2, AboveTransitive DEF Line
  <2>4. QED BY <2>1, <2>2, <2>3, SiblingIs, Parents
<1>3. o \notin Line(i)
  BY <1>1, <1>2, LineThroughChild
<1> HIDE DEF o, p
<1>4. CASE c \in NewNodes(d, i)
  <2>1. o \in Beside(d, i)
    BY <1>4 DEF Beside, o
  <2>2. NodeIn(e)[o] = EmptyNode[o]
    BY <1>2, <2>1, ReadPresent DEF Placed
  <2>3. i \notin DOMAIN d /\ ~ExpandRaises(d, i)
    BY <1>1, <1>4, NothingBeside DEF MayPlace
  <2>4. AtOf(RootOf(d))[o] = EmptyNode[o]
    <3>1. CASE DOMAIN d = {}
      <4>1. AtOf(RootOf(d))[GTI_ROOT] = EmptyNode[GTI_ROOT] /\ GTI_ROOT \in Nodes
        BY <3>1, AtUnfolds, NodesAreNumbers DEF AtStep, RootOf
      <4>2. GTI_ROOT \in Above[o]
        BY <1>2, RootOnLine DEF Line
      <4>3. QED BY <1>2, <4>1, <4>2, AtStaysEmpty
    <3>2. CASE DOMAIN d # {}
      <4>1. PICK f \in Above[i] \cap DOMAIN d :
                 /\ f \in Nodes
                 /\ Frontier(d, i) = {f}
                 /\ NewNodes(d, i) = {m \in Line(i) : f \in Above[m]}
        BY <1>1, <2>3, <3>2, ExpansionCases
      <4>2. d[f] = EmptyNode[f]
        BY <2>3, <4>1 DEF ExpandRaises
      <4>3. AtOf(RootOf(d))[f] = EmptyNode[f]
        BY <1>1, <3>2, <4>1, <4>2, AtIsRead, ReadPresent, EmptyIs
      <4>4. f \in Above[o]
        BY <1>2, <1>4, <4>1
      <4>5. QED BY <1>2, <4>1, <4>3, <4>4, AtStaysEmpty
    <3>3. QED BY <3>1, <3>2
  <2>5. QED BY <1>2, <2>2, <2>4, EmptyIs DEF o
<1>5. CASE c \notin NewNodes(d, i)
  <2>1. PICK y \in DOMAIN d : c \in Line(y)
    <3>1. CASE i \in DOMAIN d
      BY <3>1
    <3>2. CASE i \notin DOMAIN d
      <4>1. PICK f \in Above[i] \cap DOMAIN d :
                 /\ f \in Nodes
                 /\ NewNodes(d, i) = {m \in Line(i) : f \in Above[m]}
        BY <1>1, <1>5, <3>2, ExpansionCases
      <4>2. f \notin Above[c] /\ f \in Line(i)
        BY <1>5, <4>1 DEF Line
      <4>3. ~(f < c)
        BY <1>1, <4>2, LineOrdered
      <4>4. c = f \/ c < f
        BY <1>2, <4>1, <4>3, NodesAreNumbers
      <4>5. QED BY <1>1, <4>1, <4>2, <4>4, LineOrdered DEF Line
    <3>3. QED BY <3>1, <3>2
  <2>2. NodeIn(d)[o] # Nothing
    <3>1. p \in Above[y] /\ y \in Nodes
      BY <1>1, <1>2, <2>1, AboveTransitive DEF Line
    <3>2. CASE p \in DOMAIN d
      <4>1. c \in DOMAIN d
        BY <1>1, <1>2, <2>1, <3>2, PresentBetween DEF TreeOK, Line
      <4>2. o \in DOMAIN d
        BY <1>1, <1>2, <3>2, <4>1 DEF TreeOK, Hashed
      <4>3. QED BY <1>1, <1>2, <4>2, ReadPresent DEF TreeOK, Typed
    <3>3. CASE p \notin DOMAIN d
      <4>1. Line(p) \cap DOMAIN d = {}
        BY <1>1, <2>1, <3>1, <3>3 DEF TreeOK, Connected, Line
      <4>2. NodeIn(d)[p] # Nothing
        BY <1>1, <1>2, <2>1, <4>1, Covered DEF TreeOK
      <4>3. QED BY <1>2, <3>3, <4>2, ReadAbsent
    <3>4. QED BY <3>2, <3>3
  <2>3. NodeIn(d)[o] = NodeIn(e)[o]
    <3>1. ASSUME NEW j \in Nodes, o \in Line(j)
          PROVE  j \notin Above[i] /\ j # i /\ j \notin Beside(d, i)
      <4>1. j \notin Line(i)
        BY <1>1, <1>3, <3>1, LineType
      <4>2. j \notin Beside(d, i)
        <5>1. SUFFICES ASSUME j \in Beside(d, i) PROVE FALSE
          OBVIOUS
        <5>2. PICK m \in NewNodes(d, i) : m # GTI_ROOT /\ j = Sibling(m)
          BY <5>1 DEF Beside
        <5>3. m \in Line(i) /\ m \in Nodes
          BY <1>1, LineType DEF NewNodes, Line
        <5>4. CASE j = o
          <6>1. m \div 2 = p /\ (m = 2 * p \/ m = 2 * p + 1)
            <7>1. j \div 2 = m \div 2
              BY <5>2, <5>3, SiblingIs
            <7>2. m = 2 * (m \div 2) \/ m = 2 * (m \div 2) + 1
              BY <5>2, <5>3, ChildOfParent
            <7>3. m \div 2 = p
              BY <1>2, <5>4, <7>1
            <7>4. QED BY <7>2, <7>3
          <6>2. m # j
            BY <5>2, <5>3, SiblingIs
          <6>3. m = c
            BY <1>2, <5>4, <6>1, <6>2
          <6>4. QED BY <1>5, <6>3
        <5>5. CASE o \in Above[j]
          BY <1>1, <1>3, <5>1, <5>5, BesideIs DEF Line
        <5>6. QED BY <3>1, <5>4, <5>5 DEF Line
      <4>3. QED BY <4>1, <4>2 DEF Line
    <3>2. \A j \in Nodes : o \in Line(j) =>
             (j \in DOMAIN d <=> j \in DOMAIN e) /\ (j \in DOMAIN d => d[j] = e[j])
      BY <3>1 DEF Placed
    <3>3. QED BY <1>2, <3>2, SameBelow
  <2>4. AtOf(RootOf(d))[o] = NodeIn(d)[o]
    BY <1>1, <1>2, <2>1, <2>2, AtIsRead
  <2>5. QED BY <2>2, <2>3, <2>4 DEF o
<1>6. QED BY <1>4, <1>5

\* The root read after a node is placed is that of the contents it is put into.
LEMMA PlacedIsPut ==
    ASSUME NEW d, NEW i, MayPlace(d, i), NEW e, NEW v, v # Nothing, Placed(d, e, i, v)
    PROVE  /\ NodeIn(e)[GTI_ROOT] # Nothing
           /\ NodeIn(e)[GTI_ROOT] = PutIn(RootOf(d), i, v)[GTI_ROOT]
<1>1. i \in Nodes
  BY DEF MayPlace
<1> DEFINE Put == PutIn(RootOf(d), i, v)
           N == NodeIn(e)
           Q == {x \in Nodes : x \in Line(i) => N[x] # Nothing /\ N[x] = Put[x]}
<1>2. \A x \in Nodes : Put[x] = PutStep(RootOf(d), i, v, Put, x)
  BY <1>1, PutUnfolds
<1> HIDE DEF Put
<1>3. ASSUME NEW x \in Nodes, \A k \in Nodes : k > x => k \in Q PROVE x \in Q
  <2>1. CASE x = i
    <3>1. N[x] = v
      BY <1>1, <2>1, ReadPresent DEF Placed
    <3>2. QED BY <1>2, <2>1, <3>1 DEF PutStep
  <2>2. CASE x \in Above[i] /\ x # i
    <3>1. x < GTI_MAX_LEVEL /\ x \notin DOMAIN e
      <4>1. \A s \in Beside(d, i) : s # x
        BY <2>2, BesideIs DEF Line
      <4>2. QED BY <1>1, <2>2, <4>1, AboveType DEF Placed
    <3>2. PICK c \in {2 * x, 2 * x + 1} : c \in Nodes /\ c \in Line(i) /\ c > x
      BY <1>1, <2>2, NextOnLine
    <3>3. N[c] # Nothing /\ N[c] = Put[c]
      BY <1>3, <3>2
    <3> DEFINE o == Sibling(c)
    <3>4. /\ c # GTI_ROOT /\ o \in Nodes
          /\ \/ c = 2 * x /\ o = 2 * x + 1
             \/ c = 2 * x + 1 /\ o = 2 * x
      <4>1. c \in Nodes /\ c # GTI_ROOT /\ c \div 2 = x
        BY <3>1, <3>2, NodesAreNumbers DEF GTI_ROOT
      <4>2. o \in Nodes /\ o = 4 * x + 1 - c
        BY <4>1, SiblingIs DEF Sibling
      <4>3. QED BY <3>1, <3>2, <4>1, <4>2
    <3>5. N[o] # Nothing /\ N[o] = AtOf(RootOf(d))[o]
      BY <3>2, <3>4, BesideLine
    <3>6. o \notin Line(i)
      BY <1>1, <2>2, <3>2, <3>4, LineThroughChild
    <3> HIDE DEF o
    <3>7. Put[o] = N[o]
      BY <1>2, <3>4, <3>5, <3>6 DEF PutStep, Line
    <3>8. /\ N[2 * x] # Nothing /\ N[2 * x + 1] # Nothing
          /\ N[2 * x] = Put[2 * x] /\ N[2 * x + 1] = Put[2 * x + 1]
      BY <3>3, <3>4, <3>5, <3>7
    <3>9. N[x] # Nothing /\ N[x] = BinaryHash(N[2 * x], N[2 * x + 1])
      BY <3>1, <3>8, ReadAbsent
    <3>10. Put[x] = BinaryHash(Put[2 * x], Put[2 * x + 1])
      BY <1>2, <2>2 DEF PutStep
    <3>11. QED BY <3>8, <3>9, <3>10
  <2>3. CASE x \notin Line(i)
    BY <2>3
  <2>4. QED BY <2>1, <2>2, <2>3 DEF Line
<1>4. \A x \in Nodes : x \in Q
  <2> HIDE DEF Q
  <2>1. QED BY <1>3, LeavesUp
<1>5. QED BY <1>1, <1>4, RootOnLine, NodesAreNumbers DEF Put

\* Placing a node keeps the invariant.
LEMMA PlacedKeepsTree ==
    ASSUME NEW d, NEW i, MayPlace(d, i), NEW e, NEW v, v # Nothing, Placed(d, e, i, v)
    PROVE  TreeOK(e) /\ DOMAIN e # {}
<1>1. TreeOK(d) /\ i \in Nodes /\ Below(i) \cap DOMAIN d = {} /\ DOMAIN d \subseteq Nodes
  BY DEF MayPlace, TreeOK, Typed
<1>2. /\ DOMAIN e = (DOMAIN d \ Above[i]) \cup {i} \cup Beside(d, i)
      /\ e[i] = v
      /\ \A j \in DOMAIN d \ Above[i] : j # i => e[j] = d[j]
      /\ \A s \in Beside(d, i) : e[s] = EmptyNode[s]
  BY DEF Placed
<1>3. \A s \in Beside(d, i) :
         /\ s \in Nodes /\ s # GTI_ROOT /\ s \div 2 \in Above[i] /\ Above[s] \subseteq Above[i]
         /\ s \notin Line(i) /\ s \notin DOMAIN d /\ \A x \in DOMAIN d : s \notin Above[x]
  BY BesideIs
<1>4. \A x \in DOMAIN d : i \notin Above[x]
  BY <1>1 DEF Below
<1>5. \A b \in Above[i] : b \notin DOMAIN e
  BY <1>1, <1>2, <1>3, AboveType, NodesAreNumbers DEF Line
<1>6. Typed(e)
  BY <1>1, <1>2, <1>3, EmptyIs DEF TreeOK, Typed
<1>7. Connected(e)
  <2>1. SUFFICES ASSUME NEW j \in DOMAIN e, NEW a \in Above[j], a \notin DOMAIN e,
                        NEW b \in Above[a], b \in DOMAIN e
                 PROVE  FALSE
    BY DEF Connected
  <2>2. j \in Nodes /\ a \in Nodes
    BY <1>6, AboveType DEF Typed
  <2>3. a \notin Above[i]
    BY <1>1, <1>5, <2>1, AboveTransitive
  <2>4. j \in DOMAIN d
    BY <1>2, <1>3, <2>1, <2>3
  <2>5. a \notin DOMAIN d
    BY <1>2, <2>1, <2>3
  <2>6. b \in Above[j]
    BY <2>1, <2>2, AboveTransitive
  <2>7. b \in DOMAIN d
    BY <1>2, <1>3, <1>4, <2>1, <2>4, <2>6
  <2>8. QED BY <1>1, <2>1, <2>4, <2>5, <2>7 DEF TreeOK, Connected
<1>8. Hashed(e)
  <2>1. SUFFICES ASSUME NEW j \in DOMAIN e, j < GTI_MAX_LEVEL
                 PROVE  /\ 2 * j \in DOMAIN e <=> 2 * j + 1 \in DOMAIN e
                        /\ 2 * j \in DOMAIN e => e[j] = BinaryHash(e[2 * j], e[2 * j + 1])
    BY DEF Hashed
  <2>2. j \in Nodes /\ j \notin Above[i]
    BY <1>5, <1>6, <2>1 DEF Typed
  <2>3. ASSUME NEW c \in {2 * j, 2 * j + 1}
        PROVE  c \notin Line(i) /\ c \notin Beside(d, i) /\ j \in Above[c]
    <3>1. c # GTI_ROOT /\ c \in Nodes /\ c \div 2 = j /\ j \in Above[c]
      BY <2>1, <2>2, Children, AboveChild
    <3>2. c \notin Line(i)
      BY <1>1, <2>2, <3>1, AboveTransitive DEF Line
    <3>3. c \notin Beside(d, i)
      BY <1>3, <2>2, <3>1
    <3>4. QED BY <3>1, <3>2, <3>3
  <2>4. \A c \in {2 * j, 2 * j + 1} : c \in DOMAIN e <=> c \in DOMAIN d
    BY <1>2, <2>3 DEF Line
  <2>5. CASE j \in DOMAIN d /\ j # i
    <3>1. e[j] = d[j] /\ \A c \in {2 * j, 2 * j + 1} : c \in DOMAIN d => e[c] = d[c]
      BY <1>2, <2>2, <2>3, <2>5 DEF Line
    <3>2. QED BY <1>1, <2>1, <2>4, <2>5, <3>1 DEF TreeOK, Hashed
  <2>6. CASE j = i \/ j \in Beside(d, i)
    <3>1. \A c \in {2 * j, 2 * j + 1} : c \notin DOMAIN d
      BY <1>3, <1>4, <2>3, <2>6
    <3>2. QED BY <2>4, <3>1
  <2>7. QED BY <1>2, <2>1, <2>5, <2>6
<1>9. Rooted(e)
  BY PlacedIsPut DEF Rooted
<1>10. QED BY <1>2, <1>6, <1>7, <1>8, <1>9 DEF TreeOK

-----------------------------------------------------------------------------
(* What refused calls leave. *)

\* A refused expansion has only added nodes below a present one.
LEMMA RefusedExpansion ==
    ASSUME NEW d, NEW i \in Nodes, i \notin DOMAIN d, ExpandRaises(d, i)
    PROVE  /\ DOMAIN AfterExpand(d, i) # {} /\ DOMAIN d # {}
           /\ NodeIn(AfterExpand(d, i))[GTI_ROOT] = NodeIn(d)[GTI_ROOT]
<1>1. PICK n \in Frontier(d, i) : d[n] # EmptyNode[n]
  BY DEF ExpandRaises
<1> DEFINE path == [m \in NewNodes(d, i) |-> EmptyNode[m]]
           e == AfterExpand(d, i)
<1>2. n \in Line(i) /\ n \in DOMAIN d /\ n \in Nodes
  BY LineType DEF Frontier, Line
<1>3. e = Updated(d, path)
  BY DEF AfterExpand
<1>4. \A m \in NewNodes(d, i) : m \in Nodes /\ m \notin DOMAIN d /\ n \in Above[m]
  <2>1. SUFFICES ASSUME NEW m \in NewNodes(d, i)
                 PROVE  m \in Nodes /\ m \notin DOMAIN d /\ n \in Above[m]
    OBVIOUS
  <2>2. m \in Line(i) /\ m \in Nodes
    BY LineType DEF NewNodes, Line
  <2>3. m \in PathUp(i, m)
    BY <2>2, PathUpIs DEF Line
  <2>4. n \notin PathUp(i, m) /\ m \notin DOMAIN d
    BY <1>2, <2>3 DEF NewNodes
  <2>5. m \notin Line(n)
    BY <1>2, <2>2, <2>4, PathUpIs
  <2>6. n < m
    <3>1. ~(m < n) /\ m # n
      BY <1>2, <2>2, <2>5, LineOrdered DEF Line
    <3>2. QED BY <1>2, <2>2, <3>1, NodesAreNumbers
  <2>7. QED BY <1>2, <2>2, <2>4, <2>6, LineOrdered
<1>5. /\ DOMAIN e = DOMAIN d \cup NewNodes(d, i)
      /\ \A j \in DOMAIN d : e[j] = d[j]
  <2>1. DOMAIN path = NewNodes(d, i)
    OBVIOUS
  <2> HIDE DEF path, e
  <2>2. /\ DOMAIN Updated(d, path) = DOMAIN d \cup DOMAIN path
        /\ \A j \in DOMAIN d : j \notin DOMAIN path => Updated(d, path)[j] = d[j]
    BY UpdatedIs
  <2>3. QED BY <1>3, <1>4, <2>1, <2>2
<1> HIDE DEF e
<1>6. \A j \in Nodes : n \notin Above[j] =>
         (j \in DOMAIN d <=> j \in DOMAIN e) /\ (j \in DOMAIN d => d[j] = e[j])
  BY <1>4, <1>5
<1>7. n \notin Above[GTI_ROOT] /\ GTI_ROOT \in Nodes
  BY AboveRoot, NodesAreNumbers
<1>8. NodeIn(d)[GTI_ROOT] = NodeIn(e)[GTI_ROOT]
  BY <1>2, <1>6, <1>7, SameElsewhere
<1>9. DOMAIN d # {} /\ DOMAIN e # {}
  BY <1>2, <1>5
<1>10. QED BY <1>8, <1>9 DEF e

\* A read that fails has changed no reading.
LEMMA RefusedGet ==
    ASSUME NEW d, NEW i \in Nodes
    PROVE  /\ DOMAIN AfterGet(d, i) = {} <=> DOMAIN d = {}
           /\ NodeIn(AfterGet(d, i))[GTI_ROOT] = NodeIn(d)[GTI_ROOT]
BY GetOfNothing, GetChangesNothing, NodesAreNumbers

-----------------------------------------------------------------------------
(* The operations keep the invariant and implement those of the contents. *)

\* What is expanded was empty.
LEMMA ExpandedWasEmpty ==
    ASSUME NEW d, NEW i, MayPlace(d, i), i \notin DOMAIN d
    PROVE  AtOf(RootOf(d))[i] = EmptyNode[i]
<1>1. TreeOK(d) /\ i \in Nodes /\ Below(i) \cap DOMAIN d = {} /\ ~ExpandRaises(d, i)
  BY DEF MayPlace
<1>2. CASE DOMAIN d = {}
  <2>1. AtOf(RootOf(d))[GTI_ROOT] = EmptyNode[GTI_ROOT] /\ GTI_ROOT \in Nodes
    BY <1>2, AtUnfolds, NodesAreNumbers DEF AtStep, RootOf
  <2>2. i = GTI_ROOT \/ GTI_ROOT \in Above[i]
    BY <1>1, RootOnLine DEF Line
  <2>3. QED BY <1>1, <2>1, <2>2, AtStaysEmpty
<1>3. CASE DOMAIN d # {}
  <2>1. PICK f \in Above[i] \cap DOMAIN d : f \in Nodes /\ Frontier(d, i) = {f}
    BY <1>1, <1>3, ExpansionCases
  <2>2. d[f] = EmptyNode[f]
    BY <1>1, <2>1 DEF ExpandRaises
  <2>3. AtOf(RootOf(d))[f] = EmptyNode[f]
    BY <1>1, <1>3, <2>1, <2>2, AtIsRead, ReadPresent, EmptyIs
  <2>4. QED BY <1>1, <2>1, <2>3, AtStaysEmpty
<1>4. QED BY <1>2, <1>3

LEMMA LeavesHaveNoneBelow ==
    \A i \in Leaves : i \in Nodes /\ Below(i) = {}
BY AboveType, NodesAreNumbers DEF Leaves, Nodes, Below

\* The root after a call of which only the readings of the root are known.
LEMMA SameRoot ==
    ASSUME DOMAIN data' = {} <=> DOMAIN data = {},
           NodeIn(data')[GTI_ROOT] = NodeIn(data)[GTI_ROOT]
    PROVE  UNCHANGED RootNode
BY DEF RootNode

\* An expansion is refused at a node that is in use.
LEMMA RefusedIsInUse ==
    ASSUME NEW i \in Nodes, TreeOK(data), ExpandRaises(data, i)
    PROVE  Contents!InUse(i)
<1>1. PICK n \in Frontier(data, i) : data[n] # EmptyNode[n]
  BY DEF ExpandRaises
<1>2. n \in Line(i) /\ n \in DOMAIN data /\ n \in Nodes
  BY <1>1, LineType DEF Frontier, Line
<1>3. NodeIn(data)[n] = data[n] /\ data[n] # Nothing
  BY <1>2, ReadPresent DEF TreeOK, Typed
<1>4. Contents!At[n] = data[n]
  BY <1>2, <1>3, AtIsRead, ContentsIs
<1>5. Contents!EmptyNode = EmptyNode /\ Contents!Above = Above
  BY DEF Contents!EmptyNode, EmptyNode, Contents!Above, Above, Contents!Nodes, Nodes,
         Contents!Leaves, Leaves, Contents!BinaryHash, BinaryHash, Contents!Zero, Zero,
         Contents!GTI_ROOT, GTI_ROOT
<1>6. QED BY <1>1, <1>2, <1>4, <1>5 DEF Contents!InUse, Line

\* Putting into a present node what it contains leaves the root: all that
\* contains it is hashed already.
LEMMA OpenedAlready ==
    ASSUME NEW d, TreeOK(d), NEW i \in Nodes, i \in DOMAIN d
    PROVE  PutIn(RootOf(d), i, AtOf(RootOf(d))[i])[GTI_ROOT] = RootOf(d)
<1> DEFINE At == AtOf(RootOf(d))
           Put == PutIn(RootOf(d), i, At[i])
           N == NodeIn(d)
           Q == {x \in Nodes : x \in Line(i) => N[x] # Nothing /\ Put[x] = At[x]}
<1>1. \A x \in Nodes : Put[x] = PutStep(RootOf(d), i, At[i], Put, x)
  BY PutUnfolds
<1>2. \A x \in Nodes : N[x] # Nothing => At[x] = N[x]
  BY AtIsRead
<1>3. N[i] # Nothing
  BY ReadPresent DEF TreeOK, Typed
<1>4. \A x \in Nodes : x # i => Put[x] = IF x \in Above[i] THEN BinaryHash(Put[2 * x], Put[2 * x + 1])
                                                            ELSE At[x]
  BY <1>1 DEF PutStep
<1>5. Put[i] = At[i]
  BY <1>1 DEF PutStep
<1> HIDE DEF Put, At
<1>6. ASSUME NEW x \in Nodes, \A k \in Nodes : k > x => k \in Q PROVE x \in Q
  <2>1. CASE x = i
    BY <1>3, <1>5, <2>1
  <2>2. CASE x \in Above[i] /\ x # i
    <3>1. x < GTI_MAX_LEVEL
      BY <2>2, AboveType
    <3>2. PICK c \in {2 * x, 2 * x + 1} : c \in Nodes /\ c \in Line(i) /\ c > x
      BY <2>2, NextOnLine
    <3>3. c # GTI_ROOT /\ c \div 2 = x
      BY <3>1, <3>2, NodesAreNumbers DEF GTI_ROOT
    <3>4. N[c] # Nothing /\ Put[c] = At[c]
      BY <1>6, <3>2
    <3>5. N[x] # Nothing /\ N[x] = BinaryHash(N[2 * x], N[2 * x + 1])
      BY <3>2, <3>3, <3>4, ReadableParent
    <3>6. At[x] = BinaryHash(At[2 * x], At[2 * x + 1])
      <4>1. At[x] # Zero /\ At[x] = <<N[2 * x], N[2 * x + 1]>>
        BY <1>2, <3>5, Distinct DEF BinaryHash
      <4>2. 2 * x \in Nodes /\ 2 * x + 1 \in Nodes
        BY <3>1, Children
      <4>3. x \in Nat /\ x >= 1
        BY NodesAreNumbers
      <4>4. /\ (2 * x) \div 2 = x /\ (2 * x + 1) \div 2 = x
            /\ 1 + ((2 * x) % 2) = 1 /\ 1 + ((2 * x + 1) % 2) = 2
            /\ 2 * x # GTI_ROOT /\ 2 * x + 1 # GTI_ROOT
        BY <4>3 DEF GTI_ROOT
      <4>5. \A k \in Nodes : k # GTI_ROOT /\ At[k \div 2] # Zero
                                => At[k] = At[k \div 2][1 + (k % 2)]
        BY AtUnfolds DEF At, AtStep
      <4>6. At[2 * x] = At[x][1] /\ At[2 * x + 1] = At[x][2]
        <5>1. At[2 * x] = At[x][1 + ((2 * x) % 2)]
          BY <4>1, <4>2, <4>4, <4>5
        <5>2. At[2 * x + 1] = At[x][1 + ((2 * x + 1) % 2)]
          BY <4>1, <4>2, <4>4, <4>5
        <5>3. QED BY <4>4, <5>1, <5>2
      <4>7. QED BY <4>1, <4>6 DEF BinaryHash
    <3>7. Put[2 * x] = At[2 * x] /\ Put[2 * x + 1] = At[2 * x + 1]
      <4>1. 2 * x \in Nodes /\ 2 * x + 1 \in Nodes /\ x \in Above[i]
        BY <2>2, <3>1, Children
      <4>2. ~(2 * x \in Line(i) /\ 2 * x + 1 \in Line(i))
        BY <2>2, LineThroughChild
      <4>3. \A o \in Nodes : o \notin Line(i) => Put[o] = At[o]
        BY <1>4 DEF Line
      <4>4. QED BY <3>2, <3>4, <4>1, <4>2, <4>3
    <3>8. QED BY <1>4, <2>2, <3>5, <3>6, <3>7
  <2>3. CASE x \notin Line(i)
    BY <2>3
  <2>4. QED BY <2>1, <2>2, <2>3 DEF Line
<1>7. \A x \in Nodes : x \in Q
  <2> HIDE DEF Q
  <2>1. QED BY <1>6, LeavesUp
<1>8. Put[GTI_ROOT] = At[GTI_ROOT]
  BY <1>7, RootOnLine, NodesAreNumbers
<1>9. At[GTI_ROOT] = RootOf(d)
  BY AtUnfolds, NodesAreNumbers DEF At, AtStep
<1>10. QED BY <1>8, <1>9 DEF Put, At

LEMMA GetStep ==
    ASSUME Inv, NEW i \in Touched, Get(i)
    PROVE  /\ Inv'
           /\ NodeIn(data')[GTI_ROOT] = NodeIn(data)[GTI_ROOT]
           /\ IF raised' THEN Contents!Refuse(i) ELSE Contents!Get(i)
<1>1. /\ i \in Nodes /\ TreeOK(data) /\ data' = AfterGet(data, i)
      /\ raised' = GetRaises(data, i)
      /\ call' = IF raised' THEN <<"get", i>> ELSE <<"get", i, data'[i]>>
  BY TouchedAssumption DEF Get, Inv
<1>2. /\ DOMAIN data' = {} <=> DOMAIN data = {}
      /\ NodeIn(data')[GTI_ROOT] = NodeIn(data)[GTI_ROOT]
  BY <1>1, RefusedGet
<1>3. Inv' /\ UNCHANGED RootNode
  BY <1>1, <1>2, GetKeepsTree, SameRoot DEF Inv
<1>4. CASE raised'
  BY <1>1, <1>2, <1>3, <1>4 DEF Contents!Refuse
<1>5. CASE ~raised'
  <2>1. NodeIn(data)[i] # Nothing /\ Typed(data)
    BY <1>1, <1>5 DEF GetRaises, TreeOK
  <2>2. DOMAIN data # {}
    BY <1>1, <2>1, ReadableAbovePresent
  <2>3. NodeIn(data')[i] = data'[i]
    BY <1>1, <1>5, GetKeepsTree, ReadPresent
  <2>4. data'[i] = NodeIn(data)[i]
    BY <1>1, <2>3, GetChangesNothing
  <2>5. Contents!At[i] = data'[i]
    BY <1>1, <2>1, <2>2, <2>4, AtIsRead, ContentsIs
  <2>6. QED BY <1>1, <1>2, <1>3, <1>5, <2>5 DEF Contents!Get
<1>6. QED BY <1>4, <1>5

LEMMA CollapseStep ==
    ASSUME Inv, NEW i \in Touched, Collapse(i)
    PROVE  /\ Inv'
           /\ NodeIn(data')[GTI_ROOT] = NodeIn(data)[GTI_ROOT]
           /\ IF raised' THEN Contents!Refuse(i) ELSE Contents!Collapse(i)
<1>1. /\ i \in Nodes /\ TreeOK(data)
      /\ data' = AfterCollapse(data, i) /\ raised' = GetRaises(data, i)
      /\ call' = <<"collapse", i>>
  BY TouchedAssumption DEF Collapse, Inv
<1>2. CASE GetRaises(data, i)
  <2>1. data' = AfterGet(data, i)
    BY <1>1, <1>2 DEF AfterCollapse
  <2>2. /\ DOMAIN data' = {} <=> DOMAIN data = {}
        /\ NodeIn(data')[GTI_ROOT] = NodeIn(data)[GTI_ROOT]
    BY <1>1, <2>1, RefusedGet
  <2>3. QED BY <1>1, <1>2, <2>2, SameRoot DEF Inv, Contents!Refuse
<1>3. CASE ~GetRaises(data, i)
  <2>1. /\ TreeOK(data') /\ DOMAIN data' # {}
        /\ NodeIn(data')[GTI_ROOT] = NodeIn(data)[GTI_ROOT]
    BY <1>1, <1>3, CollapseKeepsTree
  <2>2. DOMAIN data # {}
    <3>1. Typed(data) /\ NodeIn(data)[i] # Nothing
      BY <1>1, <1>3 DEF TreeOK, GetRaises
    <3>2. QED BY <1>1, <3>1, ReadableAbovePresent
  <2>3. QED BY <1>1, <1>3, <2>1, <2>2, SameRoot DEF Inv, Contents!Collapse
<1>4. QED BY <1>2, <1>3

LEMMA ExpandStep ==
    ASSUME Inv, NEW i \in Touched, Expand(i)
    PROVE  /\ Inv'
           /\ raised' => NodeIn(data')[GTI_ROOT] = NodeIn(data)[GTI_ROOT]
           /\ IF raised' THEN Contents!Refuse(i) ELSE Contents!Expand(i)
<1>1. /\ i \in Nodes /\ TreeOK(data)
      /\ i \in DOMAIN data \/ Below(i) \cap DOMAIN data = {}
      /\ data' = AfterExpand(data, i) /\ raised' = ExpandRaises(data, i)
      /\ call' = <<"expand", i>>
  BY TouchedAssumption DEF Expand, Inv
<1>2. raised' => Contents!InUse(i)
  BY <1>1, RefusedIsInUse
<1>3. CASE i \in DOMAIN data
  <2>1. data' = data /\ RootNode' = RootNode
    BY <1>1, <1>3 DEF AfterExpand, RootNode
  <2>2. RootNode = Contents!Put(i, Contents!At[i])
    BY <1>1, <1>3, OpenedAlready, ContentsIs, RootNodeIs
  <2>3. Contents!Refuse(i) \/ ~raised'
    BY <1>1, <1>2, <2>1 DEF Contents!Refuse
  <2>4. QED BY <1>1, <2>1, <2>2, <2>3 DEF Inv, Contents!Expand
<1>4. CASE i \notin DOMAIN data /\ ExpandRaises(data, i)
  <2>1. /\ DOMAIN data' # {} /\ DOMAIN data # {}
        /\ NodeIn(data')[GTI_ROOT] = NodeIn(data)[GTI_ROOT]
    BY <1>1, <1>4, RefusedExpansion
  <2>2. QED BY <1>1, <1>2, <1>4, <2>1, SameRoot DEF Inv, Contents!Refuse
<1>5. CASE i \notin DOMAIN data /\ ~ExpandRaises(data, i)
  <2>1. MayPlace(data, i)
    BY <1>1, <1>5 DEF MayPlace
  <2>2. Placed(data, data', i, EmptyNode[i]) /\ EmptyNode[i] # Nothing
    BY <1>1, <1>5, <2>1, ExpandPlaces, EmptyIs
  <2>3. TreeOK(data') /\ DOMAIN data' # {}
    BY <2>1, <2>2, PlacedKeepsTree
  <2>4. NodeIn(data')[GTI_ROOT] = PutIn(RootOf(data), i, EmptyNode[i])[GTI_ROOT]
    BY <2>1, <2>2, PlacedIsPut
  <2>5. Contents!At[i] = EmptyNode[i]
    BY <1>5, <2>1, ExpandedWasEmpty, ContentsIs
  <2>6. RootNode' = Contents!Put(i, Contents!At[i])
    BY <2>3, <2>4, <2>5, ContentsIs DEF RootNode
  <2>7. QED BY <1>1, <1>5, <2>3, <2>6 DEF Inv, Contents!Expand
<1>6. QED BY <1>3, <1>4, <1>5

LEMMA SetStep ==
    ASSUME Inv, NEW i \in Touched \cap Leaves, NEW v \in Values, Set(i, v)
    PROVE  /\ Inv'
           /\ raised' => NodeIn(data')[GTI_ROOT] = NodeIn(data)[GTI_ROOT]
           /\ IF raised' THEN Contents!Refuse(i) ELSE Contents!Set(i, v)
<1>1. /\ i \in Nodes /\ Below(i) = {} /\ TreeOK(data)
      /\ data' = AfterSet(data, i, v) /\ raised' = SetRaises(data, i)
      /\ v # Nothing /\ call' = <<"set", i, v>>
  BY LeavesHaveNoneBelow, ValueAssumption DEF Set, Inv
<1>2. CASE SetRaises(data, i)
  <2>1. i \notin DOMAIN data /\ ExpandRaises(data, i) /\ data' = AfterExpand(data, i)
    BY <1>1, <1>2 DEF SetRaises, AfterSet
  <2>2. /\ DOMAIN data' # {} /\ DOMAIN data # {}
        /\ NodeIn(data')[GTI_ROOT] = NodeIn(data)[GTI_ROOT]
    BY <1>1, <2>1, RefusedExpansion
  <2>3. Contents!InUse(i)
    BY <1>1, <2>1, RefusedIsInUse
  <2>4. QED BY <1>1, <1>2, <2>2, <2>3, SameRoot DEF Inv, Contents!Refuse
<1>3. CASE ~SetRaises(data, i)
  <2>1. MayPlace(data, i)
    BY <1>1, <1>3 DEF MayPlace, SetRaises
  <2>2. Placed(data, data', i, v)
    BY <1>1, <2>1, SetPlaces
  <2>3. TreeOK(data') /\ DOMAIN data' # {}
    BY <1>1, <2>1, <2>2, PlacedKeepsTree
  <2>4. NodeIn(data')[GTI_ROOT] = PutIn(RootOf(data), i, v)[GTI_ROOT]
    BY <1>1, <2>1, <2>2, PlacedIsPut
  <2>5. RootNode' = Contents!Put(i, v)
    BY <2>3, <2>4, ContentsIs DEF RootNode
  <2>6. QED BY <1>1, <1>3, <2>3, <2>5 DEF Inv, Contents!Set
<1>4. QED BY <1>2, <1>3

-----------------------------------------------------------------------------
(* The theorems. *)

\* A tree without nodes is in order.
LEMMA InitiallyInOrder == Init => Inv
<1>1. DOMAIN <<>> = {}
  OBVIOUS
<1>2. SUFFICES ASSUME Init PROVE TreeOK(data)
  BY DEF Inv
<1>3. DOMAIN data = {}
  BY <1>1, <1>2 DEF Init
<1>4. QED BY <1>3 DEF TreeOK, Typed, Connected, Hashed, Rooted

LEMMA StepKeepsInvariant == Inv /\ [Next]_vars => Inv'
<1>1. SUFFICES ASSUME Inv, [Next]_vars PROVE Inv'
  OBVIOUS
<1>2. ASSUME NEW i \in Touched, Get(i) \/ Expand(i) \/ Collapse(i) PROVE Inv'
  BY <1>1, <1>2, GetStep, ExpandStep, CollapseStep
<1>3. ASSUME NEW i \in Touched \cap Leaves, NEW v \in Values, Set(i, v) PROVE Inv'
  BY <1>1, <1>3, SetStep
<1>4. CASE UNCHANGED vars
  BY <1>1, <1>4 DEF Inv, vars
<1>5. QED BY <1>1, <1>2, <1>3, <1>4 DEF Next

\* Between calls of btree_get, btree_set, btree_expand and btree_collapse the
\* dictionary is connected, hashed and can be read from its root.
THEOREM TreeInvariance == Spec => []Inv
<1>1. QED BY InitiallyInOrder, StepKeepsInvariant, PTL DEF Spec

\* _invalidate_ancestors may stop at the first absent node: no ancestor of an
\* absent node that has present nodes below it is present.
THEOREM InvalidationComplete == Spec => []InvalidatedUpwards
<1>1. Inv => InvalidatedUpwards
  BY DEF Inv, TreeOK, Connected, InvalidatedUpwards
<1>2. QED BY <1>1, TreeInvariance, PTL

\* What btree_get caches is never stale: a cached hash is the one that reading
\* everything below it again gives.
THEOREM CachesFresh == Spec => []CachedIsFresh
<1>1. ASSUME TreeOK(data) PROVE CachedIsFresh
  <2> DEFINE inner == {j \in DOMAIN data : Below(j) \cap DOMAIN data # {}}
             u == Without(data, inner)
             Q == {j \in Nodes : j \in DOMAIN data => NodeIn(u)[j] = data[j]}
  <2>1. /\ DOMAIN u = DOMAIN data \ inner
        /\ \A j \in DOMAIN data \ inner : u[j] = data[j]
    <3> HIDE DEF inner
    <3>1. QED BY WithoutIs
  <2> HIDE DEF u
  <2>2. ASSUME NEW j \in Nodes, \A k \in Nodes : k > j => k \in Q PROVE j \in Q
    <3>1. SUFFICES ASSUME j \in DOMAIN data PROVE NodeIn(u)[j] = data[j]
      OBVIOUS
    <3>2. CASE j \notin inner
      BY <2>1, <3>1, <3>2, ReadPresent
    <3>3. CASE j \in inner
      <4>1. PICK x \in DOMAIN data : x \in Nodes /\ j \in Above[x]
        BY <3>3 DEF Below
      <4>2. PICK c \in {2 * j, 2 * j + 1} : c \in Nodes /\ c \in Line(x) /\ j \in Above[c]
        BY <4>1, NextOnLine
      <4>3. c \in DOMAIN data /\ j < GTI_MAX_LEVEL
        BY <1>1, <3>1, <4>1, <4>2, PresentBetween, AboveType DEF TreeOK, Line
      <4>4. /\ 2 * j \in DOMAIN data /\ 2 * j + 1 \in DOMAIN data
            /\ data[j] = BinaryHash(data[2 * j], data[2 * j + 1])
        BY <1>1, <3>1, <4>2, <4>3 DEF TreeOK, Hashed
      <4>5. NodeIn(u)[2 * j] = data[2 * j] /\ NodeIn(u)[2 * j + 1] = data[2 * j + 1]
        BY <2>2, <4>3, <4>4, Children
      <4>6. j \notin DOMAIN u
        BY <2>1, <3>3
      <4>7. data[2 * j] # Nothing /\ data[2 * j + 1] # Nothing
        BY <1>1, <4>4 DEF TreeOK, Typed
      <4>8. QED BY <4>3, <4>4, <4>5, <4>6, <4>7, ReadAbsent
    <3>4. QED BY <3>2, <3>3
  <2>3. \A j \in Nodes : j \in Q
    <3> HIDE DEF Q
    <3>1. QED BY <2>2, LeavesUp
  <2>4. \A j \in inner : data[j] = NodeIn(u)[j]
    BY <1>1, <2>3 DEF TreeOK, Typed
  <2>5. QED BY <2>4 DEF CachedIsFresh, u
<1>2. Inv => CachedIsFresh
  BY <1>1 DEF Inv, CachedIsFresh
<1>3. QED BY <1>2, TreeInvariance, PTL

\* A call that raises an AssertionError half way leaves the root as it was.
THEOREM RefusalsKeepRoot == Spec => RefusalKeepsRoot
<1> DEFINE Kept == raised' /\ DOMAIN data # {} =>
                     NodeIn(data')[GTI_ROOT] = NodeIn(data)[GTI_ROOT]
<1>1. ASSUME Inv, [Next]_vars PROVE [Kept]_vars
  <2>1. ASSUME NEW i \in Touched, Get(i) \/ Expand(i) \/ Collapse(i) PROVE Kept
    BY <1>1, <2>1, GetStep, ExpandStep, CollapseStep
  <2>2. ASSUME NEW i \in Touched \cap Leaves, NEW v \in Values, Set(i, v) PROVE Kept
    BY <1>1, <2>2, SetStep
  <2> HIDE DEF Kept
  <2>3. QED BY <1>1, <2>1, <2>2 DEF Next
<1>2. QED BY <1>1, TreeInvariance, PTL DEF Spec, RefusalKeepsRoot

\* The lazily hashed tree implements its contents call by call: btree_get
\* returns what its node contains, btree_set puts its value into its leaf and
\* nothing else, btree_expand opens the containers around its node, and get,
\* collapse and every refused call change nothing.
THEOREM TreeImplementsContents == Spec => ContentsSpec
<1>1. Init => Contents!Init
  <2>1. DOMAIN <<>> = {}
    OBVIOUS
  <2>2. Contents!EmptyNode = EmptyNode /\ Contents!GTI_ROOT = GTI_ROOT
    BY DEF Contents!EmptyNode, EmptyNode, Contents!Nodes, Nodes, Contents!Leaves, Leaves,
           Contents!BinaryHash, BinaryHash, Contents!Zero, Zero, Contents!GTI_ROOT, GTI_ROOT
  <2>3. QED BY <2>1, <2>2 DEF Init, Contents!Init, RootNode
<1>2. ASSUME Inv, [Next]_vars PROVE [Contents!Next]_(Contents!contentsVars)
  <2>1. Contents!Nodes = Nodes /\ Contents!Leaves = Leaves
    BY DEF Contents!Nodes, Nodes, Contents!Leaves, Leaves
  <2>2. ASSUME NEW i \in Touched, Get(i) \/ Expand(i) \/ Collapse(i) PROVE Contents!Next
    <3>1. i \in Contents!Nodes /\ ~raised
      BY <2>1, <2>2, TouchedAssumption DEF Get, Expand, Collapse
    <3>2. IF raised' THEN Contents!Refuse(i)
          ELSE Contents!Get(i) \/ Contents!Expand(i) \/ Contents!Collapse(i)
      BY <1>2, <2>2, GetStep, ExpandStep, CollapseStep
    <3>3. QED BY <3>1, <3>2 DEF Contents!Next, Contents!Succeed
  <2>3. ASSUME NEW i \in Touched \cap Leaves, NEW v \in Values, Set(i, v) PROVE Contents!Next
    <3>1. i \in Contents!Nodes /\ i \in Contents!Leaves /\ ~raised
      BY <2>1, <2>3, TouchedAssumption DEF Set
    <3>2. IF raised' THEN Contents!Refuse(i) ELSE Contents!Set(i, v)
      BY <1>2, <2>3, SetStep
    <3>3. QED BY <3>1, <3>2 DEF Contents!Next, Contents!Succeed
  <2>4. CASE UNCHANGED vars
    BY <2>4 DEF vars, RootNode, Contents!contentsVars
  <2>5. QED BY <1>2, <2>2, <2>3, <2>4 DEF Next
<1>3. QED BY <1>1, <1>2, TreeInvariance, PTL DEF Spec, ContentsSpec, Contents!Spec
=============================================================================
