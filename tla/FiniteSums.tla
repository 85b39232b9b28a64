----------------------------- MODULE FiniteSums -----------------------------
(***************************************************************************)
(* Facts about SumFunctionOnSet(f, S), the sum of a function over a finite   *)
(* set: holdings of an account, scores of an oracle, payments of a           *)
(* collateral.  The sum is a fold by a recursive function that takes the      *)
(* elements in an order CHOOSE picks; that the function exists, and that the   *)
(* order does not matter, is proved by induction.  Induction is stated for a   *)
(* set of numbers, or of sets, since a theorem about every predicate cannot be *)
(* applied by the provers.                                                   *)
(***************************************************************************)
EXTENDS Integers, FiniteSets, Functions, FiniteSetTheorems, TLAPS

\* Induction: a set of numbers with 0 and with n + 1 for each n holds them all.
LEMMA NumberInduction ==
    ASSUME NEW Q, 0 \in Q, \A n \in Nat : n \in Q => n + 1 \in Q
    PROVE  \A n \in Nat : n \in Q
<1> DEFINE Bad == {0..n : n \in Nat \ Q}
<1>1. SUFFICES ASSUME Bad # {} PROVE FALSE
  OBVIOUS
<1>2. Bad \subseteq FiniteSubsetsOf(Nat)
  <2>1. \A n \in Nat : 0..n \in SUBSET Nat /\ IsFiniteSet(0..n)
    BY FS_Interval
  <2>2. QED BY <2>1 DEF FiniteSubsetsOf
<1>3. IsWellFoundedOn(StrictSubsetOrdering(Nat), FiniteSubsetsOf(Nat))
  BY FS_StrictSubsetOrderingWellFounded
<1>4. PICK T \in Bad : \A U \in Bad : ~(<<U, T>> \in StrictSubsetOrdering(Nat))
  <2> HIDE DEF Bad
  <2>1. QED BY <1>1, <1>2, <1>3, WFMin
<1>5. PICK n \in Nat \ Q : T = 0..n
  BY <1>4
<1>6. n # 0 /\ n - 1 \in Nat \ Q
  BY <1>5
<1>7. 0..(n - 1) \in Bad
  BY <1>6
<1>8. <<0..(n - 1), T>> \in StrictSubsetOrdering(Nat)
  <2>1. 0..(n - 1) \subseteq 0..n /\ 0..(n - 1) # 0..n /\ 0..n \subseteq Nat
    BY <1>5, <1>6
  <2>2. QED BY <1>5, <2>1 DEF StrictSubsetOrdering
<1>9. QED BY <1>4, <1>7, <1>8

\* Induction: a set of finite sets that holds {} and, with a subset of S, every
\* subset of S with one element more, holds S.
LEMMA SetInduction ==
    ASSUME NEW S, IsFiniteSet(S), NEW Q, {} \in Q,
           \A T \in SUBSET S : \A x \in S \ T : T \in Q => T \cup {x} \in Q
    PROVE  S \in Q
<1> DEFINE N == {n \in Nat : \A T \in SUBSET S : Cardinality(T) = n => T \in Q}
<1>1. \A T \in SUBSET S : IsFiniteSet(T) /\ Cardinality(T) \in Nat
  BY FS_Subset, FS_CardinalityType
<1>2. 0 \in N
  <2>1. \A T \in SUBSET S : Cardinality(T) = 0 => T = {}
    BY <1>1, FS_EmptySet
  <2>2. QED BY <2>1
<1>3. ASSUME NEW n \in Nat, n \in N PROVE n + 1 \in N
  <2>1. SUFFICES ASSUME NEW T \in SUBSET S, Cardinality(T) = n + 1 PROVE T \in Q
    OBVIOUS
  <2>2. T # {}
    <3>1. n + 1 # 0
      OBVIOUS
    <3>2. QED BY <2>1, <3>1, FS_EmptySet
  <2>3. PICK x \in T : TRUE
    BY <2>2
  <2>4. Cardinality(T \ {x}) = n
    <3>1. Cardinality(T \ {x}) = Cardinality(T) - 1
      BY <1>1, FS_RemoveElement
    <3>2. QED BY <2>1, <3>1
  <2>5. T \ {x} \in Q
    BY <1>3, <2>4
  <2>6. (T \ {x}) \cup {x} \in Q
    BY <2>5
  <2>7. (T \ {x}) \cup {x} = T
    OBVIOUS
  <2>8. QED BY <2>6, <2>7
<1>4. \A n \in Nat : n \in N
  <2> HIDE DEF N
  <2>1. QED BY <1>2, <1>3, NumberInduction
<1>5. QED BY <1>1, <1>4

-----------------------------------------------------------------------------
(* The recursive function of the fold. *)

Picked(s) == CHOOSE x \in s : TRUE

FoldStep(f, g, s) == IF s = {} THEN 0 ELSE f[Picked(s)] + g[s \ {Picked(s)}]

IsSumOver(g, f, S) == g = [s \in SUBSET S |-> FoldStep(f, g, s)]

\* The library's sum, with its fold expanded.
LEMMA SumExpanded ==
    ASSUME NEW f, NEW S
    PROVE  SumFunctionOnSet(f, S) = (CHOOSE g : IsSumOver(g, f, S))[S]
BY DEF SumFunctionOnSet, FoldFunctionOnSet, MapThenFoldSet, IsSumOver, FoldStep, Picked

\* A non-empty subset loses one element to Picked.
LEMMA PickedRemoved ==
    ASSUME NEW S, IsFiniteSet(S), NEW s \in SUBSET S, s # {}
    PROVE  /\ Picked(s) \in s
           /\ s \ {Picked(s)} \in SUBSET S
           /\ Cardinality(s) \in Nat
           /\ Cardinality(s \ {Picked(s)}) \in Nat
           /\ Cardinality(s) = Cardinality(s \ {Picked(s)}) + 1
<1>1. Picked(s) \in s
  BY DEF Picked
<1>2. IsFiniteSet(s) /\ IsFiniteSet(s \ {Picked(s)})
  BY FS_Subset
<1>3. QED BY <1>1, <1>2, FS_CardinalityType, FS_RemoveElement

\* The recursive function exists on the subsets of a finite set.
LEMMA SumOverExists ==
    ASSUME NEW f, NEW S, IsFiniteSet(S)
    PROVE  \E g : IsSumOver(g, f, S)
<1> DEFINE Upto(n) == {s \in SUBSET S : Cardinality(s) <= n}
           Summed(n) == \E g : g = [s \in Upto(n) |-> FoldStep(f, g, s)]
           N == {n \in Nat : Summed(n)}
<1>1. \A s \in SUBSET S : Cardinality(s) \in Nat /\ Cardinality(s) <= Cardinality(S)
  BY FS_Subset, FS_CardinalityType
<1>2. 0 \in N
  <2> DEFINE g == [s \in Upto(0) |-> 0]
  <2>1. \A s \in Upto(0) : s = {}
    BY <1>1, FS_Subset, FS_EmptySet
  <2>2. g = [s \in Upto(0) |-> FoldStep(f, g, s)]
    <3> HIDE DEF Upto
    <3>1. QED BY <2>1 DEF FoldStep
  <2>3. QED BY <2>2
<1>3. ASSUME NEW n \in Nat, n \in N PROVE n + 1 \in N
  <2>1. PICK g : g = [s \in Upto(n) |-> FoldStep(f, g, s)]
    BY <1>3
  <2> DEFINE h == [s \in Upto(n + 1) |-> FoldStep(f, g, s)]
  <2>2. ASSUME NEW s \in Upto(n), s # {} PROVE s \ {Picked(s)} \in Upto(n)
    BY <2>2, PickedRemoved
  <2>3. ASSUME NEW s \in Upto(n) PROVE h[s] = g[s]
    <3>1. s \in Upto(n + 1)
      BY <1>1
    <3> HIDE DEF Upto
    <3>2. QED BY <2>1, <3>1
  <2>4. ASSUME NEW s \in Upto(n + 1) PROVE FoldStep(f, g, s) = FoldStep(f, h, s)
    <3>1. CASE s = {}
      BY <3>1 DEF FoldStep
    <3>2. CASE s # {}
      <4>1. s \ {Picked(s)} \in Upto(n)
        BY <3>2, PickedRemoved
      <4> HIDE DEF h, Upto
      <4>2. QED BY <2>3, <3>2, <4>1 DEF FoldStep
    <3>3. QED BY <3>1, <3>2
  <2>5. h = [s \in Upto(n + 1) |-> FoldStep(f, h, s)]
    <3> HIDE DEF Upto
    <3>1. \A s \in Upto(n + 1) : h[s] = FoldStep(f, h, s)
      BY <2>4
    <3>2. QED BY <3>1
  <2>6. Summed(n + 1)
    <3> HIDE DEF h, Upto
    <3>1. QED BY <2>5
  <2> HIDE DEF Summed
  <2>7. QED BY <2>6
<1>4. Cardinality(S) \in N
  <2>1. \A n \in Nat : n \in N
    <3> HIDE DEF N
    <3>1. QED BY <1>2, <1>3, NumberInduction
  <2>2. QED BY <2>1, FS_CardinalityType
<1>5. Upto(Cardinality(S)) = SUBSET S
  BY <1>1
<1>6. QED BY <1>4, <1>5 DEF IsSumOver

\* Two such functions agree wherever both are defined.
LEMMA SumOverUnique ==
    ASSUME NEW f, NEW S, IsFiniteSet(S), NEW T \in SUBSET S,
           NEW g, IsSumOver(g, f, S), NEW h, IsSumOver(h, f, T)
    PROVE  g[T] = h[T]
<1> DEFINE N == {n \in Nat : \A s \in SUBSET T : Cardinality(s) = n => g[s] = h[s]}
<1>1. \A s \in SUBSET T : g[s] = FoldStep(f, g, s) /\ h[s] = FoldStep(f, h, s)
  BY DEF IsSumOver
<1>2. IsFiniteSet(T) /\ \A s \in SUBSET T : IsFiniteSet(s)
  BY FS_Subset
<1>3. 0 \in N
  BY <1>1, <1>2, FS_EmptySet DEF FoldStep
<1>4. ASSUME NEW n \in Nat, n \in N PROVE n + 1 \in N
  <2>1. SUFFICES ASSUME NEW s \in SUBSET T, Cardinality(s) = n + 1 PROVE g[s] = h[s]
    OBVIOUS
  <2>2. s # {}
    BY <2>1, FS_EmptySet
  <2>3. s \ {Picked(s)} \in SUBSET T /\ Cardinality(s \ {Picked(s)}) = n
    BY <1>2, <2>1, <2>2, PickedRemoved
  <2>4. g[s \ {Picked(s)}] = h[s \ {Picked(s)}]
    BY <1>4, <2>3
  <2>5. QED BY <1>1, <2>2, <2>4 DEF FoldStep
<1>5. \A n \in Nat : n \in N
  <2> HIDE DEF N
  <2>1. QED BY <1>3, <1>4, NumberInduction
<1>6. QED BY <1>2, <1>5, FS_CardinalityType

-----------------------------------------------------------------------------
(* The algebra of sums. *)

\* The sum over nothing is 0, the sum over more takes one element off.
LEMMA SumUnfolds ==
    ASSUME NEW f, NEW S, IsFiniteSet(S)
    PROVE  SumFunctionOnSet(f, S) =
             IF S = {} THEN 0
             ELSE f[Picked(S)] + SumFunctionOnSet(f, S \ {Picked(S)})
<1> DEFINE g == CHOOSE g : IsSumOver(g, f, S)
           T == S \ {Picked(S)}
           h == CHOOSE h : IsSumOver(h, f, T)
<1>1. IsFiniteSet(T)
  BY FS_Subset
<1>2. IsSumOver(g, f, S) /\ IsSumOver(h, f, T)
  BY <1>1, SumOverExists
<1>3. SumFunctionOnSet(f, S) = g[S] /\ SumFunctionOnSet(f, T) = h[T]
  BY SumExpanded
<1>4. g[S] = FoldStep(f, g, S)
  BY <1>2 DEF IsSumOver
<1> HIDE DEF g, h
<1>5. g[T] = h[T]
  BY <1>1, <1>2, SumOverUnique
<1>6. QED BY <1>3, <1>4, <1>5 DEF FoldStep

\* The empty sum.
LEMMA SumEmpty == ASSUME NEW f PROVE SumFunctionOnSet(f, {}) = 0
BY SumUnfolds, FS_EmptySet

\* A sum of integers is an integer.
LEMMA SumIsInt ==
    ASSUME NEW S, IsFiniteSet(S), NEW f, \A x \in S : f[x] \in Int
    PROVE  SumFunctionOnSet(f, S) \in Int
<1> DEFINE N == {n \in Nat : \A T \in SUBSET S :
                   Cardinality(T) = n => SumFunctionOnSet(f, T) \in Int}
<1>1. \A T \in SUBSET S : IsFiniteSet(T)
  BY FS_Subset
<1>2. 0 \in N
  BY <1>1, FS_EmptySet, SumEmpty
<1>3. ASSUME NEW n \in Nat, n \in N PROVE n + 1 \in N
  <2>1. SUFFICES ASSUME NEW T \in SUBSET S, Cardinality(T) = n + 1
                 PROVE  SumFunctionOnSet(f, T) \in Int
    OBVIOUS
  <2>2. T # {}
    BY <2>1, FS_EmptySet
  <2>3. Picked(T) \in T /\ T \ {Picked(T)} \in SUBSET S /\ Cardinality(T \ {Picked(T)}) = n
    BY <2>1, <2>2, PickedRemoved
  <2>4. SumFunctionOnSet(f, T \ {Picked(T)}) \in Int /\ f[Picked(T)] \in Int
    BY <1>3, <2>3
  <2>5. QED BY <1>1, <2>2, <2>4, SumUnfolds
<1>4. \A n \in Nat : n \in N
  <2> HIDE DEF N
  <2>1. QED BY <1>2, <1>3, NumberInduction
<1>5. QED BY <1>4, FS_CardinalityType

\* Any element may be split off: the order of the fold does not matter.
LEMMA SumSplit ==
    ASSUME NEW S, IsFiniteSet(S), NEW f, \A x \in S : f[x] \in Int, NEW y \in S
    PROVE  SumFunctionOnSet(f, S) = f[y] + SumFunctionOnSet(f, S \ {y})
<1> DEFINE Splits(T) == \A x \in T :
                          SumFunctionOnSet(f, T) = f[x] + SumFunctionOnSet(f, T \ {x})
           N == {n \in Nat : \A T \in SUBSET S : Cardinality(T) = n => Splits(T)}
<1>1. \A T \in SUBSET S : IsFiniteSet(T)
  BY FS_Subset
<1>2. 0 \in N
  BY <1>1, FS_EmptySet
<1>3. ASSUME NEW n \in Nat, n \in N PROVE n + 1 \in N
  <2>1. SUFFICES ASSUME NEW T \in SUBSET S, Cardinality(T) = n + 1, NEW x \in T
                 PROVE  SumFunctionOnSet(f, T) = f[x] + SumFunctionOnSet(f, T \ {x})
    OBVIOUS
  <2> DEFINE p == Picked(T)
  <2>2. p \in T /\ T \ {p} \in SUBSET S /\ Cardinality(T \ {p}) = n
    BY <2>1, PickedRemoved
  <2>3. SumFunctionOnSet(f, T) = f[p] + SumFunctionOnSet(f, T \ {p})
    BY <1>1, <2>1, SumUnfolds
  <2>4. T \ {x} \in SUBSET S /\ Cardinality(T \ {x}) = n
    BY <1>1, <2>1, FS_RemoveElement
  <2> HIDE DEF p
  <2>5. CASE x = p
    BY <2>3, <2>5
  <2>6. CASE x # p
    <3>1. SumFunctionOnSet(f, T \ {p}) = f[x] + SumFunctionOnSet(f, (T \ {p}) \ {x})
      BY <1>3, <2>2, <2>6
    <3>2. SumFunctionOnSet(f, T \ {x}) = f[p] + SumFunctionOnSet(f, (T \ {x}) \ {p})
      BY <1>3, <2>2, <2>4, <2>6
    <3>3. (T \ {p}) \ {x} = (T \ {x}) \ {p} /\ (T \ {p}) \ {x} \in SUBSET S
      OBVIOUS
    <3>4. SumFunctionOnSet(f, (T \ {p}) \ {x}) \in Int /\ f[p] \in Int /\ f[x] \in Int
      BY <1>1, <2>2, <3>3, SumIsInt
    <3> HIDE DEF N, Splits
    <3>5. SumFunctionOnSet(f, T) = f[p] + (f[x] + SumFunctionOnSet(f, (T \ {p}) \ {x}))
      BY <2>3, <3>1
    <3>6. SumFunctionOnSet(f, T \ {x}) = f[p] + SumFunctionOnSet(f, (T \ {p}) \ {x})
      BY <3>2, <3>3
    <3>7. QED BY <3>4, <3>5, <3>6
  <2>7. QED BY <2>5, <2>6
<1>4. \A n \in Nat : n \in N
  <2> HIDE DEF N
  <2>1. QED BY <1>2, <1>3, NumberInduction
<1>5. Splits(S)
  BY <1>4, FS_CardinalityType
<1>6. QED BY <1>5

\* Larger values have a larger sum.
LEMMA SumMonotone ==
    ASSUME NEW S, IsFiniteSet(S), NEW f, NEW g,
           \A x \in S : f[x] \in Int /\ g[x] \in Int /\ f[x] <= g[x]
    PROVE  SumFunctionOnSet(f, S) <= SumFunctionOnSet(g, S)
<1> DEFINE Q == {T \in SUBSET S : SumFunctionOnSet(f, T) <= SumFunctionOnSet(g, T)}
<1>1. {} \in Q
  BY SumEmpty
<1>2. ASSUME NEW T \in SUBSET S, NEW x \in S \ T, T \in Q PROVE T \cup {x} \in Q
  <2> DEFINE U == T \cup {x}
  <2>1. IsFiniteSet(T) /\ IsFiniteSet(U) /\ x \in U /\ U \ {x} = T /\ U \in SUBSET S
    BY FS_Subset
  <2>2. /\ SumFunctionOnSet(f, U) = f[x] + SumFunctionOnSet(f, T)
        /\ SumFunctionOnSet(g, U) = g[x] + SumFunctionOnSet(g, T)
    BY <2>1, SumSplit
  <2>3. SumFunctionOnSet(f, T) \in Int /\ SumFunctionOnSet(g, T) \in Int
    BY <2>1, SumIsInt
  <2>4. QED BY <1>2, <2>1, <2>2, <2>3
<1>3. S \in Q
  <2> HIDE DEF Q
  <2>1. QED BY <1>1, <1>2, SetInduction
<1>4. QED BY <1>3

\* Equal values have equal sums.
LEMMA SumEqual ==
    ASSUME NEW S, IsFiniteSet(S), NEW f, NEW g, \A x \in S : f[x] \in Int /\ f[x] = g[x]
    PROVE  SumFunctionOnSet(f, S) = SumFunctionOnSet(g, S)
<1>1. SumFunctionOnSet(f, S) <= SumFunctionOnSet(g, S) /\ SumFunctionOnSet(g, S) <= SumFunctionOnSet(f, S)
  BY SumMonotone
<1>2. SumFunctionOnSet(f, S) \in Int /\ SumFunctionOnSet(g, S) \in Int
  BY SumIsInt
<1>3. QED BY <1>1, <1>2

\* The sum of zeros.
LEMMA SumZero ==
    ASSUME NEW S, IsFiniteSet(S), NEW f, \A x \in S : f[x] = 0
    PROVE  SumFunctionOnSet(f, S) = 0
<1> DEFINE Q == {T \in SUBSET S : SumFunctionOnSet(f, T) = 0}
<1>1. {} \in Q
  BY SumEmpty
<1>2. ASSUME NEW T \in SUBSET S, NEW x \in S \ T, T \in Q PROVE T \cup {x} \in Q
  <2>1. IsFiniteSet(T \cup {x}) /\ (T \cup {x}) \ {x} = T
    BY FS_Subset
  <2>2. SumFunctionOnSet(f, T \cup {x}) = f[x] + SumFunctionOnSet(f, T)
    BY <2>1, SumSplit
  <2>3. QED BY <1>2, <2>2
<1>3. S \in Q
  <2> HIDE DEF Q
  <2>1. QED BY <1>1, <1>2, SetInduction
<1>4. QED BY <1>3

\* The sum of natural numbers is one.
LEMMA SumIsNat ==
    ASSUME NEW S, IsFiniteSet(S), NEW f, \A x \in S : f[x] \in Nat
    PROVE  SumFunctionOnSet(f, S) \in Nat
<1> DEFINE z == [x \in S |-> 0]
<1>1. SumFunctionOnSet(z, S) = 0
  BY SumZero
<1>2. SumFunctionOnSet(z, S) <= SumFunctionOnSet(f, S)
  BY SumMonotone
<1>3. SumFunctionOnSet(f, S) \in Int
  BY SumIsInt
<1>4. QED BY <1>1, <1>2, <1>3

\* Changing one value changes the sum by as much.
LEMMA SumUpdate ==
    ASSUME NEW S, IsFiniteSet(S), NEW f, NEW g, NEW y \in S,
           \A x \in S : f[x] \in Int /\ g[x] \in Int,
           \A x \in S \ {y} : g[x] = f[x]
    PROVE  SumFunctionOnSet(g, S) = SumFunctionOnSet(f, S) - f[y] + g[y]
<1>1. IsFiniteSet(S \ {y})
  BY FS_Subset
<1>2. /\ SumFunctionOnSet(f, S) = f[y] + SumFunctionOnSet(f, S \ {y})
      /\ SumFunctionOnSet(g, S) = g[y] + SumFunctionOnSet(g, S \ {y})
  BY SumSplit
<1>3. SumFunctionOnSet(f, S \ {y}) = SumFunctionOnSet(g, S \ {y})
  BY <1>1, SumEqual
<1>4. SumFunctionOnSet(f, S \ {y}) \in Int
  BY <1>1, SumIsInt
<1>5. QED BY <1>2, <1>3, <1>4

\* A sum grows no more than another one of which each value grows as much.
LEMMA SumGrowth ==
    ASSUME NEW S, IsFiniteSet(S), NEW f, NEW g, NEW h, NEW k,
           \A x \in S : f[x] \in Int /\ g[x] \in Int /\ h[x] \in Int /\ k[x] \in Int,
           \A x \in S : g[x] - f[x] <= k[x] - h[x]
    PROVE  SumFunctionOnSet(g, S) - SumFunctionOnSet(f, S)
             <= SumFunctionOnSet(k, S) - SumFunctionOnSet(h, S)
<1> DEFINE Grown(T) == SumFunctionOnSet(g, T) - SumFunctionOnSet(f, T)
                          <= SumFunctionOnSet(k, T) - SumFunctionOnSet(h, T)
           Q == {T \in SUBSET S : Grown(T)}
<1>1. {} \in Q
  BY SumEmpty
<1>2. ASSUME NEW T \in SUBSET S, NEW x \in S \ T, T \in Q PROVE T \cup {x} \in Q
  <2> DEFINE U == T \cup {x}
  <2>1. IsFiniteSet(T) /\ IsFiniteSet(U) /\ x \in U /\ U \ {x} = T /\ U \in SUBSET S
    BY FS_Subset
  <2>2. /\ SumFunctionOnSet(f, U) = f[x] + SumFunctionOnSet(f, T)
        /\ SumFunctionOnSet(g, U) = g[x] + SumFunctionOnSet(g, T)
    BY <2>1, SumSplit
  <2>3. /\ SumFunctionOnSet(h, U) = h[x] + SumFunctionOnSet(h, T)
        /\ SumFunctionOnSet(k, U) = k[x] + SumFunctionOnSet(k, T)
    BY <2>1, SumSplit
  <2>4. SumFunctionOnSet(f, T) \in Int /\ SumFunctionOnSet(g, T) \in Int
    BY <2>1, SumIsInt
  <2>5. SumFunctionOnSet(h, T) \in Int /\ SumFunctionOnSet(k, T) \in Int
    BY <2>1, SumIsInt
  <2>6. /\ f[x] \in Int /\ g[x] \in Int /\ h[x] \in Int /\ k[x] \in Int
        /\ g[x] - f[x] <= k[x] - h[x]
    OBVIOUS
  <2>7. Grown(U)
    BY <1>2, <2>2, <2>3, <2>4, <2>5, <2>6
  <2>8. QED BY <2>1, <2>7
<1>3. S \in Q
  <2> HIDE DEF Q
  <2>1. QED BY <1>1, <1>2, SetInduction
<1>4. QED BY <1>3

\* A natural number summed is within the sum.
LEMMA SumBounds ==
    ASSUME NEW S, IsFiniteSet(S), NEW f, \A x \in S : f[x] \in Nat, NEW y \in S
    PROVE  f[y] <= SumFunctionOnSet(f, S)
<1>1. IsFiniteSet(S \ {y})
  BY FS_Subset
<1>2. SumFunctionOnSet(f, S) = f[y] + SumFunctionOnSet(f, S \ {y})
  BY SumSplit
<1>3. SumFunctionOnSet(f, S \ {y}) \in Nat
  BY <1>1, SumIsNat
<1>4. QED BY <1>2, <1>3

\* A sum of sums of two values is the sum of the two sums.
LEMMA SumAdd ==
    ASSUME NEW S, IsFiniteSet(S), NEW f, NEW g, NEW h,
           \A x \in S : f[x] \in Int /\ g[x] \in Int /\ h[x] = f[x] + g[x]
    PROVE  SumFunctionOnSet(h, S) = SumFunctionOnSet(f, S) + SumFunctionOnSet(g, S)
<1> DEFINE Added(T) == SumFunctionOnSet(h, T) = SumFunctionOnSet(f, T) + SumFunctionOnSet(g, T)
           Q == {T \in SUBSET S : Added(T)}
<1>1. {} \in Q
  BY SumEmpty
<1>2. ASSUME NEW T \in SUBSET S, NEW x \in S \ T, T \in Q PROVE T \cup {x} \in Q
  <2> DEFINE U == T \cup {x}
  <2>1. IsFiniteSet(T) /\ IsFiniteSet(U) /\ x \in U /\ U \ {x} = T /\ U \in SUBSET S
    BY FS_Subset
  <2>2. \A y \in S : h[y] \in Int
    OBVIOUS
  <2>3. /\ SumFunctionOnSet(f, U) = f[x] + SumFunctionOnSet(f, T)
        /\ SumFunctionOnSet(g, U) = g[x] + SumFunctionOnSet(g, T)
    BY <2>1, SumSplit
  <2>4. SumFunctionOnSet(h, U) = h[x] + SumFunctionOnSet(h, T)
    BY <2>1, <2>2, SumSplit
  <2>5. SumFunctionOnSet(f, T) \in Int /\ SumFunctionOnSet(g, T) \in Int
    BY <2>1, SumIsInt
  <2>6. Added(U)
    BY <1>2, <2>3, <2>4, <2>5
  <2>7. QED BY <2>1, <2>6
<1>3. S \in Q
  <2> HIDE DEF Q
  <2>1. QED BY <1>1, <1>2, SetInduction
<1>4. QED BY <1>3

\* A common factor of all values is one of the sum.
LEMMA SumScaled ==
    ASSUME NEW S, IsFiniteSet(S), NEW f, NEW g, NEW k \in Int,
           \A x \in S : f[x] \in Int /\ g[x] = k * f[x]
    PROVE  SumFunctionOnSet(g, S) = k * SumFunctionOnSet(f, S)
<1> DEFINE Scaled(T) == SumFunctionOnSet(g, T) = k * SumFunctionOnSet(f, T)
           Q == {T \in SUBSET S : Scaled(T)}
<1>1. {} \in Q
  BY SumEmpty
<1>2. ASSUME NEW T \in SUBSET S, NEW x \in S \ T, T \in Q PROVE T \cup {x} \in Q
  <2> DEFINE U == T \cup {x}
  <2>1. IsFiniteSet(T) /\ IsFiniteSet(U) /\ x \in U /\ U \ {x} = T /\ U \in SUBSET S
    BY FS_Subset
  <2>2. \A y \in S : g[y] \in Int
    OBVIOUS
  <2>3. SumFunctionOnSet(f, U) = f[x] + SumFunctionOnSet(f, T)
    BY <2>1, SumSplit
  <2>4. SumFunctionOnSet(g, U) = g[x] + SumFunctionOnSet(g, T)
    BY <2>1, <2>2, SumSplit
  <2>5. SumFunctionOnSet(f, T) \in Int
    BY <2>1, SumIsInt
  <2>6. ASSUME NEW a \in Int, NEW b \in Int PROVE k * (a + b) = k * a + k * b
    OBVIOUS
  <2>7. k * SumFunctionOnSet(f, U) = k * f[x] + k * SumFunctionOnSet(f, T)
    BY <2>3, <2>5, <2>6
  <2>8. Scaled(U)
    BY <1>2, <2>4, <2>7
  <2>9. QED BY <2>1, <2>8
<1>3. S \in Q
  <2> HIDE DEF Q
  <2>1. QED BY <1>1, <1>2, SetInduction
<1>4. QED BY <1>3

\* g is the table f of S by R transposed; row has the sums of its rows.
IsTransposed(f, g, S, R) == \A x \in S, y \in R : f[x][y] \in Int /\ g[y][x] = f[x][y]
AreRowSums(row, f, S, R) == \A x \in S : row[x] = SumFunctionOnSet(f[x], R)

\* The values of a table may be summed by rows or by columns.
LEMMA SumSwap ==
    ASSUME NEW S, IsFiniteSet(S), NEW R, IsFiniteSet(R), NEW f, NEW g, NEW row, NEW column,
           IsTransposed(f, g, S, R), AreRowSums(row, f, S, R), AreRowSums(column, g, R, S)
    PROVE  SumFunctionOnSet(row, S) = SumFunctionOnSet(column, R)
<1>0. /\ \A x \in S, y \in R : f[x][y] \in Int /\ g[y][x] = f[x][y]
      /\ \A x \in S : row[x] = SumFunctionOnSet(f[x], R)
      /\ \A y \in R : column[y] = SumFunctionOnSet(g[y], S)
  BY DEF IsTransposed, AreRowSums
<1> DEFINE part(T) == [y \in R |-> SumFunctionOnSet(g[y], T)]
           Swapped(T) == SumFunctionOnSet(row, T) = SumFunctionOnSet(part(T), R)
           Q == {T \in SUBSET S : Swapped(T)}
<1>1. {} \in Q
  <2>1. SumFunctionOnSet(row, {}) = 0
    BY SumEmpty
  <2>2. \A y \in R : part({})[y] = 0
    BY SumEmpty
  <2>3. SumFunctionOnSet(part({}), R) = 0
    <3> HIDE DEF part
    <3>1. QED BY <2>2, SumZero
  <2>4. QED BY <2>1, <2>3
<1>2. ASSUME NEW T \in SUBSET S, NEW x \in S \ T, T \in Q PROVE T \cup {x} \in Q
  <2> DEFINE U == T \cup {x}
  <2>1. IsFiniteSet(T) /\ IsFiniteSet(U) /\ x \in U /\ U \ {x} = T /\ U \in SUBSET S
    BY FS_Subset
  <2>2. \A z \in S : row[z] \in Int
    BY <1>0, SumIsInt
  <2>3. SumFunctionOnSet(row, U) = row[x] + SumFunctionOnSet(row, T)
    BY <2>1, <2>2, SumSplit
  <2>4. ASSUME NEW y \in R
        PROVE  /\ f[x][y] \in Int /\ part(T)[y] \in Int
               /\ part(U)[y] = f[x][y] + part(T)[y]
    <3>1. \A z \in S : g[y][z] \in Int
      BY <1>0
    <3>2. part(U)[y] = SumFunctionOnSet(g[y], U) /\ part(T)[y] = SumFunctionOnSet(g[y], T)
      OBVIOUS
    <3> HIDE DEF part, U
    <3>3. SumFunctionOnSet(g[y], U) = g[y][x] + SumFunctionOnSet(g[y], U \ {x})
      BY <2>1, <3>1, SumSplit
    <3>4. SumFunctionOnSet(g[y], T) \in Int
      BY <2>1, <3>1, SumIsInt
    <3>5. QED BY <1>0, <2>1, <3>1, <3>2, <3>3, <3>4
  <2> HIDE DEF part, U
  <2>5. SumFunctionOnSet(part(U), R) = SumFunctionOnSet(f[x], R) + SumFunctionOnSet(part(T), R)
    BY <1>0, <2>4, SumAdd
  <2>6. row[x] = SumFunctionOnSet(f[x], R)
    BY <1>0
  <2>7. SumFunctionOnSet(row, T) = SumFunctionOnSet(part(T), R)
    BY <1>2
  <2>8. Swapped(U)
    BY <2>3, <2>5, <2>6, <2>7
  <2>9. U \in Q
    BY <2>1, <2>8
  <2>10. QED BY <2>9 DEF U
<1>3. S \in Q
  <2> HIDE DEF Q
  <2>1. QED BY <1>1, <1>2, SetInduction
<1>4. SumFunctionOnSet(part(S), R) = SumFunctionOnSet(column, R)
  <2>1. \A y \in R : part(S)[y] \in Int /\ part(S)[y] = column[y]
    BY <1>0, SumIsInt
  <2> HIDE DEF part
  <2>2. QED BY <2>1, SumEqual
<1>5. QED BY <1>3, <1>4
=============================================================================
