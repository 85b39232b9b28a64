-------------------------- MODULE DepositTreeProofs --------------------------
(***************************************************************************)
(* Theorems about DepositTree, for a tree of any depth, any clients and any   *)
(* number of deposits the contract takes.                                     *)
(***************************************************************************)
EXTENDS DepositTree, FiniteSums, SequenceTheorems

-----------------------------------------------------------------------------
(* Induction over the levels. *)

\* From the leaves to the top: a level is in Q if the one below it is.
LEMMA LevelInduction ==
    ASSUME NEW Q, 0 \in Q, \A l \in 1..Depth : l - 1 \in Q => l \in Q
    PROVE  \A l \in 0..Depth : l \in Q
<1> DEFINE N == {n \in Nat : n <= Depth => n \in Q}
<1>1. 0 \in N
  OBVIOUS
<1>2. ASSUME NEW n \in Nat, n \in N PROVE n + 1 \in N
  <2>1. SUFFICES ASSUME n + 1 <= Depth PROVE n + 1 \in Q
    OBVIOUS
  <2>2. n + 1 \in 1..Depth /\ (n + 1) - 1 = n /\ n \in Q
    BY <1>2, <2>1, DepthAssumption
  <2>3. QED BY <2>2
<1>3. \A n \in Nat : n \in N
  <2> HIDE DEF N
  <2>1. QED BY <1>1, <1>2, NumberInduction
<1>4. QED BY <1>3, DepthAssumption

\* From the top to the leaves.
LEMMA LevelsDown ==
    ASSUME NEW Q, Depth \in Q, \A l \in 1..Depth : l \in Q => l - 1 \in Q
    PROVE  \A l \in 0..Depth : l \in Q
<1> DEFINE N == {n \in Nat : n <= Depth => Depth - n \in Q}
<1>1. 0 \in N
  BY DepthAssumption
<1>2. ASSUME NEW n \in Nat, n \in N PROVE n + 1 \in N
  <2>1. SUFFICES ASSUME n + 1 <= Depth PROVE Depth - (n + 1) \in Q
    OBVIOUS
  <2>2. Depth - n \in 1..Depth /\ (Depth - n) - 1 = Depth - (n + 1) /\ Depth - n \in Q
    BY <1>2, <2>1, DepthAssumption
  <2>3. QED BY <2>2
<1>3. \A n \in Nat : n \in N
  <2> HIDE DEF N
  <2>1. QED BY <1>1, <1>2, NumberInduction
<1>4. ASSUME NEW l \in 0..Depth PROVE l \in Q
  <2>1. Depth - l \in N /\ Depth - (Depth - l) = l
    BY <1>3, DepthAssumption
  <2> HIDE DEF N
  <2>2. Depth - l \in Nat /\ Depth - l <= Depth
    BY DepthAssumption
  <2>3. QED BY <2>1, <2>2 DEF N
<1>5. QED BY <1>4

SizeStep(f, l) == IF l = 0 THEN 1 ELSE 2 * f[l - 1]

LEMMA SizeUnfolds ==
    \A l \in 0..Depth : Size[l] = SizeStep(Size, l)
<1> DEFINE Q == {n \in 0..Depth : \E f : f = [l \in 0..n |-> SizeStep(f, l)]}
<1>1. 0 \in Q
  <2> DEFINE f == [l \in 0..0 |-> 1]
  <2>1. f = [l \in 0..0 |-> SizeStep(f, l)]
    BY DEF SizeStep
  <2>2. QED BY <2>1, DepthAssumption
<1>2. ASSUME NEW n \in 1..Depth, n - 1 \in Q PROVE n \in Q
  <2>1. PICK f : f = [l \in 0..(n - 1) |-> SizeStep(f, l)]
    BY <1>2
  <2> DEFINE g == [l \in 0..n |-> SizeStep(f, l)]
  <2>2. \A l \in 0..(n - 1) : g[l] = f[l]
    BY <2>1, DepthAssumption
  <2>3. ASSUME NEW l \in 0..n PROVE SizeStep(f, l) = SizeStep(g, l)
    <3>1. l = 0 \/ l - 1 \in 0..(n - 1)
      BY DepthAssumption
    <3> HIDE DEF g
    <3>2. QED BY <2>2, <3>1 DEF SizeStep
  <2>4. g = [l \in 0..n |-> SizeStep(g, l)]
    <3>1. \A l \in 0..n : g[l] = SizeStep(g, l)
      BY <2>3
    <3>2. g = [l \in 0..n |-> g[l]]
      OBVIOUS
    <3> HIDE DEF g
    <3>3. QED BY <3>1, <3>2
  <2> HIDE DEF g
  <2>5. QED BY <2>4, DepthAssumption
<1>3. Depth \in Q
  <2> HIDE DEF Q
  <2>1. QED BY <1>1, <1>2, LevelInduction, DepthAssumption
<1>4. Size = CHOOSE f : f = [l \in 0..Depth |-> SizeStep(f, l)]
  BY DEF Size, SizeStep
<1>5. Size = [l \in 0..Depth |-> SizeStep(Size, l)]
  <2>1. \E f : f = [l \in 0..Depth |-> SizeStep(f, l)]
    BY <1>3
  <2>2. QED BY <1>4, <2>1
<1>6. QED BY <1>5

\* A subtree has room for a deposit, and one level up for twice as many.
LEMMA Sizes ==
    /\ \A l \in 0..Depth : Size[l] \in Nat /\ Size[l] >= 1
    /\ Size[0] = 1
    /\ \A l \in 1..Depth : Size[l] = 2 * Size[l - 1]
<1> DEFINE Q == {l \in 0..Depth : Size[l] \in Nat /\ Size[l] >= 1}
<1>1. Size[0] = 1
  BY SizeUnfolds, DepthAssumption DEF SizeStep
<1>2. \A l \in 1..Depth : Size[l] = 2 * Size[l - 1]
  <2>1. \A l \in 1..Depth : l \in 0..Depth /\ l # 0
    BY DepthAssumption
  <2>2. QED BY <2>1, SizeUnfolds DEF SizeStep
<1>3. 0 \in Q
  BY <1>1, DepthAssumption
<1>4. ASSUME NEW l \in 1..Depth, l - 1 \in Q PROVE l \in Q
  BY <1>2, <1>4, DepthAssumption
<1>5. \A l \in 0..Depth : l \in Q
  <2> HIDE DEF Q
  <2>1. QED BY <1>3, <1>4, LevelInduction
<1>6. QED BY <1>1, <1>2, <1>5

-----------------------------------------------------------------------------
(* Places. *)

LEMMA PlaceType ==
    /\ \A p \in Places :
         /\ p = <<p[1], p[2]>>
         /\ p[1] \in 0..Depth
         /\ p[2] \in 0..(Size[Depth - p[1]] - 1)
         /\ p[1] \in Nat /\ p[2] \in Nat
    /\ \A l \in 0..Depth : \A k \in 0..(Size[Depth - l] - 1) : <<l, k>> \in Places
<1>1. \A l \in 0..Depth : Size[Depth - l] \in Nat
  BY Sizes, DepthAssumption
<1>2. \A p \in Places : \E l \in 0..Depth : \E k \in 0..(Size[Depth - l] - 1) : p = <<l, k>>
  BY DEF Places
<1>3. \A l \in 0..Depth : \A k \in 0..(Size[Depth - l] - 1) : <<l, k>> \in Places
  BY DEF Places
<1>4. QED BY <1>1, <1>2, <1>3, DepthAssumption

\* A subtree begins before it ends, after its size.
LEMMA Extent ==
    ASSUME NEW p \in Places
    PROVE  /\ First(p) \in Nat /\ Beyond(p) \in Nat /\ Size[p[1]] \in Nat
           /\ First(p) < Beyond(p) /\ Beyond(p) = First(p) + Size[p[1]]
           /\ p[1] = 0 => First(p) = p[2] /\ Beyond(p) = p[2] + 1
<1>1. p[1] \in 0..Depth /\ p[2] \in Nat
  BY PlaceType
<1>2. Size[p[1]] \in Nat /\ Size[p[1]] >= 1 /\ Size[0] = 1
  BY <1>1, Sizes
<1>3. p[2] * Size[p[1]] \in Nat
  BY <1>1, <1>2
<1>4. p[1] = 0 => p[2] * Size[p[1]] = p[2]
  BY <1>1, <1>2
<1>5. QED BY <1>1, <1>2, <1>3, <1>4 DEF First, Beyond

\* The whole tree.
LEMMA TopPlace ==
    /\ Top \in Places /\ Top[1] = Depth /\ Top[2] = 0
    /\ First(Top) = 0 /\ Beyond(Top) = Size[Depth]
    /\ \A p \in Places : p[1] = Depth => p = Top
<1>1. Size[Depth - Depth] = 1 /\ Depth \in 0..Depth /\ 0 \in 0..(1 - 1)
  BY Sizes, DepthAssumption
<1>2. Top \in Places
  BY <1>1, PlaceType DEF Top
<1>3. Top[1] = Depth /\ Top[2] = 0
  BY DEF Top
<1>4. Size[Depth] \in Nat /\ 0 * Size[Depth] = 0
  BY <1>1, Sizes
<1>5. \A p \in Places : p[1] = Depth => p = Top
  BY <1>1, PlaceType DEF Top
<1>6. QED BY <1>2, <1>3, <1>4, <1>5 DEF First, Beyond

LEMMA HalfOf ==
    ASSUME NEW k \in Nat, NEW s \in Nat
    PROVE  (2 * k) * s = k * (2 * s) /\ (2 * k + 1) * s = k * (2 * s) + s
OBVIOUS

\* A subtree above the leaves has two halves, that meet.
LEMMA Halves ==
    ASSUME NEW p \in Places, p[1] # 0
    PROVE  /\ Left(p) \in Places /\ Right(p) \in Places
           /\ Left(p) # Top /\ Right(p) # Top /\ Left(p) # Right(p)
           /\ Left(p)[1] = p[1] - 1 /\ Right(p)[1] = p[1] - 1
           /\ Left(p)[2] = 2 * p[2] /\ Right(p)[2] = 2 * p[2] + 1
           /\ Parent(Left(p)) = p /\ Parent(Right(p)) = p
           /\ First(Left(p)) = First(p)
           /\ Beyond(Left(p)) = First(Right(p))
           /\ Beyond(Right(p)) = Beyond(p)
           /\ First(p) < First(Right(p)) /\ First(Right(p)) < Beyond(p)
           /\ First(Right(p)) = First(p) + Size[p[1] - 1]
           /\ Size[p[1]] = 2 * Size[p[1] - 1]
           /\ Size[p[1] - 1] \in Nat
<1> DEFINE l == p[1]
           k == p[2]
<1>1. l \in 1..Depth /\ l - 1 \in 0..Depth /\ k \in 0..(Size[Depth - l] - 1) /\ p = <<l, k>>
  BY PlaceType, DepthAssumption
<1>2. Depth - l \in 0..Depth /\ Depth - (l - 1) \in 1..Depth /\ Depth - (l - 1) - 1 = Depth - l
  BY <1>1, DepthAssumption
<1>3. Size[Depth - (l - 1)] = 2 * Size[Depth - l] /\ Size[Depth - l] \in Nat
  BY <1>2, Sizes
<1>4. 2 * k \in 0..(Size[Depth - (l - 1)] - 1) /\ 2 * k + 1 \in 0..(Size[Depth - (l - 1)] - 1)
  BY <1>1, <1>3
<1>5. Left(p) = <<l - 1, 2 * k>> /\ Right(p) = <<l - 1, 2 * k + 1>>
  BY DEF Left, Right
<1>6. Left(p) \in Places /\ Right(p) \in Places
  BY <1>1, <1>4, <1>5, PlaceType
<1>7. Parent(Left(p)) = p /\ Parent(Right(p)) = p
  <2>1. (2 * k) \div 2 = k /\ (2 * k + 1) \div 2 = k /\ (l - 1) + 1 = l
    BY <1>1, <1>3
  <2>2. QED BY <1>1, <1>5, <2>1 DEF Parent
<1>8. Size[l] = 2 * Size[l - 1] /\ Size[l - 1] \in Nat /\ Size[l - 1] >= 1 /\ k \in Nat
  BY <1>1, <1>3, Sizes
<1>9. (2 * k) * Size[l - 1] = k * Size[l] /\ (2 * k + 1) * Size[l - 1] = k * Size[l] + Size[l - 1]
  BY <1>8, HalfOf
<1>10. First(Left(p)) = (2 * k) * Size[l - 1] /\ First(Right(p)) = (2 * k + 1) * Size[l - 1] /\ First(p) = k * Size[l]
  BY <1>5 DEF First
<1>11. First(p) \in Nat /\ Beyond(p) = First(p) + Size[l]
  BY Extent
<1>12. Beyond(Left(p)) = First(Left(p)) + Size[l - 1] /\ Beyond(Right(p)) = First(Right(p)) + Size[l - 1]
  BY <1>5 DEF Beyond
<1>13. Left(p) # Top /\ Right(p) # Top /\ Left(p) # Right(p)
  BY <1>1, <1>5, DepthAssumption DEF Top
<1> HIDE DEF l, k
<1>14. /\ First(Left(p)) = First(p)
       /\ First(Right(p)) = First(p) + Size[l - 1]
       /\ Beyond(Left(p)) = First(Right(p))
       /\ Beyond(Right(p)) = Beyond(p)
       /\ First(p) < First(Right(p)) /\ First(Right(p)) < Beyond(p)
  BY <1>8, <1>9, <1>10, <1>11, <1>12
<1>15. Left(p)[1] = l - 1 /\ Right(p)[1] = l - 1 /\ Left(p)[2] = 2 * k /\ Right(p)[2] = 2 * k + 1
  BY <1>5
<1>16. QED BY <1>6, <1>7, <1>8, <1>13, <1>14, <1>15 DEF l, k

\* A subtree other than the whole is one half of its parent.
LEMMA Parents ==
    ASSUME NEW p \in Places, p # Top
    PROVE  /\ Parent(p) \in Places /\ Parent(p)[1] = p[1] + 1 /\ Parent(p)[1] # 0
           /\ Parent(p)[1] - 1 = p[1]
           /\ (p[2] % 2 = 0 /\ p = Left(Parent(p))) \/ (p[2] % 2 = 1 /\ p = Right(Parent(p)))
           /\ First(Parent(p)) <= First(p) /\ Beyond(p) <= Beyond(Parent(p))
<1> DEFINE l == p[1]
           k == p[2]
           q == Parent(p)
<1>1. l \in 0..Depth /\ k \in 0..(Size[Depth - l] - 1) /\ p = <<l, k>> /\ k \in Nat
  BY PlaceType
<1>2. l # Depth
  BY TopPlace
<1>3. l + 1 \in 1..Depth /\ Depth - l \in 1..Depth /\ (Depth - l) - 1 = Depth - (l + 1)
      /\ Depth - (l + 1) \in 0..Depth /\ l + 1 \in 0..Depth
  BY <1>1, <1>2, DepthAssumption
<1>4. Size[Depth - l] = 2 * Size[Depth - (l + 1)] /\ Size[Depth - (l + 1)] \in Nat
  BY <1>3, Sizes
<1>5. k \div 2 \in 0..(Size[Depth - (l + 1)] - 1)
  BY <1>1, <1>4
<1>6. q = <<l + 1, k \div 2>>
  BY DEF Parent
<1>7. q \in Places
  BY <1>3, <1>5, <1>6, PlaceType
<1>8. \/ k % 2 = 0 /\ k = 2 * (k \div 2)
      \/ k % 2 = 1 /\ k = 2 * (k \div 2) + 1
  BY <1>1
<1>9. (l + 1) - 1 = l /\ l + 1 # 0
  BY <1>1
<1>10. (k % 2 = 0 /\ p = Left(q)) \/ (k % 2 = 1 /\ p = Right(q))
  BY <1>1, <1>6, <1>8, <1>9 DEF Left, Right
<1>11. q[1] # 0 /\ q[1] = l + 1 /\ q[1] - 1 = l
  BY <1>6, <1>9
<1>12. First(q) <= First(p) /\ Beyond(p) <= Beyond(q)
  BY <1>7, <1>10, <1>11, Halves, Extent
<1>13. QED BY <1>7, <1>10, <1>11, <1>12

\* From the leaves to the top: a place is in Q if both its halves are.
LEMMA PlacesUp ==
    ASSUME NEW Q,
           \A p \in Places : (p[1] # 0 => Left(p) \in Q /\ Right(p) \in Q) => p \in Q
    PROVE  \A p \in Places : p \in Q
<1> DEFINE L == {l \in 0..Depth : \A p \in Places : p[1] = l => p \in Q}
<1>1. 0 \in L
  BY DepthAssumption
<1>2. ASSUME NEW l \in 1..Depth, l - 1 \in L PROVE l \in L
  <2>1. SUFFICES ASSUME NEW p \in Places, p[1] = l PROVE p \in Q
    OBVIOUS
  <2>2. /\ Left(p) \in Places /\ Left(p)[1] = l - 1
        /\ Right(p) \in Places /\ Right(p)[1] = l - 1
    BY <2>1, Halves
  <2>3. QED BY <1>2, <2>2
<1>3. \A l \in 0..Depth : l \in L
  <2> HIDE DEF L
  <2>1. QED BY <1>1, <1>2, LevelInduction
<1>4. QED BY <1>3, PlaceType

\* From the top to the leaves: a place is in Q if its parent is.
LEMMA PlacesDown ==
    ASSUME NEW Q,
           \A p \in Places : (p # Top => Parent(p) \in Q) => p \in Q
    PROVE  \A p \in Places : p \in Q
<1> DEFINE L == {l \in 0..Depth : \A p \in Places : p[1] = l => p \in Q}
<1>1. Depth \in L
  BY TopPlace, DepthAssumption
<1>2. ASSUME NEW l \in 1..Depth, l \in L PROVE l - 1 \in L
  <2>1. SUFFICES ASSUME NEW p \in Places, p[1] = l - 1 PROVE p \in Q
    BY DepthAssumption
  <2>2. p # Top
    BY <2>1, TopPlace, DepthAssumption
  <2>3. Parent(p) \in Places /\ Parent(p)[1] = l
    BY <2>1, <2>2, Parents
  <2>4. QED BY <1>2, <2>2, <2>3
<1>3. \A l \in 0..Depth : l \in L
  <2> HIDE DEF L
  <2>1. QED BY <1>1, <1>2, LevelsDown
<1>4. QED BY <1>3, PlaceType

LEMMA Quotient ==
    ASSUME NEW k \in Nat, NEW s \in Nat, s >= 1, NEW i \in Nat, k * s <= i, i < k * s + s
    PROVE  i \div s = k
OBVIOUS

\* The place of a level that a deposit belongs to.
Holds(p, i) == First(p) <= i /\ i < Beyond(p)

LEMMA HolderIsToward ==
    ASSUME NEW p \in Places, NEW i \in Nat, Holds(p, i)
    PROVE  p = Toward(i, p[1])
<1>1. p = <<p[1], p[2]>> /\ p[1] \in 0..Depth /\ p[2] \in Nat
  BY PlaceType
<1>2. Size[p[1]] \in Nat /\ Size[p[1]] >= 1
  BY <1>1, Sizes
<1>3. p[2] * Size[p[1]] <= i /\ i < p[2] * Size[p[1]] + Size[p[1]]
  BY DEF Holds, First, Beyond
<1>4. i \div Size[p[1]] = p[2]
  BY <1>1, <1>2, <1>3, Quotient
<1>5. QED BY <1>1, <1>4 DEF Toward

\* Of the two halves, the deposit belongs to one.
LEMMA HeldByHalf ==
    ASSUME NEW p \in Places, p[1] # 0, NEW i \in Nat
    PROVE  Holds(p, i) <=> Holds(Left(p), i) \/ Holds(Right(p), i)
BY Halves, Extent DEF Holds

\* Places of a level do not overlap.
LEMMA SameLevel ==
    ASSUME NEW p \in Places, NEW q \in Places, p[1] = q[1], NEW i \in Nat,
           Holds(p, i), Holds(q, i)
    PROVE  p = q
BY HolderIsToward

\* Of two places with a deposit in common, the lower one is inside the higher
\* one, and so is its parent if they differ.
LEMMA Nested ==
    ASSUME NEW p \in Places, NEW q \in Places, p[1] <= q[1], NEW i \in Nat,
           Holds(p, i), Holds(q, i)
    PROVE  /\ First(q) <= First(p) /\ Beyond(p) <= Beyond(q)
           /\ p # q => /\ p # Top /\ p[1] < q[1]
                       /\ First(q) <= First(Parent(p)) /\ Beyond(Parent(p)) <= Beyond(q)
<1> DEFINE Inside(a, b) == First(b) <= First(a) /\ Beyond(a) <= Beyond(b)
           Good(b) == p[1] <= b[1] /\ Holds(b, i) =>
                        /\ Inside(p, b)
                        /\ p # b => p # Top /\ p[1] < b[1] /\ Inside(Parent(p), b)
           Q == {b \in Places : Good(b)}
<1>1. ASSUME NEW b \in Places, b[1] # 0 => Left(b) \in Q /\ Right(b) \in Q PROVE b \in Q
  <2>1. SUFFICES ASSUME p[1] <= b[1], Holds(b, i) PROVE Good(b)
    OBVIOUS
  <2>2. p[1] \in Nat /\ b[1] \in Nat /\ First(p) \in Nat /\ Beyond(p) \in Nat
    BY PlaceType, Extent
  <2>3. CASE p[1] = b[1]
    <3>1. p = b
      BY <2>1, <2>3, SameLevel
    <3>2. QED BY <2>2, <3>1
  <2>4. CASE p[1] # b[1]
    <3>1. b[1] # 0 /\ p[1] <= b[1] - 1 /\ p[1] < b[1]
      BY <2>1, <2>2, <2>4
    <3>2. PICK h \in {Left(b), Right(b)} : Holds(h, i)
      BY <2>1, <3>1, HeldByHalf
    <3>3. /\ h \in Places /\ h \in Q /\ h[1] = b[1] - 1 /\ Parent(h) = b
          /\ First(b) <= First(h) /\ Beyond(h) <= Beyond(b)
          /\ First(h) \in Nat /\ Beyond(h) \in Nat
      <4>1. Left(b) \in Q /\ Right(b) \in Q
        BY <1>1, <3>1
      <4>2. /\ First(b) \in Nat /\ Beyond(b) \in Nat
            /\ \A c \in {Left(b), Right(b)} :
                 /\ c \in Places /\ c[1] = b[1] - 1 /\ Parent(c) = b
                 /\ First(b) <= First(c) /\ Beyond(c) <= Beyond(b)
                 /\ First(c) \in Nat /\ Beyond(c) \in Nat
        BY <3>1, Halves, Extent
      <4> HIDE DEF Q
      <4>3. QED BY <3>2, <4>1, <4>2
    <3>4. Good(h)
      BY <3>3
    <3>5. Inside(p, h) /\ (p # h => p # Top /\ Inside(Parent(p), h))
      BY <3>1, <3>2, <3>3, <3>4
    <3>6. First(b) \in Nat /\ Beyond(b) \in Nat
      BY Extent
    <3>7. Inside(p, b)
      BY <2>2, <3>3, <3>5, <3>6
    <3>8. CASE p = h
      <4>1. p # Top
        BY <3>1, <3>8, Halves
      <4>2. Inside(Parent(p), b)
        BY <3>3, <3>6, <3>8
      <4>3. QED BY <3>1, <3>7, <4>1, <4>2
    <3>9. CASE p # h
      <4>1. p # Top /\ First(Parent(p)) \in Nat /\ Beyond(Parent(p)) \in Nat
        BY <3>5, <3>9, Parents, Extent
      <4>2. Inside(Parent(p), b)
        BY <3>3, <3>5, <3>6, <3>9, <4>1
      <4>3. QED BY <3>1, <3>7, <4>1, <4>2
    <3>10. QED BY <3>8, <3>9
  <2>5. QED BY <2>3, <2>4
<1>2. \A b \in Places : b \in Q
  <2> HIDE DEF Q
  <2>1. QED BY <1>1, PlacesUp
<1>3. Good(q)
  BY <1>2
<1>4. QED BY <1>3

\* The way to a deposit: one place of each level.
LEMMA Way ==
    ASSUME NEW i \in 0..(Size[Depth] - 1)
    PROVE  /\ \A l \in 0..Depth : /\ Toward(i, l) \in Places
                                  /\ Toward(i, l)[1] = l
                                  /\ Holds(Toward(i, l), i)
           /\ Toward(i, Depth) = Top
           /\ Toward(i, 0) = <<0, i>>
           /\ \A l \in 1..Depth : /\ Parent(Toward(i, l - 1)) = Toward(i, l)
                                  /\ Toward(i, l - 1) # Top
<1>0. Size[Depth] \in Nat /\ Size[0] = 1 /\ i \in Nat /\ Depth \in 0..Depth /\ 0 \in 0..Depth
  BY Sizes, DepthAssumption
<1> DEFINE L == {l \in 0..Depth : \E p \in Places : p[1] = l /\ Holds(p, i)}
<1>1. Depth \in L
  BY <1>0, TopPlace DEF Holds
<1>2. ASSUME NEW l \in 1..Depth, l \in L PROVE l - 1 \in L
  <2>1. PICK p \in Places : p[1] = l /\ Holds(p, i)
    BY <1>2
  <2>2. p[1] # 0 /\ l - 1 \in 0..Depth
    BY <2>1, DepthAssumption
  <2>3. PICK h \in {Left(p), Right(p)} : Holds(h, i)
    BY <1>0, <2>1, <2>2, HeldByHalf
  <2>4. h \in Places /\ h[1] = l - 1
    BY <2>1, <2>2, Halves
  <2>5. QED BY <2>2, <2>3, <2>4
<1>3. \A l \in 0..Depth : l \in L
  <2> HIDE DEF L
  <2>1. QED BY <1>1, <1>2, LevelsDown
<1>4. ASSUME NEW l \in 0..Depth
      PROVE  Toward(i, l) \in Places /\ Toward(i, l)[1] = l /\ Holds(Toward(i, l), i)
  <2>1. PICK p \in Places : p[1] = l /\ Holds(p, i)
    BY <1>3
  <2>2. p = Toward(i, l)
    BY <1>0, <2>1, HolderIsToward
  <2>3. QED BY <2>1, <2>2
<1>5. Toward(i, Depth) = Top
  BY <1>0, <1>4, TopPlace
<1>6. Toward(i, 0) = <<0, i>>
  <2>1. i \div 1 = i
    BY <1>0
  <2>2. QED BY <1>0, <2>1 DEF Toward
<1>7. ASSUME NEW l \in 1..Depth
      PROVE  Parent(Toward(i, l - 1)) = Toward(i, l) /\ Toward(i, l - 1) # Top
  <2> DEFINE p == Toward(i, l - 1)
  <2>1. p \in Places /\ p[1] = l - 1 /\ Holds(p, i) /\ l \in 0..Depth
    BY <1>4, DepthAssumption
  <2> HIDE DEF p
  <2>2. p # Top
    BY <2>1, TopPlace, DepthAssumption
  <2>3. Parent(p) \in Places /\ Parent(p)[1] = l
    BY <2>1, <2>2, Parents
  <2>4. Holds(Parent(p), i)
    BY <1>0, <2>1, <2>2, <2>3, Parents, Extent DEF Holds
  <2>5. Parent(p) = Toward(i, l)
    BY <1>0, <2>3, <2>4, HolderIsToward
  <2>6. QED BY <2>2, <2>5 DEF p
<1>8. QED BY <1>4, <1>5, <1>6, <1>7

-----------------------------------------------------------------------------
(* The hashes of subtrees without a gap: filled, or zero. *)

Below(n) == {p \in Places : p[1] <= n}

LEMMA BelowLevels ==
    /\ Below(Depth) = Places
    /\ \A n \in 1..Depth : Below(n - 1) \subseteq Below(n)
    /\ \A n \in 1..Depth : \A p \in Below(n) : p[1] # 0 =>
         Left(p) \in Below(n - 1) /\ Right(p) \in Below(n - 1)
<1>1. \A p \in Places : p[1] \in 0..Depth
  BY PlaceType
<1>2. \A p \in Places : p[1] # 0 => /\ Left(p) \in Places /\ Left(p)[1] = p[1] - 1
                                    /\ Right(p) \in Places /\ Right(p)[1] = p[1] - 1
  BY Halves
<1>3. QED BY <1>1, <1>2, DepthAssumption DEF Below

PerfectStep(count, f, p) ==
    IF p[1] = 0 THEN IF p[2] < count THEN DepositRoot(p[2]) ELSE <<>>
    ELSE Sha256(f[Left(p)], f[Right(p)])

LEMMA PerfectUnfolds ==
    ASSUME NEW count
    PROVE  \A p \in Places : PerfectRoots(count)[p] = PerfectStep(count, PerfectRoots(count), p)
<1> DEFINE Q == {n \in 0..Depth : \E f : f = [p \in Below(n) |-> PerfectStep(count, f, p)]}
<1>1. 0 \in Q
  <2> DEFINE f == [p \in Below(0) |-> PerfectStep(count, <<>>, p)]
  <2>1. \A p \in Below(0) : p[1] = 0
    BY PlaceType DEF Below
  <2>2. f = [p \in Below(0) |-> PerfectStep(count, f, p)]
    BY <2>1 DEF PerfectStep
  <2> HIDE DEF f
  <2>3. QED BY <2>2, DepthAssumption
<1>2. ASSUME NEW n \in 1..Depth, n - 1 \in Q PROVE n \in Q
  <2>1. PICK f : f = [p \in Below(n - 1) |-> PerfectStep(count, f, p)]
    BY <1>2
  <2> DEFINE g == [p \in Below(n) |-> PerfectStep(count, f, p)]
  <2>2. \A p \in Below(n - 1) : g[p] = f[p]
    <3>1. \A p \in Below(n - 1) : f[p] = PerfectStep(count, f, p)
      BY <2>1
    <3>2. \A p \in Below(n - 1) : g[p] = PerfectStep(count, f, p)
      BY BelowLevels
    <3>3. QED BY <3>1, <3>2
  <2>3. ASSUME NEW p \in Below(n) PROVE PerfectStep(count, f, p) = PerfectStep(count, g, p)
    <3>1. p[1] # 0 => Left(p) \in Below(n - 1) /\ Right(p) \in Below(n - 1)
      BY BelowLevels
    <3> HIDE DEF g
    <3>2. QED BY <2>2, <3>1 DEF PerfectStep
  <2>4. g = [p \in Below(n) |-> PerfectStep(count, g, p)]
    <3>1. \A p \in Below(n) : g[p] = PerfectStep(count, g, p)
      BY <2>3
    <3>2. g = [p \in Below(n) |-> g[p]]
      OBVIOUS
    <3> HIDE DEF g
    <3>3. QED BY <3>1, <3>2
  <2> HIDE DEF g
  <2>5. QED BY <2>4, DepthAssumption
<1>3. Depth \in Q
  <2> HIDE DEF Q
  <2>1. QED BY <1>1, <1>2, LevelInduction, DepthAssumption
<1>4. PerfectRoots(count) = CHOOSE f : f = [p \in Places |-> PerfectStep(count, f, p)]
  BY DEF PerfectRoots, PerfectStep
<1>5. PerfectRoots(count) = [p \in Places |-> PerfectStep(count, PerfectRoots(count), p)]
  <2>1. \E f : f = [p \in Places |-> PerfectStep(count, f, p)]
    BY <1>3, BelowLevels
  <2>2. QED BY <1>4, <2>1
<1>6. QED BY <1>5

LEMMA PerfectLeaf ==
    ASSUME NEW count, NEW p \in Places, p[1] = 0
    PROVE  PerfectRoots(count)[p] = IF p[2] < count THEN DepositRoot(p[2]) ELSE <<>>
BY PerfectUnfolds DEF PerfectStep

LEMMA PerfectNode ==
    ASSUME NEW count, NEW p \in Places, p[1] # 0
    PROVE  PerfectRoots(count)[p] =
             Sha256(PerfectRoots(count)[Left(p)], PerfectRoots(count)[Right(p)])
BY PerfectUnfolds DEF PerfectStep

\* The hash of a subtree that is filled.
FullRoot(p) == PerfectRoots(Beyond(p))[p]

\* Once a subtree is filled, its hash stays.
LEMMA FullRootStays ==
    ASSUME NEW p \in Places, NEW count \in Nat, Beyond(p) <= count
    PROVE  PerfectRoots(count)[p] = FullRoot(p)
<1> DEFINE Same(q) == \A m, n \in Nat : Beyond(q) <= m /\ Beyond(q) <= n =>
                        PerfectRoots(m)[q] = PerfectRoots(n)[q]
           Q == {q \in Places : Same(q)}
<1>1. ASSUME NEW q \in Places, q[1] # 0 => Left(q) \in Q /\ Right(q) \in Q PROVE q \in Q
  <2>1. SUFFICES ASSUME NEW m \in Nat, NEW n \in Nat, Beyond(q) <= m, Beyond(q) <= n
                 PROVE  PerfectRoots(m)[q] = PerfectRoots(n)[q]
    OBVIOUS
  <2>2. CASE q[1] = 0
    <3>1. q[2] < m /\ q[2] < n
      BY <2>1, <2>2, PlaceType, Extent
    <3>2. QED BY <2>2, <3>1, PerfectLeaf
  <2>3. CASE q[1] # 0
    <3>1. \A h \in {Left(q), Right(q)} : Beyond(h) <= m /\ Beyond(h) <= n
      BY <2>1, <2>3, Halves, Extent
    <3>2. Same(Left(q)) /\ Same(Right(q))
      BY <1>1, <2>3
    <3>3. /\ PerfectRoots(m)[Left(q)] = PerfectRoots(n)[Left(q)]
          /\ PerfectRoots(m)[Right(q)] = PerfectRoots(n)[Right(q)]
      BY <3>1, <3>2
    <3>4. QED BY <2>3, <3>3, PerfectNode
  <2>4. QED BY <2>2, <2>3
<1>2. \A q \in Places : q \in Q
  <2> HIDE DEF Q
  <2>1. QED BY <1>1, PlacesUp
<1>3. Same(p)
  BY <1>2
<1>4. Beyond(p) \in Nat /\ Beyond(p) <= Beyond(p)
  BY Extent
<1>5. QED BY <1>3, <1>4 DEF FullRoot

ZeroStep(f, l) == IF l = 0 THEN <<>> ELSE Sha256(f[l - 1], f[l - 1])

LEMMA ZeroUnfolds ==
    \A l \in 0..(Depth - 1) : zerohashes[l] = ZeroStep(zerohashes, l)
<1> DEFINE Q == {n \in 0..Depth : \E f : \A l \in 0..(n - 1) : f[l] = ZeroStep(f, l)}
<1>1. 0 \in Q
  BY DepthAssumption
<1>2. ASSUME NEW n \in 1..Depth, n - 1 \in Q PROVE n \in Q
  <2>1. PICK f : \A l \in 0..((n - 1) - 1) : f[l] = ZeroStep(f, l)
    BY <1>2
  <2> DEFINE g == [l \in 0..(n - 1) |-> ZeroStep(f, l)]
  <2>2. \A l \in 0..((n - 1) - 1) : g[l] = f[l]
    BY <2>1, DepthAssumption
  <2>3. ASSUME NEW l \in 0..(n - 1) PROVE ZeroStep(f, l) = ZeroStep(g, l)
    <3>1. l = 0 \/ l - 1 \in 0..((n - 1) - 1)
      BY DepthAssumption
    <3> HIDE DEF g
    <3>2. QED BY <2>2, <3>1 DEF ZeroStep
  <2>4. \A l \in 0..(n - 1) : g[l] = ZeroStep(g, l)
    BY <2>3
  <2> HIDE DEF g
  <2>5. QED BY <2>4, DepthAssumption
<1>3. Depth \in Q
  <2> HIDE DEF Q
  <2>1. QED BY <1>1, <1>2, LevelInduction, DepthAssumption
<1>4. PICK f : \A l \in 0..(Depth - 1) : f[l] = ZeroStep(f, l)
  BY <1>3
<1> DEFINE g == [l \in 0..(Depth - 1) |-> f[l]]
<1>5. g = [l \in 0..(Depth - 1) |-> ZeroStep(g, l)]
  <2>1. ASSUME NEW l \in 0..(Depth - 1) PROVE g[l] = ZeroStep(g, l)
    <3>1. l = 0 \/ l - 1 \in 0..(Depth - 1)
      BY DepthAssumption
    <3>2. g[l] = ZeroStep(f, l)
      BY <1>4
    <3>3. ZeroStep(f, l) = ZeroStep(g, l)
      BY <3>1 DEF ZeroStep
    <3>4. QED BY <3>2, <3>3
  <2>2. g = [l \in 0..(Depth - 1) |-> g[l]]
    OBVIOUS
  <2> HIDE DEF g
  <2>3. QED BY <2>1, <2>2
<1>6. zerohashes = CHOOSE h : h = [l \in 0..(Depth - 1) |-> ZeroStep(h, l)]
  BY DEF zerohashes, ZeroStep
<1>7. zerohashes = [l \in 0..(Depth - 1) |-> ZeroStep(zerohashes, l)]
  <2> HIDE DEF g
  <2>1. QED BY <1>5, <1>6
<1>8. QED BY <1>7

\* The hash of a subtree that holds no deposit.
LEMMA EmptyRoot ==
    ASSUME NEW count \in Nat, NEW p \in Places, count <= First(p)
    PROVE  /\ p # Top => PerfectRoots(count)[p] = zerohashes[p[1]]
           /\ p = Top => PerfectRoots(count)[p] = Sha256(zerohashes[Depth - 1], zerohashes[Depth - 1])
<1> DEFINE Empty(q) == count <= First(q) /\ q # Top => PerfectRoots(count)[q] = zerohashes[q[1]]
           Q == {q \in Places : Empty(q)}
<1>1. ASSUME NEW q \in Places, q[1] # 0, count <= First(q),
             Left(q) \in Q, Right(q) \in Q
      PROVE  PerfectRoots(count)[q] = Sha256(zerohashes[q[1] - 1], zerohashes[q[1] - 1])
  <2>1. count <= First(Left(q)) /\ count <= First(Right(q))
    BY <1>1, Halves, Extent
  <2>2. Empty(Left(q)) /\ Empty(Right(q))
    BY <1>1
  <2>3. /\ PerfectRoots(count)[Left(q)] = zerohashes[q[1] - 1]
        /\ PerfectRoots(count)[Right(q)] = zerohashes[q[1] - 1]
    BY <1>1, <2>1, <2>2, Halves
  <2>4. QED BY <1>1, <2>3, PerfectNode
<1>2. ASSUME NEW q \in Places, q[1] # 0 => Left(q) \in Q /\ Right(q) \in Q PROVE q \in Q
  <2>1. SUFFICES ASSUME count <= First(q), q # Top PROVE PerfectRoots(count)[q] = zerohashes[q[1]]
    OBVIOUS
  <2>2. q[1] \in 0..(Depth - 1)
    BY <2>1, PlaceType, TopPlace
  <2>3. zerohashes[q[1]] = ZeroStep(zerohashes, q[1])
    BY <2>2, ZeroUnfolds
  <2>4. CASE q[1] = 0
    <3>1. ~(q[2] < count)
      BY <2>1, <2>4, PlaceType, Extent
    <3>2. QED BY <2>3, <2>4, <3>1, PerfectLeaf DEF ZeroStep
  <2>5. CASE q[1] # 0
    <3>1. PerfectRoots(count)[q] = Sha256(zerohashes[q[1] - 1], zerohashes[q[1] - 1])
      <4> HIDE DEF Q
      <4>1. QED BY <1>1, <1>2, <2>1, <2>5
    <3>2. QED BY <2>3, <2>5, <3>1 DEF ZeroStep
  <2>6. QED BY <2>4, <2>5
<1>3. \A q \in Places : q \in Q
  <2> HIDE DEF Q
  <2>1. QED BY <1>2, PlacesUp
<1>4. p # Top => PerfectRoots(count)[p] = zerohashes[p[1]]
  BY <1>3
<1>5. ASSUME p = Top
      PROVE  PerfectRoots(count)[p] = Sha256(zerohashes[Depth - 1], zerohashes[Depth - 1])
  <2>1. p[1] = Depth /\ p[1] # 0
    BY <1>5, TopPlace, DepthAssumption
  <2>2. Left(p) \in Q /\ Right(p) \in Q
    BY <1>3, <2>1, Halves
  <2> HIDE DEF Q
  <2>3. QED BY <1>1, <2>1, <2>2
<1>6. QED BY <1>4, <1>5

-----------------------------------------------------------------------------
(* What a snapshot of f deposits lists: the hashes of the largest filled      *)
(* subtrees, from the left.                                                  *)

PartsStep(f, g, p) ==
    IF Beyond(p) <= f THEN <<FullRoot(p)>>
    ELSE IF f <= First(p) THEN <<>>
    ELSE g[Left(p)] \o g[Right(p)]

PartsOf(f) == CHOOSE g : g = [p \in Places |-> PartsStep(f, g, p)]

\* At the leaves there is nothing in between.
LEMMA SplitIsAbove ==
    ASSUME NEW p \in Places, NEW f \in Nat, First(p) < f, f < Beyond(p)
    PROVE  p[1] # 0
BY Extent, PlaceType

LEMMA PartsUnfold ==
    ASSUME NEW f \in Nat
    PROVE  \A p \in Places : PartsOf(f)[p] = PartsStep(f, PartsOf(f), p)
<1> DEFINE Q == {n \in 0..Depth : \E g : g = [p \in Below(n) |-> PartsStep(f, g, p)]}
<1>0. ASSUME NEW g, NEW h, NEW p \in Places, p[1] # 0 => g[Left(p)] = h[Left(p)] /\ g[Right(p)] = h[Right(p)]
      PROVE  PartsStep(f, g, p) = PartsStep(f, h, p)
  <2>1. CASE p[1] = 0
    <3>1. Beyond(p) <= f \/ f <= First(p)
      BY <2>1, SplitIsAbove, Extent
    <3>2. QED BY <3>1 DEF PartsStep
  <2>2. CASE p[1] # 0
    BY <1>0, <2>2 DEF PartsStep
  <2>3. QED BY <2>1, <2>2
<1>1. 0 \in Q
  <2> DEFINE g == [p \in Below(0) |-> PartsStep(f, <<>>, p)]
  <2>1. ASSUME NEW p \in Below(0) PROVE PartsStep(f, <<>>, p) = PartsStep(f, g, p)
    <3>1. p \in Places /\ p[1] = 0
      BY PlaceType DEF Below
    <3> HIDE DEF g
    <3>2. QED BY <1>0, <3>1
  <2>2. g = [p \in Below(0) |-> PartsStep(f, g, p)]
    <3>1. \A p \in Below(0) : g[p] = PartsStep(f, g, p)
      BY <2>1
    <3>2. g = [p \in Below(0) |-> g[p]]
      OBVIOUS
    <3> HIDE DEF g
    <3>3. QED BY <3>1, <3>2
  <2> HIDE DEF g
  <2>3. QED BY <2>2, DepthAssumption
<1>2. ASSUME NEW n \in 1..Depth, n - 1 \in Q PROVE n \in Q
  <2>1. PICK h : h = [p \in Below(n - 1) |-> PartsStep(f, h, p)]
    BY <1>2
  <2> DEFINE g == [p \in Below(n) |-> PartsStep(f, h, p)]
  <2>2. \A p \in Below(n - 1) : g[p] = h[p]
    <3>1. \A p \in Below(n - 1) : h[p] = PartsStep(f, h, p)
      BY <2>1
    <3>2. \A p \in Below(n - 1) : g[p] = PartsStep(f, h, p)
      BY BelowLevels
    <3>3. QED BY <3>1, <3>2
  <2>3. ASSUME NEW p \in Below(n) PROVE PartsStep(f, h, p) = PartsStep(f, g, p)
    <3>1. p \in Places /\ (p[1] # 0 => Left(p) \in Below(n - 1) /\ Right(p) \in Below(n - 1))
      BY BelowLevels DEF Below
    <3> HIDE DEF g
    <3>2. QED BY <1>0, <2>2, <3>1
  <2>4. g = [p \in Below(n) |-> PartsStep(f, g, p)]
    <3>1. \A p \in Below(n) : g[p] = PartsStep(f, g, p)
      BY <2>3
    <3>2. g = [p \in Below(n) |-> g[p]]
      OBVIOUS
    <3> HIDE DEF g
    <3>3. QED BY <3>1, <3>2
  <2> HIDE DEF g
  <2>5. QED BY <2>4, DepthAssumption
<1>3. Depth \in Q
  <2> HIDE DEF Q
  <2>1. QED BY <1>1, <1>2, LevelInduction, DepthAssumption
<1>4. \E g : g = [p \in Places |-> PartsStep(f, g, p)]
  BY <1>3, BelowLevels
<1>5. PartsOf(f) = [p \in Places |-> PartsStep(f, PartsOf(f), p)]
  BY <1>4 DEF PartsOf
<1>6. QED BY <1>5

LEMMA PartsWhole ==
    ASSUME NEW f \in Nat, NEW p \in Places, Beyond(p) <= f
    PROVE  PartsOf(f)[p] = <<FullRoot(p)>>
BY PartsUnfold DEF PartsStep

LEMMA PartsNone ==
    ASSUME NEW f \in Nat, NEW p \in Places, f <= First(p)
    PROVE  PartsOf(f)[p] = <<>>
<1>1. PartsOf(f)[p] = PartsStep(f, PartsOf(f), p)
  BY PartsUnfold
<1>2. ~(Beyond(p) <= f)
  BY Extent
<1>3. QED BY <1>1, <1>2 DEF PartsStep

LEMMA PartsNode ==
    ASSUME NEW f \in Nat, NEW p \in Places, First(p) < f, f < Beyond(p)
    PROVE  PartsOf(f)[p] = PartsOf(f)[Left(p)] \o PartsOf(f)[Right(p)]
<1>1. PartsOf(f)[p] = PartsStep(f, PartsOf(f), p)
  BY PartsUnfold
<1>2. ~(Beyond(p) <= f) /\ ~(f <= First(p))
  BY Extent
<1>3. QED BY <1>1, <1>2 DEF PartsStep

Hashes == {FullRoot(p) : p \in Places}

LEMMA PartsType ==
    ASSUME NEW f \in Nat
    PROVE  \A p \in Places : PartsOf(f)[p] \in Seq(Hashes)
<1> DEFINE Q == {p \in Places : PartsOf(f)[p] \in Seq(Hashes)}
<1>1. ASSUME NEW p \in Places, p[1] # 0 => Left(p) \in Q /\ Right(p) \in Q PROVE p \in Q
  <2>1. CASE Beyond(p) <= f
    <3>1. FullRoot(p) \in Hashes
      BY DEF Hashes
    <3>2. <<FullRoot(p)>> \in Seq(Hashes)
      BY <3>1
    <3>3. QED BY <2>1, <3>2, PartsWhole
  <2>2. CASE f <= First(p)
    <3>1. PartsOf(f)[p] = <<>>
      BY <2>2, PartsNone
    <3>2. <<>> \in Seq(Hashes)
      BY EmptySeq
    <3>3. QED BY <3>1, <3>2
  <2>3. CASE First(p) < f /\ f < Beyond(p)
    <3>1. p[1] # 0
      BY <2>3, SplitIsAbove
    <3>2. PartsOf(f)[Left(p)] \in Seq(Hashes) /\ PartsOf(f)[Right(p)] \in Seq(Hashes)
      BY <1>1, <3>1
    <3>3. PartsOf(f)[p] = PartsOf(f)[Left(p)] \o PartsOf(f)[Right(p)]
      BY <2>3, PartsNode
    <3>4. QED BY <3>2, <3>3, ConcatProperties
  <2>4. QED BY <2>1, <2>2, <2>3, Extent
<1>2. \A p \in Places : p \in Q
  <2> HIDE DEF Q
  <2>1. QED BY <1>1, PlacesUp
<1>3. QED BY <1>2

\* The list of a subtree that is neither filled nor empty: the one of its left
\* half, or that half and the list of the right one.
LEMMA PartsSplit ==
    ASSUME NEW f \in Nat, NEW p \in Places, First(p) < f, f < Beyond(p)
    PROVE  /\ p[1] # 0
           /\ PartsOf(f)[p] = PartsOf(f)[Left(p)] \o PartsOf(f)[Right(p)]
           /\ f <= First(Right(p)) => PartsOf(f)[p] = PartsOf(f)[Left(p)]
           /\ First(Right(p)) < f =>
                PartsOf(f)[p] = <<FullRoot(Left(p))>> \o PartsOf(f)[Right(p)]
<1>1. p[1] # 0
  BY SplitIsAbove
<1>2. Left(p) \in Places /\ Right(p) \in Places
  BY <1>1, Halves
<1>3. PartsOf(f)[p] = PartsOf(f)[Left(p)] \o PartsOf(f)[Right(p)]
  BY PartsNode
<1>4. ASSUME f <= First(Right(p)) PROVE PartsOf(f)[p] = PartsOf(f)[Left(p)]
  <2>1. PartsOf(f)[Right(p)] = <<>>
    BY <1>2, <1>4, PartsNone
  <2>2. PartsOf(f)[Left(p)] \in Seq(Hashes)
    BY <1>2, PartsType
  <2>3. QED BY <1>3, <2>1, <2>2, ConcatEmptySeq
<1>5. ASSUME First(Right(p)) < f
      PROVE  PartsOf(f)[p] = <<FullRoot(Left(p))>> \o PartsOf(f)[Right(p)]
  <2>1. Beyond(Left(p)) <= f
    BY <1>1, <1>2, <1>5, Halves, Extent
  <2>2. QED BY <1>2, <1>3, <2>1, PartsWhole
<1>6. QED BY <1>1, <1>3, <1>4, <1>5

\* A list has a hash for each bit of the count that is set: no more than levels.
LEMMA PartsLength ==
    ASSUME NEW f \in Nat
    PROVE  \A p \in Places : First(p) < f /\ f < Beyond(p) =>
             Len(PartsOf(f)[p]) \in 1..p[1]
<1> DEFINE Bounded(p) == First(p) < f /\ f < Beyond(p) => Len(PartsOf(f)[p]) \in 1..p[1]
           Q == {p \in Places : Bounded(p)}
<1>1. ASSUME NEW p \in Places, p[1] # 0 => Left(p) \in Q /\ Right(p) \in Q PROVE p \in Q
  <2>1. SUFFICES ASSUME First(p) < f, f < Beyond(p) PROVE Len(PartsOf(f)[p]) \in 1..p[1]
    OBVIOUS
  <2>2. p[1] # 0 /\ p[1] \in Nat
    BY <2>1, PartsSplit, PlaceType
  <2>3. Bounded(Left(p)) /\ Bounded(Right(p)) /\ Left(p) \in Places /\ Right(p) \in Places
    BY <1>1, <2>2
  <2>4. CASE f <= First(Right(p))
    <3>1. PartsOf(f)[p] = PartsOf(f)[Left(p)]
      BY <2>1, <2>4, PartsSplit
    <3>2. CASE f = First(Right(p))
      <4>1. PartsOf(f)[Left(p)] = <<FullRoot(Left(p))>>
        BY <2>2, <2>3, <3>2, Halves, Extent, PartsWhole
      <4>2. Len(<<FullRoot(Left(p))>>) = 1
        OBVIOUS
      <4>3. QED BY <2>2, <3>1, <4>1, <4>2
    <3>3. CASE f # First(Right(p))
      <4>1. First(Left(p)) < f /\ f < Beyond(Left(p)) /\ Left(p)[1] = p[1] - 1
        BY <2>1, <2>2, <2>3, <2>4, <3>3, Halves, Extent
      <4>2. QED BY <2>2, <2>3, <3>1, <4>1
    <3>4. QED BY <3>2, <3>3
  <2>5. CASE First(Right(p)) < f
    <3>1. PartsOf(f)[p] = <<FullRoot(Left(p))>> \o PartsOf(f)[Right(p)]
      BY <2>1, <2>5, PartsSplit
    <3>2. First(Right(p)) < f /\ f < Beyond(Right(p)) /\ Right(p)[1] = p[1] - 1
      BY <2>1, <2>2, <2>5, Halves
    <3>3. Len(PartsOf(f)[Right(p)]) \in 1..(p[1] - 1)
      BY <2>3, <3>2
    <3>4. PartsOf(f)[Right(p)] \in Seq(Hashes) /\ <<FullRoot(Left(p))>> \in Seq(Hashes)
      BY <2>3, PartsType DEF Hashes
    <3>5. Len(PartsOf(f)[p]) = 1 + Len(PartsOf(f)[Right(p)])
      BY <3>1, <3>4, ConcatProperties
    <3>6. QED BY <2>2, <3>3, <3>5
  <2>6. QED BY <2>2, <2>3, <2>4, <2>5, Extent
<1>2. \A p \in Places : p \in Q
  <2> HIDE DEF Q
  <2>1. QED BY <1>1, PlacesUp
<1>3. QED BY <1>2

-----------------------------------------------------------------------------
(* The tree of a client that finalized the first f of its m deposits.         *)

Counts(f, m) == f \in Nat /\ m \in Nat /\ f <= m /\ m < Size[Depth]

\* A subtree with a deposit and with room for one that is not finalized.
Split(f, m, p) == p[1] # 0 /\ First(p) < m /\ f < Beyond(p)

Present(f, m, p) == p = Top \/ Split(f, m, Parent(p))

Pruned(f, m) ==
    [p \in Places |->
        IF ~Present(f, m, p) THEN Absent
        ELSE IF m <= First(p) THEN Zero(p[1])
        ELSE IF Beyond(p) <= f THEN Finalized(Size[p[1]], FullRoot(p))
        ELSE IF p[1] = 0 THEN Leaf(DepositRoot(First(p)))
        ELSE Node]

\* What is split is a node, whose halves are nodes too.
LEMMA SplitPresent ==
    ASSUME NEW f, NEW m, Counts(f, m), NEW p \in Places, Split(f, m, p)
    PROVE  /\ Present(f, m, p)
           /\ Present(f, m, Left(p)) /\ Present(f, m, Right(p))
<1>1. ASSUME p # Top PROVE Split(f, m, Parent(p))
  <2>1. /\ Parent(p) \in Places /\ Parent(p)[1] # 0
        /\ First(Parent(p)) <= First(p) /\ Beyond(p) <= Beyond(Parent(p))
    BY <1>1, Parents
  <2>2. First(p) < m /\ f < Beyond(p) /\ f \in Nat /\ m \in Nat
    BY DEF Split, Counts
  <2>3. First(Parent(p)) < m /\ f < Beyond(Parent(p))
    BY <2>1, <2>2, Extent
  <2>4. QED BY <2>1, <2>3 DEF Split
<1>2. p[1] # 0
  BY DEF Split
<1>3. Parent(Left(p)) = p /\ Parent(Right(p)) = p
  BY <1>2, Halves
<1>4. QED BY <1>1, <1>3 DEF Present

LEMMA PrunedCases ==
    ASSUME NEW f, NEW m, Counts(f, m), NEW p \in Places
    PROVE  LET t == Pruned(f, m)[p]
           IN  /\ ~Present(f, m, p) => t = Absent
               /\ Present(f, m, p) /\ m <= First(p) => t = Zero(p[1])
               /\ Present(f, m, p) /\ Beyond(p) <= f => t = Finalized(Size[p[1]], FullRoot(p))
               /\ Present(f, m, p) /\ First(p) < m /\ f < Beyond(p) /\ p[1] = 0 =>
                    t = Leaf(DepositRoot(First(p)))
               /\ Split(f, m, p) => t = Node
<1>1. f \in Nat /\ m \in Nat /\ f <= m
  BY DEF Counts
<1>2. First(p) \in Nat /\ Beyond(p) \in Nat /\ First(p) < Beyond(p)
  BY Extent
<1>3. Split(f, m, p) => Present(f, m, p) /\ p[1] # 0 /\ First(p) < m /\ f < Beyond(p)
  BY SplitPresent DEF Split
<1>4. Pruned(f, m)[p] = IF ~Present(f, m, p) THEN Absent
                        ELSE IF m <= First(p) THEN Zero(p[1])
                        ELSE IF Beyond(p) <= f THEN Finalized(Size[p[1]], FullRoot(p))
                        ELSE IF p[1] = 0 THEN Leaf(DepositRoot(First(p)))
                        ELSE Node
  BY DEF Pruned
<1>5. QED BY <1>1, <1>2, <1>3, <1>4

\* A place is one of five.
LEMMA PrunedSplit ==
    ASSUME NEW f, NEW m, Counts(f, m), NEW p \in Places
    PROVE  \/ ~Present(f, m, p)
           \/ Present(f, m, p) /\ m <= First(p)
           \/ Present(f, m, p) /\ Beyond(p) <= f
           \/ Present(f, m, p) /\ First(p) < m /\ f < Beyond(p) /\ p[1] = 0
           \/ Split(f, m, p)
BY Extent DEF Counts, Split

\* The fields of the four classes.
LEMMA NodeFields ==
    /\ \A n : Zero(n).kind = "Zero" /\ Zero(n).n = n
    /\ \A h : Leaf(h).kind = "Leaf" /\ Leaf(h).hash = h
    /\ \A n, h : /\ Finalized(n, h).kind = "Finalized"
                 /\ Finalized(n, h).deposit_count = n /\ Finalized(n, h).hash = h
    /\ Node.kind = "Node" /\ Absent.kind = "Absent"
BY DEF Zero, Leaf, Finalized, Node, Absent

LEMMA PrunedKinds ==
    ASSUME NEW f, NEW m, Counts(f, m), NEW p \in Places
    PROVE  LET t == Pruned(f, m)[p]
           IN  /\ t.kind = "Absent" <=> ~Present(f, m, p)
               /\ t.kind = "Zero" <=> Present(f, m, p) /\ m <= First(p)
               /\ t.kind = "Finalized" <=> Present(f, m, p) /\ Beyond(p) <= f
               /\ t.kind = "Leaf" <=>
                    Present(f, m, p) /\ First(p) < m /\ f < Beyond(p) /\ p[1] = 0
               /\ t.kind = "Node" <=> Split(f, m, p)
<1> DEFINE t == Pruned(f, m)[p]
<1>1. /\ f \in Nat /\ m \in Nat /\ f <= m
      /\ First(p) \in Nat /\ Beyond(p) \in Nat /\ First(p) < Beyond(p)
  BY Extent DEF Counts
<1>2. CASE ~Present(f, m, p)
  <2>1. t.kind = "Absent"
    BY <1>2, PrunedCases DEF Absent
  <2>2. ~Split(f, m, p)
    BY <1>2, SplitPresent
  <2>3. QED BY <1>2, <2>1, <2>2
<1>3. CASE Present(f, m, p) /\ m <= First(p)
  <2>1. t.kind = "Zero"
    <3>1. t = Zero(p[1])
      BY <1>3, PrunedCases
    <3>2. QED BY <3>1, NodeFields
  <2>2. ~Split(f, m, p)
    BY <1>1, <1>3 DEF Split
  <2> HIDE DEF t
  <2>3. QED BY <1>1, <1>3, <2>1, <2>2 DEF t
<1>4. CASE Present(f, m, p) /\ Beyond(p) <= f
  <2>1. t.kind = "Finalized"
    <3>1. t = Finalized(Size[p[1]], FullRoot(p))
      BY <1>4, PrunedCases
    <3>2. QED BY <3>1, NodeFields
  <2>2. ~Split(f, m, p)
    BY <1>1, <1>4 DEF Split
  <2>3. QED BY <1>1, <1>4, <2>1, <2>2
<1>5. CASE Present(f, m, p) /\ First(p) < m /\ f < Beyond(p) /\ p[1] = 0
  <2>1. t.kind = "Leaf"
    <3>1. t = Leaf(DepositRoot(First(p)))
      BY <1>5, PrunedCases
    <3>2. QED BY <3>1, NodeFields
  <2>2. ~Split(f, m, p)
    BY <1>5 DEF Split
  <2>3. QED BY <1>1, <1>5, <2>1, <2>2
<1>6. CASE Split(f, m, p)
  <2>1. t.kind = "Node"
    BY <1>6, PrunedCases DEF Node
  <2>2. Present(f, m, p) /\ First(p) < m /\ f < Beyond(p) /\ p[1] # 0
    BY <1>6, SplitPresent DEF Split
  <2>3. QED BY <1>1, <1>6, <2>1, <2>2
<1> HIDE DEF t
<1>7. QED BY <1>2, <1>3, <1>4, <1>5, <1>6, PrunedSplit DEF t

-----------------------------------------------------------------------------
(* What the methods find in such a tree.  Each of them is a function of the    *)
(* places whose values are known beforehand: a function with these values is   *)
(* one that the method may be, and there is no other.                          *)

RootStep(tree, root, p) ==
    CASE tree[p].kind = "Node" -> Sha256(root[Left(p)], root[Right(p)])
      [] tree[p].kind = "Zero" -> IF tree[p].n = Depth
                                    THEN Sha256(zerohashes[Depth - 1], zerohashes[Depth - 1])
                                    ELSE zerohashes[tree[p].n]
      [] OTHER -> tree[p].hash

\* A step of get_root finds the root of the perfect tree if the steps below did.
LEMMA RootStepPruned ==
    ASSUME NEW f, NEW m, Counts(f, m), NEW g, NEW p \in Places,
           Split(f, m, p) => /\ g[Left(p)] = PerfectRoots(m)[Left(p)]
                             /\ g[Right(p)] = PerfectRoots(m)[Right(p)]
    PROVE  /\ Present(f, m, p) => RootStep(Pruned(f, m), g, p) = PerfectRoots(m)[p]
           /\ ~Present(f, m, p) => RootStep(Pruned(f, m), g, p) = Absent.hash
<1> DEFINE t == Pruned(f, m)
<1>0. f \in Nat /\ m \in Nat /\ f <= m /\ p[1] \in Nat
  BY PlaceType DEF Counts
<1>1. CASE ~Present(f, m, p)
  <2>1. t[p] = Absent /\ t[p].kind = "Absent"
    BY <1>1, PrunedCases, NodeFields
  <2> HIDE DEF t
  <2>2. RootStep(t, g, p) = t[p].hash
    BY <2>1 DEF RootStep
  <2>3. QED BY <1>1, <2>1, <2>2 DEF t
<1>2. CASE Present(f, m, p) /\ m <= First(p)
  <2>1. t[p] = Zero(p[1])
    BY <1>2, PrunedCases
  <2>2. t[p].kind = "Zero" /\ t[p].n = p[1]
    BY <2>1, NodeFields
  <2> HIDE DEF t
  <2>3. RootStep(t, g, p) = IF p[1] = Depth THEN Sha256(zerohashes[Depth - 1], zerohashes[Depth - 1])
                            ELSE zerohashes[p[1]]
    BY <2>2 DEF RootStep
  <2>4. p = Top <=> p[1] = Depth
    BY TopPlace
  <2>5. QED BY <1>0, <1>2, <2>3, <2>4, EmptyRoot DEF t
<1>3. CASE Present(f, m, p) /\ Beyond(p) <= f
  <2>1. t[p] = Finalized(Size[p[1]], FullRoot(p))
    BY <1>3, PrunedCases
  <2>2. t[p].kind = "Finalized" /\ t[p].hash = FullRoot(p)
    BY <2>1, NodeFields
  <2> HIDE DEF t
  <2>3. RootStep(t, g, p) = FullRoot(p)
    BY <2>2 DEF RootStep
  <2>4. Beyond(p) <= m
    BY <1>0, <1>3, Extent
  <2>5. QED BY <1>0, <1>3, <2>3, <2>4, FullRootStays DEF t
<1>4. CASE Present(f, m, p) /\ First(p) < m /\ f < Beyond(p) /\ p[1] = 0
  <2>1. t[p] = Leaf(DepositRoot(First(p)))
    BY <1>4, PrunedCases
  <2>2. t[p].kind = "Leaf" /\ t[p].hash = DepositRoot(First(p))
    BY <2>1, NodeFields
  <2> HIDE DEF t
  <2>3. RootStep(t, g, p) = DepositRoot(First(p))
    BY <2>2 DEF RootStep
  <2>4. First(p) = p[2]
    BY <1>4, Extent
  <2>5. QED BY <1>4, <2>3, <2>4, PerfectLeaf DEF t
<1>5. CASE Split(f, m, p)
  <2>1. t[p] = Node /\ t[p].kind = "Node"
    BY <1>5, PrunedCases, NodeFields
  <2> HIDE DEF t
  <2>2. RootStep(t, g, p) = Sha256(g[Left(p)], g[Right(p)])
    BY <2>1 DEF RootStep
  <2>3. Present(f, m, p) /\ p[1] # 0
    BY <1>5, SplitPresent DEF Split
  <2>4. QED BY <1>5, <2>2, <2>3, PerfectNode DEF t
<1> HIDE DEF t
<1>6. QED BY <1>1, <1>2, <1>3, <1>4, <1>5, PrunedSplit DEF t

\* get_root of every subtree there is finds the root of the perfect tree.
LEMMA RootsPruned ==
    ASSUME NEW f, NEW m, Counts(f, m)
    PROVE  \A p \in Places : Present(f, m, p) => Roots(Pruned(f, m))[p] = PerfectRoots(m)[p]
<1> DEFINE t == Pruned(f, m)
           known == [p \in Places |-> IF Present(f, m, p) THEN PerfectRoots(m)[p] ELSE Absent.hash]
<1>1. ASSUME NEW p \in Places, Split(f, m, p)
      PROVE  /\ Left(p) \in Places /\ Right(p) \in Places
             /\ Present(f, m, Left(p)) /\ Present(f, m, Right(p))
  BY <1>1, SplitPresent, Halves DEF Split
<1>2. \E g : g = [p \in Places |-> RootStep(t, g, p)]
  <2>1. \A p \in Places : Split(f, m, p) => /\ known[Left(p)] = PerfectRoots(m)[Left(p)]
                                            /\ known[Right(p)] = PerfectRoots(m)[Right(p)]
    BY <1>1
  <2>2. \A p \in Places : known[p] = IF Present(f, m, p) THEN PerfectRoots(m)[p] ELSE Absent.hash
    OBVIOUS
  <2>3. known = [p \in Places |-> known[p]]
    OBVIOUS
  <2> HIDE DEF known, t
  <2>4. \A p \in Places : known[p] = RootStep(t, known, p)
    BY <2>1, <2>2, RootStepPruned DEF t
  <2>5. known = [p \in Places |-> RootStep(t, known, p)]
    BY <2>3, <2>4
  <2>6. QED BY <2>5
<1>3. Roots(t) = [p \in Places |-> RootStep(t, Roots(t), p)]
  <2> HIDE DEF t
  <2>1. Roots(t) = CHOOSE g : g = [p \in Places |-> RootStep(t, g, p)]
    BY DEF Roots, RootStep
  <2>2. QED BY <1>2, <2>1
<1> DEFINE Agrees(p) == Present(f, m, p) => Roots(t)[p] = PerfectRoots(m)[p]
           Q == {p \in Places : Agrees(p)}
<1>4. ASSUME NEW p \in Places, p[1] # 0 => Left(p) \in Q /\ Right(p) \in Q PROVE p \in Q
  <2>1. Split(f, m, p) => /\ Roots(t)[Left(p)] = PerfectRoots(m)[Left(p)]
                          /\ Roots(t)[Right(p)] = PerfectRoots(m)[Right(p)]
    BY <1>1, <1>4 DEF Split
  <2>2. Roots(t)[p] = RootStep(t, Roots(t), p)
    <3> HIDE DEF t
    <3>1. QED BY <1>3
  <2> HIDE DEF t
  <2>3. Agrees(p)
    BY <2>1, <2>2, RootStepPruned DEF t
  <2>4. QED BY <2>3
<1>5. \A p \in Places : p \in Q
  <2> HIDE DEF Q
  <2>1. QED BY <1>4, PlacesUp
<1>6. QED BY <1>5

FullStep(tree, full, p) ==
    \/ tree[p].kind \in {"Leaf", "Finalized"}
    \/ tree[p].kind = "Node" /\ full[Right(p)]

\* A subtree is full if the deposits reach beyond it.
Filled(f, m, p) == Present(f, m, p) /\ Beyond(p) <= m

LEMMA FullStepPruned ==
    ASSUME NEW f, NEW m, Counts(f, m), NEW g, NEW p \in Places,
           Split(f, m, p) => (g[Right(p)] <=> Filled(f, m, Right(p)))
    PROVE  FullStep(Pruned(f, m), g, p) <=> Filled(f, m, p)
<1> DEFINE k == Pruned(f, m)[p].kind
<1>0. /\ f \in Nat /\ m \in Nat /\ f <= m
      /\ First(p) \in Nat /\ Beyond(p) \in Nat /\ First(p) < Beyond(p)
      /\ p[1] = 0 => Beyond(p) = First(p) + 1
  BY Extent DEF Counts
<1>1. FullStep(Pruned(f, m), g, p) <=> k = "Leaf" \/ k = "Finalized" \/ (k = "Node" /\ g[Right(p)])
  BY DEF FullStep
<1>2. /\ k = "Finalized" <=> Present(f, m, p) /\ Beyond(p) <= f
      /\ k = "Leaf" <=> Present(f, m, p) /\ First(p) < m /\ f < Beyond(p) /\ p[1] = 0
      /\ k = "Node" <=> Split(f, m, p)
  BY PrunedKinds
<1> HIDE DEF k
<1>3. CASE Split(f, m, p)
  <2>1. Present(f, m, p) /\ Present(f, m, Right(p)) /\ p[1] # 0 /\ f < Beyond(p)
    BY <1>3, SplitPresent DEF Split
  <2>2. Beyond(Right(p)) = Beyond(p)
    BY <2>1, Halves
  <2>3. g[Right(p)] <=> Filled(f, m, p)
    BY <1>3, <2>1, <2>2 DEF Filled
  <2>4. k = "Node"
    BY <1>2, <1>3
  <2>5. QED BY <1>1, <2>3, <2>4
<1>4. CASE ~Split(f, m, p)
  <2>1. Filled(f, m, p) <=> k = "Leaf" \/ k = "Finalized"
    BY <1>0, <1>2, <1>4, PrunedSplit DEF Filled
  <2>2. k # "Node"
    BY <1>2, <1>4
  <2>3. QED BY <1>1, <2>1, <2>2
<1>5. QED BY <1>3, <1>4

LEMMA FullPruned ==
    ASSUME NEW f, NEW m, Counts(f, m)
    PROVE  \A p \in Places : IsFull(Pruned(f, m))[p] <=> Filled(f, m, p)
<1> DEFINE t == Pruned(f, m)
           known == [p \in Places |-> Filled(f, m, p)]
<1>1. ASSUME NEW p \in Places, Split(f, m, p) PROVE Right(p) \in Places
  BY <1>1, Halves DEF Split
<1>2. \E g : g = [p \in Places |-> FullStep(t, g, p)]
  <2>1. \A p \in Places : known[p] <=> Filled(f, m, p)
    OBVIOUS
  <2>2. known = [p \in Places |-> Filled(f, m, p)]
    OBVIOUS
  <2> HIDE DEF known, t
  <2>3. ASSUME NEW p \in Places PROVE Filled(f, m, p) = FullStep(t, known, p)
    <3>1. Split(f, m, p) => (known[Right(p)] <=> Filled(f, m, Right(p)))
      BY <1>1, <2>1
    <3>2. Filled(f, m, p) <=> FullStep(t, known, p)
      BY <3>1, FullStepPruned DEF t
    <3>3. Filled(f, m, p) \in BOOLEAN /\ FullStep(t, known, p) \in BOOLEAN
      BY DEF Filled, FullStep
    <3>4. QED BY <3>2, <3>3
  <2>4. known = [p \in Places |-> FullStep(t, known, p)]
    BY <2>2, <2>3
  <2>5. QED BY <2>4
<1>3. IsFull(t) = [p \in Places |-> FullStep(t, IsFull(t), p)]
  <2> HIDE DEF t
  <2>1. IsFull(t) = CHOOSE g : g = [p \in Places |-> FullStep(t, g, p)]
    BY DEF IsFull, FullStep
  <2>2. QED BY <1>2, <2>1
<1> DEFINE Agrees(p) == IsFull(t)[p] <=> Filled(f, m, p)
           Q == {p \in Places : Agrees(p)}
<1>4. ASSUME NEW p \in Places, p[1] # 0 => Left(p) \in Q /\ Right(p) \in Q PROVE p \in Q
  <2>1. Split(f, m, p) => (IsFull(t)[Right(p)] <=> Filled(f, m, Right(p)))
    BY <1>1, <1>4 DEF Split
  <2>2. IsFull(t)[p] = FullStep(t, IsFull(t), p)
    <3> HIDE DEF t
    <3>1. QED BY <1>3
  <2> HIDE DEF t
  <2>3. Agrees(p)
    BY <2>1, <2>2, FullStepPruned DEF t
  <2>4. QED BY <2>3
<1>5. \A p \in Places : p \in Q
  <2> HIDE DEF Q
  <2>1. QED BY <1>4, PlacesUp
<1>6. QED BY <1>5

EnteredStep(tree, entered, p) ==
    \/ p = Top
    \/ /\ p # Top
       /\ entered[Parent(p)]
       /\ tree[Parent(p)].kind = "Node"
       /\ \/ p = Left(Parent(p)) /\ ~IsFull(tree)[p]
          \/ p = Right(Parent(p)) /\ IsFull(tree)[Left(Parent(p))]

\* push_leaf goes to the place of the next deposit.
AtNext(f, m, p) == Present(f, m, p) /\ Holds(p, m)

LEMMA EnteredStepPruned ==
    ASSUME NEW f, NEW m, Counts(f, m), NEW g, NEW p \in Places,
           p # Top => (g[Parent(p)] <=> AtNext(f, m, Parent(p)))
    PROVE  EnteredStep(Pruned(f, m), g, p) <=> AtNext(f, m, p)
<1> DEFINE t == Pruned(f, m)
           q == Parent(p)
<1>0. f \in Nat /\ m \in Nat /\ f <= m /\ m < Size[Depth]
  BY DEF Counts
<1>1. CASE p = Top
  <2>1. AtNext(f, m, p)
    BY <1>0, <1>1, TopPlace DEF AtNext, Present, Holds
  <2>2. QED BY <1>1, <2>1 DEF EnteredStep
<1>2. CASE p # Top /\ ~Split(f, m, q)
  <2>1. q \in Places
    BY <1>2, Parents
  <2>2. t[q].kind # "Node"
    <3> HIDE DEF q
    <3>1. QED BY <1>2, <2>1, PrunedKinds
  <2>3. ~Present(f, m, p)
    BY <1>2 DEF Present
  <2> HIDE DEF t
  <2>4. ~EnteredStep(t, g, p)
    BY <1>2, <2>2 DEF EnteredStep
  <2>5. QED BY <2>3, <2>4 DEF AtNext, t
<1>3. CASE p # Top /\ Split(f, m, q)
  <2>1. q \in Places /\ q[1] # 0
    BY <1>3, Parents
  <2> HIDE DEF q
  <2>2. t[q].kind = "Node"
    BY <1>3, <2>1, PrunedKinds
  <2>3. Present(f, m, p) /\ Present(f, m, q) /\ Present(f, m, Left(q))
    BY <1>3, <2>1, SplitPresent DEF Present, q
  <2>4. g[q] <=> Holds(q, m)
    BY <1>3, <2>3 DEF AtNext, q
  <2>5. Left(q) \in Places /\ (p = Left(q) \/ p = Right(q)) /\ Left(q) # Right(q)
    BY <1>3, <2>1, Parents, Halves DEF q
  <2>6. IsFull(t)[Left(q)] <=> Beyond(Left(q)) <= m
    BY <2>3, <2>5, FullPruned DEF Filled
  <2>7. EnteredStep(t, g, p) <=> /\ Holds(q, m)
                                 /\ \/ p = Left(q) /\ ~(Beyond(Left(q)) <= m)
                                    \/ p = Right(q) /\ Beyond(Left(q)) <= m
    <3> HIDE DEF t
    <3>1. QED BY <1>3, <2>2, <2>4, <2>6 DEF EnteredStep, q
  <2>8. /\ First(Left(q)) = First(q) /\ Beyond(Left(q)) = First(Right(q))
        /\ Beyond(Right(q)) = Beyond(q) /\ First(q) < First(Right(q)) /\ First(Right(q)) < Beyond(q)
    BY <2>1, Halves
  <2>9. First(q) \in Nat /\ Beyond(q) \in Nat /\ First(Right(q)) \in Nat
    BY <2>1, Halves, Extent
  <2>10. CASE p = Left(q)
    <3>1. Holds(p, m) <=> Holds(q, m) /\ ~(Beyond(Left(q)) <= m)
      BY <1>0, <2>8, <2>9, <2>10 DEF Holds
    <3>2. QED BY <2>3, <2>5, <2>7, <2>10, <3>1 DEF AtNext, t
  <2>11. CASE p = Right(q)
    <3>1. Holds(p, m) <=> Holds(q, m) /\ Beyond(Left(q)) <= m
      BY <1>0, <2>8, <2>9, <2>11 DEF Holds
    <3>2. QED BY <2>3, <2>5, <2>7, <2>11, <3>1 DEF AtNext, t
  <2>12. QED BY <2>5, <2>10, <2>11
<1>4. QED BY <1>1, <1>2, <1>3

LEMMA EnteredPruned ==
    ASSUME NEW f, NEW m, Counts(f, m)
    PROVE  \A p \in Places : Entered(Pruned(f, m))[p] <=> AtNext(f, m, p)
<1> DEFINE t == Pruned(f, m)
           known == [p \in Places |-> AtNext(f, m, p)]
<1>1. \A p \in Places : p # Top => Parent(p) \in Places
  BY Parents
<1>2. \E g : g = [p \in Places |-> EnteredStep(t, g, p)]
  <2>1. \A p \in Places : known[p] <=> AtNext(f, m, p)
    OBVIOUS
  <2>2. known = [p \in Places |-> AtNext(f, m, p)]
    OBVIOUS
  <2> HIDE DEF known, t
  <2>3. ASSUME NEW p \in Places PROVE AtNext(f, m, p) = EnteredStep(t, known, p)
    <3>1. p # Top => (known[Parent(p)] <=> AtNext(f, m, Parent(p)))
      BY <1>1, <2>1
    <3>2. AtNext(f, m, p) <=> EnteredStep(t, known, p)
      BY <3>1, EnteredStepPruned DEF t
    <3>3. AtNext(f, m, p) \in BOOLEAN /\ EnteredStep(t, known, p) \in BOOLEAN
      BY DEF AtNext, EnteredStep
    <3>4. QED BY <3>2, <3>3
  <2>4. known = [p \in Places |-> EnteredStep(t, known, p)]
    BY <2>2, <2>3
  <2>5. QED BY <2>4
<1>3. Entered(t) = [p \in Places |-> EnteredStep(t, Entered(t), p)]
  <2> HIDE DEF t
  <2>1. Entered(t) = CHOOSE g : g = [p \in Places |-> EnteredStep(t, g, p)]
    BY DEF Entered, EnteredStep
  <2>2. QED BY <1>2, <2>1
<1> DEFINE Agrees(p) == Entered(t)[p] <=> AtNext(f, m, p)
           Q == {p \in Places : Agrees(p)}
<1>4. ASSUME NEW p \in Places, p # Top => Parent(p) \in Q PROVE p \in Q
  <2>1. p # Top => (Entered(t)[Parent(p)] <=> AtNext(f, m, Parent(p)))
    BY <1>4
  <2>2. Entered(t)[p] = EnteredStep(t, Entered(t), p)
    <3> HIDE DEF t
    <3>1. QED BY <1>3
  <2> HIDE DEF t
  <2>3. Agrees(p)
    BY <2>1, <2>2, EnteredStepPruned DEF t
  <2>4. QED BY <2>3
<1>5. \A p \in Places : p \in Q
  <2> HIDE DEF Q
  <2>1. QED BY <1>4, PlacesDown
<1>6. QED BY <1>5

-----------------------------------------------------------------------------
(* push_leaf. *)

\* What push_leaf reaches is zero, and begins with the next deposit.
LEMMA ZeroReached ==
    ASSUME NEW f, NEW m, Counts(f, m)
    PROVE  \E z \in Places : AtNext(f, m, z) /\ Pruned(f, m)[z].kind = "Zero"
<1> DEFINE Ends == \E z \in Places : AtNext(f, m, z) /\ Pruned(f, m)[z].kind = "Zero"
           Q == {p \in Places : AtNext(f, m, p) => Ends}
<1>0. f \in Nat /\ m \in Nat /\ f <= m /\ m < Size[Depth]
  BY DEF Counts
<1>1. ASSUME NEW p \in Places, p[1] # 0 => Left(p) \in Q /\ Right(p) \in Q PROVE p \in Q
  <2>1. SUFFICES ASSUME AtNext(f, m, p) PROVE Ends
    OBVIOUS
  <2>2. Present(f, m, p) /\ First(p) <= m /\ m < Beyond(p)
    BY <2>1 DEF AtNext, Holds
  <2>3. First(p) \in Nat /\ Beyond(p) \in Nat /\ (p[1] = 0 => Beyond(p) = First(p) + 1)
    BY Extent
  <2>4. CASE m <= First(p)
    <3>1. Pruned(f, m)[p].kind = "Zero"
      BY <2>2, <2>4, PrunedKinds
    <3>2. QED BY <2>1, <3>1
  <2>5. CASE Split(f, m, p)
    <3>1. p[1] # 0
      BY <2>5 DEF Split
    <3>2. PICK h \in {Left(p), Right(p)} : Holds(h, m)
      BY <1>0, <2>1, <3>1, HeldByHalf DEF AtNext
    <3>3. h \in Q /\ Present(f, m, h)
      <4> HIDE DEF Q
      <4>1. QED BY <1>1, <2>5, <3>1, <3>2, SplitPresent
    <3>4. AtNext(f, m, h)
      BY <3>2, <3>3 DEF AtNext
    <3>5. QED BY <3>3, <3>4
  <2>6. m <= First(p) \/ Split(f, m, p)
    BY <1>0, <2>2, <2>3, PrunedSplit
  <2>7. QED BY <2>4, <2>5, <2>6
<1>2. \A p \in Places : p \in Q
  <2> HIDE DEF Q
  <2>1. QED BY <1>1, PlacesUp
<1>3. AtNext(f, m, Top)
  BY <1>0, TopPlace DEF AtNext, Present, Holds
<1>4. QED BY <1>2, <1>3, TopPlace

\* The places that the new leaf changes.
LEMMA PushInside ==
    ASSUME NEW f, NEW m, Counts(f, m), Counts(f, m + 1),
           NEW z \in Places, Present(f, m, z), First(z) = m,
           NEW p \in Places, Within(p, z)
    PROVE  Create(DepositRoot(m), z)[p] = Pruned(f, m + 1)[p]
<1>0. f \in Nat /\ m \in Nat /\ f <= m /\ p[1] \in Nat /\ z[1] \in Nat
  BY PlaceType DEF Counts
<1>1. /\ First(p) \in Nat /\ Beyond(p) \in Nat /\ First(p) < Beyond(p)
      /\ m <= First(p) /\ First(p) < Beyond(z) /\ p[1] <= z[1] /\ Beyond(z) \in Nat
  BY Extent DEF Within
<1>2. Create(DepositRoot(m), z)[p] =
        CASE First(p) = m /\ p[1] = 0 -> Leaf(DepositRoot(m))
          [] First(p) = m /\ p[1] > 0 -> Node
          [] First(p) # m /\ First(Parent(p)) = m -> Zero(p[1])
          [] OTHER -> Absent
  BY DEF Create
<1>3. Present(f, m + 1, z)
  <2>1. ASSUME z # Top PROVE First(Parent(z)) \in Nat
    BY <2>1, Parents, Extent
  <2>2. QED BY <1>0, <2>1 DEF Present, Split
<1>4. p # z => /\ p # Top /\ Parent(p) \in Places /\ Parent(p)[1] # 0
               /\ m <= First(Parent(p)) /\ First(Parent(p)) <= First(p)
               /\ f < Beyond(Parent(p)) /\ First(Parent(p)) \in Nat
  <2>1. SUFFICES ASSUME p # z PROVE /\ p # Top /\ Parent(p) \in Places /\ Parent(p)[1] # 0
               /\ m <= First(Parent(p)) /\ First(Parent(p)) <= First(p)
               /\ f < Beyond(Parent(p)) /\ First(Parent(p)) \in Nat
    OBVIOUS
  <2>2. Holds(p, First(p)) /\ Holds(z, First(p))
    BY <1>1 DEF Holds
  <2>3. p # Top /\ m <= First(Parent(p))
    BY <1>1, <2>1, <2>2, Nested
  <2>4. /\ Parent(p) \in Places /\ Parent(p)[1] # 0 /\ First(Parent(p)) <= First(p)
        /\ First(Parent(p)) \in Nat /\ Beyond(Parent(p)) \in Nat
        /\ First(Parent(p)) < Beyond(Parent(p))
    BY <2>3, Parents, Extent
  <2>5. QED BY <1>0, <2>3, <2>4
<1>5. CASE First(p) = m
  <2>1. Present(f, m + 1, p)
    <3>1. CASE p = z
      BY <1>3, <3>1
    <3>2. CASE p # z
      <4>1. First(Parent(p)) < m + 1
        BY <1>0, <1>4, <1>5, <3>2
      <4>2. QED BY <1>4, <3>2, <4>1 DEF Present, Split
    <3>3. QED BY <3>1, <3>2
  <2>2. First(p) < m + 1 /\ f < Beyond(p)
    BY <1>0, <1>1, <1>5
  <2>3. CASE p[1] = 0
    BY <1>2, <1>5, <2>1, <2>2, <2>3, PrunedCases
  <2>4. CASE p[1] # 0
    <3>1. Split(f, m + 1, p) /\ p[1] > 0
      BY <1>0, <2>2, <2>4 DEF Split
    <3>2. Pruned(f, m + 1)[p] = Node
      BY <3>1, PrunedCases
    <3>3. QED BY <1>2, <1>5, <2>4, <3>1, <3>2
  <2>5. QED BY <2>3, <2>4
<1>6. CASE First(p) # m
  <2>1. p # z /\ m + 1 <= First(p)
    BY <1>0, <1>1, <1>6
  <2>2. CASE First(Parent(p)) = m
    <3>1. Present(f, m + 1, p)
      BY <1>0, <1>4, <2>1, <2>2 DEF Present, Split
    <3>2. Pruned(f, m + 1)[p] = Zero(p[1])
      BY <2>1, <3>1, PrunedCases
    <3>3. QED BY <1>2, <1>6, <2>2, <3>2
  <2>3. CASE First(Parent(p)) # m
    <3>1. ~Present(f, m + 1, p)
      BY <1>0, <1>4, <2>1, <2>3 DEF Present, Split
    <3>2. Pruned(f, m + 1)[p] = Absent
      BY <3>1, PrunedCases
    <3>3. QED BY <1>2, <1>6, <2>3, <3>2
  <2>4. QED BY <2>2, <2>3
<1>7. QED BY <1>5, <1>6

\* The places that it leaves alone.
LEMMA PushOutside ==
    ASSUME NEW f, NEW m, Counts(f, m), Counts(f, m + 1),
           NEW z \in Places, Present(f, m, z), First(z) = m,
           NEW p \in Places, ~Within(p, z)
    PROVE  Pruned(f, m)[p] = Pruned(f, m + 1)[p]
<1>0. f \in Nat /\ m \in Nat /\ f <= m /\ m + 1 \in Nat
  BY DEF Counts
<1>1. ASSUME NEW q \in Places, First(q) = m
      PROVE  q[1] <= z[1] /\ First(z) <= First(q) /\ Beyond(q) <= Beyond(z)
  <2>1. Holds(q, m) /\ Holds(z, m) /\ q[1] \in Nat /\ z[1] \in Nat
    BY <1>1, Extent, PlaceType DEF Holds
  <2>2. CASE q[1] <= z[1]
    BY <1>0, <2>1, <2>2, Nested
  <2>3. CASE z[1] < q[1]
    <3>1. z # Top /\ First(q) <= First(Parent(z))
      BY <1>0, <2>1, <2>3, Nested
    <3>2. First(Parent(z)) < m /\ First(Parent(z)) \in Nat
      BY <3>1, Parents, Extent DEF Present, Split
    <3>3. QED BY <1>0, <1>1, <3>1, <3>2
  <2>4. QED BY <2>1, <2>2, <2>3
<1>2. First(p) \in Nat /\ Beyond(p) \in Nat /\ First(p) < Beyond(p) /\ p[1] \in Nat /\ z[1] \in Nat
      /\ Beyond(z) \in Nat
  BY Extent, PlaceType
<1>3. First(p) # m
  <2>1. SUFFICES ASSUME First(p) = m PROVE FALSE
    OBVIOUS
  <2>2. p[1] <= z[1] /\ First(z) <= First(p) /\ Beyond(p) <= Beyond(z)
    BY <1>1, <2>1
  <2>3. Within(p, z)
    BY <1>2, <2>2 DEF Within
  <2>4. QED BY <2>3
<1>4. Present(f, m, p) <=> Present(f, m + 1, p)
  <2>1. CASE p = Top
    BY <2>1 DEF Present
  <2>2. CASE p # Top
    <3> DEFINE q == Parent(p)
    <3>1. /\ q \in Places /\ First(q) \in Nat /\ Beyond(q) \in Nat /\ q[1] = p[1] + 1
          /\ First(q) <= First(p) /\ Beyond(p) <= Beyond(q)
      BY <2>2, Parents, Extent
    <3> HIDE DEF q
    <3>2. First(q) # m
      <4>1. SUFFICES ASSUME First(q) = m PROVE FALSE
        OBVIOUS
      <4>2. q[1] <= z[1] /\ First(z) <= First(q) /\ Beyond(q) <= Beyond(z)
        BY <1>1, <3>1, <4>1
      <4>3. Within(p, z)
        BY <1>0, <1>2, <3>1, <4>1, <4>2 DEF Within
      <4>4. QED BY <4>3
    <3>3. Split(f, m, q) <=> Split(f, m + 1, q)
      BY <1>0, <3>1, <3>2 DEF Split
    <3>4. QED BY <2>2, <3>3 DEF Present, q
  <2>3. QED BY <2>1, <2>2
<1>5. m <= First(p) <=> m + 1 <= First(p)
  BY <1>0, <1>2, <1>3
<1>6. QED BY <1>4, <1>5 DEF Pruned

LEMMA PushPruned ==
    ASSUME NEW f, NEW m, Counts(f, m), m + 1 < Size[Depth]
    PROVE  PushLeaf(Pruned(f, m), DepositRoot(m)) = Pruned(f, m + 1)
<1> DEFINE t == Pruned(f, m)
           z == CHOOSE p \in Places : Entered(t)[p] /\ t[p].kind = "Zero"
           new == Create(DepositRoot(m), z)
<1>1. \E p \in Places : Entered(t)[p] /\ t[p].kind = "Zero"
  BY ZeroReached, EnteredPruned
<1>2. z \in Places /\ Entered(t)[z] /\ t[z].kind = "Zero"
  <2> HIDE DEF t
  <2>1. QED BY <1>1
<1>3. Counts(f, m + 1)
  BY DEF Counts
<1>4. PushLeaf(t, DepositRoot(m)) = [p \in Places |-> IF p \in DOMAIN new THEN new[p] ELSE t[p]]
  BY DEF PushLeaf
<1> HIDE DEF z
<1>5. Present(f, m, z) /\ First(z) = m
  <2>1. AtNext(f, m, z) /\ m <= First(z)
    BY <1>2, EnteredPruned, PrunedKinds
  <2>2. QED BY <1>2, <2>1, Extent DEF AtNext, Holds, Counts
<1>6. DOMAIN new = {p \in Places : Within(p, z)}
  BY DEF Create
<1>7. ASSUME NEW p \in Places
      PROVE  Pruned(f, m + 1)[p] = IF p \in DOMAIN new THEN new[p] ELSE t[p]
  <2>1. CASE Within(p, z)
    <3>1. new[p] = Pruned(f, m + 1)[p]
      BY <1>2, <1>3, <1>5, <2>1, PushInside
    <3> HIDE DEF new, t
    <3>2. QED BY <1>6, <2>1, <3>1
  <2>2. CASE ~Within(p, z)
    <3>1. t[p] = Pruned(f, m + 1)[p]
      BY <1>2, <1>3, <1>5, <2>2, PushOutside
    <3> HIDE DEF new, t
    <3>2. QED BY <1>6, <2>2, <3>1
  <2>3. QED BY <2>1, <2>2
<1>8. Pruned(f, m + 1) = [p \in Places |-> Pruned(f, m + 1)[p]]
  BY DEF Pruned
<1> HIDE DEF t, new
<1>9. QED BY <1>4, <1>7, <1>8 DEF t

-----------------------------------------------------------------------------
(* finalize. *)

CallStep(tree, count, called, p) ==
    IF p = Top THEN count
    ELSE IF tree[p].kind = "Absent" THEN NotCalled
    ELSE LET q == Parent(p)
             above == called[q]
             half == Size[p[1]]
         IN  IF above < 0 THEN above
             ELSE IF Replaced(tree[q], q[1], above) THEN Dropped
             ELSE IF p = Left(q) THEN above
             ELSE IF EntersRight(above, half) THEN above - half ELSE NotCalled

\* finalize is called with as many deposits as remain from the first of the
\* subtree on, unless a larger one was replaced.
CallOf(f, m, c, p) ==
    IF p = Top THEN c
    ELSE IF ~Present(f, m, p) THEN NotCalled
    ELSE IF Beyond(Parent(p)) <= c THEN Dropped
    ELSE IF First(p) < c THEN c - First(p)
    ELSE NotCalled

LEMMA CallStepPruned ==
    ASSUME NEW f, NEW m, Counts(f, m), NEW c \in 1..m, NEW g, NEW p \in Places,
           p # Top => g[Parent(p)] = CallOf(f, m, c, Parent(p))
    PROVE  CallStep(Pruned(f, m), c, g, p) = CallOf(f, m, c, p)
<1> DEFINE t == Pruned(f, m)
           q == Parent(p)
           above == g[q]
           half == Size[p[1]]
<1>0. f \in Nat /\ m \in Nat /\ c \in Nat /\ 1 <= c /\ c < Size[Depth] /\ Size[Depth] \in Nat
  BY Sizes, DepthAssumption DEF Counts
<1>1. CASE p = Top
  BY <1>1 DEF CallStep, CallOf
<1>2. CASE p # Top /\ ~Present(f, m, p)
  <2>1. t[p].kind = "Absent"
    BY <1>2, PrunedKinds
  <2> HIDE DEF t
  <2>2. CallStep(t, c, g, p) = NotCalled
    BY <1>2, <2>1 DEF CallStep
  <2>3. QED BY <1>2, <2>2 DEF CallOf, t
<1>3. CASE p # Top /\ Present(f, m, p)
  <2>1. /\ q \in Places /\ q[1] # 0 /\ q[1] - 1 = p[1] /\ (p = Left(q) \/ p = Right(q))
        /\ above = CallOf(f, m, c, q)
    BY <1>3, Parents
  <2>2. Split(f, m, q) /\ Present(f, m, q)
    BY <1>3, <2>1, SplitPresent DEF Present
  <2>3. t[p].kind # "Absent" /\ t[q].kind = "Node"
    <3> HIDE DEF q
    <3>1. QED BY <1>3, <2>1, <2>2, PrunedKinds
  <2>4. /\ Left(q) # Right(q) /\ First(Left(q)) = First(q)
        /\ First(Right(q)) = First(q) + half /\ Size[q[1]] = 2 * half /\ half \in Nat
        /\ First(q) \in Nat /\ Beyond(q) \in Nat /\ Beyond(q) = First(q) + Size[q[1]]
        /\ First(q) < Beyond(q)
    BY <2>1, Halves, Extent
  <2> HIDE DEF t, q, above, half
  <2>5. CallStep(t, c, g, p) =
          IF above < 0 THEN above
          ELSE IF Size[q[1]] <= above THEN Dropped
          ELSE IF p = Left(q) THEN above
          ELSE IF above > half THEN above - half ELSE NotCalled
    BY <1>3, <2>3 DEF CallStep, Replaced, EntersRight, q, above, half
  <2>6. CallOf(f, m, c, p) =
          IF Beyond(q) <= c THEN Dropped
          ELSE IF First(p) < c THEN c - First(p)
          ELSE NotCalled
    BY <1>3 DEF CallOf, q
  <2>7. First(p) = IF p = Left(q) THEN First(q) ELSE First(q) + half
    BY <2>1, <2>4
  <2>8. CASE above = Dropped
    <3>1. q # Top /\ Beyond(Parent(q)) <= c
      BY <1>0, <2>1, <2>4, <2>8 DEF CallOf, Dropped, NotCalled
    <3>2. Beyond(q) <= c
      BY <1>0, <2>1, <2>4, <3>1, Parents, Extent
    <3>3. CallStep(t, c, g, p) = Dropped
      BY <2>5, <2>8 DEF Dropped
    <3>4. QED BY <2>6, <3>2, <3>3 DEF t
  <2>9. CASE above = NotCalled
    <3>1. q # Top /\ c <= First(q)
      BY <1>0, <2>1, <2>2, <2>4, <2>9 DEF CallOf, Dropped, NotCalled
    <3>2. ~(Beyond(q) <= c) /\ ~(First(p) < c)
      BY <1>0, <2>4, <2>7, <3>1
    <3>3. CallStep(t, c, g, p) = NotCalled
      BY <2>5, <2>9 DEF NotCalled
    <3>4. QED BY <2>6, <3>2, <3>3 DEF t
  <2>10. CASE above = c - First(q) /\ First(q) < c
    <3>1. ~(above < 0) /\ (Size[q[1]] <= above <=> Beyond(q) <= c)
      BY <1>0, <2>4, <2>10
    <3>2. CASE p = Left(q)
      BY <2>5, <2>6, <2>7, <2>10, <3>1, <3>2 DEF t
    <3>3. CASE p # Left(q)
      <4>1. (above > half <=> First(p) < c) /\ above - half = c - First(p)
        BY <1>0, <2>4, <2>7, <2>10, <3>3
      <4>2. QED BY <2>5, <2>6, <3>1, <3>3, <4>1 DEF t
    <3>4. QED BY <3>2, <3>3
  <2>11. above = Dropped \/ above = NotCalled \/ (above = c - First(q) /\ First(q) < c)
    <3>1. CASE q = Top
      BY <1>0, <2>1, <3>1, TopPlace DEF CallOf
    <3>2. CASE q # Top
      BY <2>1, <3>2 DEF CallOf
    <3>3. QED BY <3>1, <3>2
  <2>12. QED BY <2>8, <2>9, <2>10, <2>11
<1>4. QED BY <1>1, <1>2, <1>3

LEMMA CallsPruned ==
    ASSUME NEW f, NEW m, Counts(f, m), NEW c \in 1..m
    PROVE  \A p \in Places : Calls(Pruned(f, m), c)[p] = CallOf(f, m, c, p)
<1> DEFINE t == Pruned(f, m)
           known == [p \in Places |-> CallOf(f, m, c, p)]
<1>1. \A p \in Places : p # Top => Parent(p) \in Places
  BY Parents
<1>2. \E g : g = [p \in Places |-> CallStep(t, c, g, p)]
  <2>1. \A p \in Places : known[p] = CallOf(f, m, c, p)
    OBVIOUS
  <2>2. known = [p \in Places |-> CallOf(f, m, c, p)]
    OBVIOUS
  <2> HIDE DEF known, t
  <2>3. ASSUME NEW p \in Places PROVE CallOf(f, m, c, p) = CallStep(t, c, known, p)
    <3>1. p # Top => known[Parent(p)] = CallOf(f, m, c, Parent(p))
      BY <1>1, <2>1
    <3>2. QED BY <3>1, CallStepPruned DEF t
  <2>4. known = [p \in Places |-> CallStep(t, c, known, p)]
    BY <2>2, <2>3
  <2>5. QED BY <2>4
<1>3. Calls(t, c) = [p \in Places |-> CallStep(t, c, Calls(t, c), p)]
  <2> HIDE DEF t
  <2>1. Calls(t, c) = CHOOSE g : g = [p \in Places |-> CallStep(t, c, g, p)]
    BY DEF Calls, CallStep
  <2>2. QED BY <1>2, <2>1
<1> DEFINE Agrees(p) == Calls(t, c)[p] = CallOf(f, m, c, p)
           Q == {p \in Places : Agrees(p)}
<1>4. ASSUME NEW p \in Places, p # Top => Parent(p) \in Q PROVE p \in Q
  <2>1. p # Top => Calls(t, c)[Parent(p)] = CallOf(f, m, c, Parent(p))
    BY <1>4
  <2>2. Calls(t, c)[p] = CallStep(t, c, Calls(t, c), p)
    <3> HIDE DEF t
    <3>1. QED BY <1>3
  <2> HIDE DEF t
  <2>3. Agrees(p)
    BY <2>1, <2>2, CallStepPruned DEF t
  <2>4. QED BY <2>3
<1>5. \A p \in Places : p \in Q
  <2> HIDE DEF Q
  <2>1. QED BY <1>4, PlacesDown
<1>6. QED BY <1>5

\* What finalize makes of a place it is called at.
LEMMA FinalizedPlace ==
    ASSUME NEW f, NEW m, Counts(f, m), NEW c \in 1..m, f <= c,
           NEW p \in Places, Present(f, m, p), First(p) < c
    PROVE  LET t == Pruned(f, m)
               new == IF Replaced(t[p], p[1], c - First(p))
                        THEN Finalized(Size[p[1]], Roots(t)[p]) ELSE t[p]
           IN  /\ Beyond(p) <= c => new = Finalized(Size[p[1]], FullRoot(p))
               /\ c < Beyond(p) => new = Node /\ Split(c, m, p)
<1> DEFINE t == Pruned(f, m)
           new == IF Replaced(t[p], p[1], c - First(p))
                    THEN Finalized(Size[p[1]], Roots(t)[p]) ELSE t[p]
<1>0. /\ f \in Nat /\ m \in Nat /\ c \in Nat /\ c <= m
      /\ First(p) \in Nat /\ Beyond(p) \in Nat /\ Size[p[1]] \in Nat
      /\ Beyond(p) = First(p) + Size[p[1]]
      /\ p[1] = 0 => Beyond(p) = First(p) + 1
  BY Extent DEF Counts
<1>1. Roots(t)[p] = PerfectRoots(m)[p]
  BY RootsPruned
<1>2. Beyond(p) <= m => PerfectRoots(m)[p] = FullRoot(p)
  BY <1>0, FullRootStays
<1>3. /\ t[p].kind = "Leaf" <=>
           Present(f, m, p) /\ First(p) < m /\ f < Beyond(p) /\ p[1] = 0
      /\ t[p].kind = "Node" <=> Split(f, m, p)
  BY PrunedKinds
<1>4. CASE Beyond(p) <= f
  <2>1. t[p] = Finalized(Size[p[1]], FullRoot(p)) /\ ~Split(f, m, p)
    BY <1>0, <1>4, PrunedCases DEF Split
  <2>2. ~Replaced(t[p], p[1], c - First(p))
    <3> HIDE DEF t
    <3>1. t[p].kind # "Leaf" /\ t[p].kind # "Node"
      BY <1>0, <1>3, <1>4, <2>1
    <3>2. QED BY <3>1 DEF Replaced
  <2>3. Beyond(p) <= c
    BY <1>0, <1>4
  <2> HIDE DEF t
  <2>4. QED BY <1>0, <2>1, <2>2, <2>3 DEF t
<1>5. CASE f < Beyond(p) /\ p[1] = 0
  <2>1. t[p].kind = "Leaf" /\ Beyond(p) <= c /\ Beyond(p) <= m
    <3> HIDE DEF t
    <3>1. QED BY <1>0, <1>3, <1>5
  <2> HIDE DEF t
  <2>2. Replaced(t[p], p[1], c - First(p))
    BY <2>1 DEF Replaced
  <2>3. QED BY <1>0, <1>1, <1>2, <2>1, <2>2 DEF t
<1>6. CASE f < Beyond(p) /\ p[1] # 0
  <2>1. Split(f, m, p)
    BY <1>0, <1>6 DEF Split
  <2>2. t[p] = Node
    BY <2>1, PrunedCases
  <2>3. t[p].kind = "Node"
    BY <1>3, <2>1
  <2> HIDE DEF t
  <2>4. Replaced(t[p], p[1], c - First(p)) <=> Beyond(p) <= c
    <3>1. Replaced(t[p], p[1], c - First(p)) <=> Size[p[1]] <= c - First(p)
      BY <2>3 DEF Replaced
    <3>2. QED BY <1>0, <3>1
  <2>5. CASE Beyond(p) <= c
    BY <1>0, <1>1, <1>2, <2>4, <2>5 DEF t
  <2>6. CASE c < Beyond(p)
    <3>1. Split(c, m, p)
      BY <1>0, <1>6, <2>6 DEF Split
    <3>2. QED BY <1>0, <2>2, <2>4, <2>6, <3>1 DEF t
  <2>7. QED BY <1>0, <2>5, <2>6
<1>7. QED BY <1>0, <1>4, <1>5, <1>6

\* Finalizing up to c leaves the tree of a client that finalized c.
LEMMA FinalizePruned ==
    ASSUME NEW f, NEW m, Counts(f, m), NEW c \in 1..m, f <= c
    PROVE  Finalize(Pruned(f, m), c) = Pruned(c, m) /\ Counts(c, m)
<1> DEFINE t == Pruned(f, m)
           called == Calls(t, c)
           new(p) == IF called[p] = Dropped THEN Absent
                     ELSE IF called[p] # NotCalled /\ Replaced(t[p], p[1], called[p])
                            THEN Finalized(Size[p[1]], Roots(t)[p])
                            ELSE t[p]
<1>0. f \in Nat /\ m \in Nat /\ c \in Nat /\ 1 <= c /\ c <= m /\ c < Size[Depth] /\ Size[Depth] \in Nat
  BY Sizes, DepthAssumption DEF Counts
<1>1. Counts(c, m)
  BY <1>0 DEF Counts
<1>2. Finalize(t, c) = [p \in Places |-> new(p)]
  BY DEF Finalize
<1>3. ASSUME NEW p \in Places PROVE new(p) = Pruned(c, m)[p]
  <2>0. First(p) \in Nat /\ Beyond(p) \in Nat /\ First(p) < Beyond(p)
    BY Extent
  <2>1. called[p] = CallOf(f, m, c, p)
    BY CallsPruned
  <2> HIDE DEF called
  <2>2. p # Top => /\ Parent(p) \in Places /\ Parent(p)[1] # 0
                   /\ Beyond(Parent(p)) \in Nat /\ First(Parent(p)) \in Nat
    BY Parents, Extent
  <2>3. CASE p # Top /\ ~Present(f, m, p)
    <3>1. called[p] = NotCalled
      BY <2>1, <2>3 DEF CallOf
    <3>2. ~Present(c, m, p)
      BY <1>0, <2>2, <2>3 DEF Present, Split
    <3>3. t[p] = Absent /\ Pruned(c, m)[p] = Absent
      BY <1>1, <2>3, <3>2, PrunedCases
    <3> HIDE DEF t
    <3>4. QED BY <3>1, <3>3 DEF Dropped, NotCalled
  <2>4. CASE p # Top /\ Present(f, m, p) /\ Beyond(Parent(p)) <= c
    <3>1. called[p] = Dropped
      BY <2>1, <2>4 DEF CallOf
    <3>2. ~Present(c, m, p)
      BY <1>0, <2>2, <2>4 DEF Present, Split
    <3>3. Pruned(c, m)[p] = Absent
      BY <1>1, <3>2, PrunedCases
    <3> HIDE DEF t
    <3>4. QED BY <3>1, <3>3
  <2>5. CASE Present(f, m, p) /\ (p # Top => c < Beyond(Parent(p)))
    <3>1. Present(c, m, p)
      BY <2>5 DEF Present, Split
    <3>2. CASE First(p) < c
      <4>1. called[p] = c - First(p)
        <5>1. CASE p = Top
          BY <1>0, <2>1, <5>1, TopPlace DEF CallOf
        <5>2. CASE p # Top
          BY <1>0, <2>1, <2>2, <2>5, <3>2, <5>2 DEF CallOf
        <5>3. QED BY <5>1, <5>2
      <4>2. called[p] # Dropped /\ called[p] # NotCalled
        BY <1>0, <2>0, <3>2, <4>1 DEF Dropped, NotCalled
      <4>3. new(p) = IF Replaced(t[p], p[1], c - First(p))
                       THEN Finalized(Size[p[1]], Roots(t)[p]) ELSE t[p]
        <5> HIDE DEF t
        <5>1. QED BY <4>1, <4>2
      <4> HIDE DEF new
      <4>4. /\ Beyond(p) <= c => new(p) = Finalized(Size[p[1]], FullRoot(p))
            /\ c < Beyond(p) => new(p) = Node /\ Split(c, m, p)
        BY <2>5, <3>2, <4>3, FinalizedPlace
      <4>5. CASE Beyond(p) <= c
        BY <1>1, <3>1, <4>4, <4>5, PrunedCases
      <4>6. CASE c < Beyond(p)
        BY <1>1, <4>4, <4>6, PrunedCases
      <4>7. QED BY <1>0, <2>0, <4>5, <4>6
    <3>3. CASE c <= First(p)
      <4>1. p # Top
        BY <1>0, <3>3, TopPlace
      <4>2. called[p] = NotCalled
        BY <1>0, <2>0, <2>1, <2>2, <2>5, <3>3, <4>1 DEF CallOf
      <4>3. new(p) = t[p]
        <5> HIDE DEF t
        <5>1. QED BY <4>2 DEF NotCalled, Dropped
      <4>4. ~(Beyond(p) <= f) /\ ~(Beyond(p) <= c)
        BY <1>0, <2>0, <3>3
      <4>5. t[p] = Pruned(c, m)[p]
        BY <2>5, <3>1, <4>4 DEF Pruned
      <4>6. QED BY <4>3, <4>5
    <3>4. QED BY <1>0, <2>0, <3>2, <3>3
  <2>6. Present(f, m, p) \/ p # Top
    BY DEF Present
  <2>7. p # Top => Beyond(Parent(p)) <= c \/ c < Beyond(Parent(p))
    BY <1>0, <2>2
  <2>8. QED BY <2>3, <2>4, <2>5, <2>6, <2>7
<1>4. Pruned(c, m) = [p \in Places |-> Pruned(c, m)[p]]
  BY DEF Pruned
<1> HIDE DEF t, new
<1>5. QED BY <1>1, <1>2, <1>3, <1>4 DEF t

-----------------------------------------------------------------------------
(* get_finalized. *)

FoundStep(tree, found, p) ==
    IF tree[p].kind = "Finalized" THEN FoundIn(tree[p])
    ELSE IF tree[p].kind = "Node" THEN FoundBoth(found[Left(p)], found[Right(p)])
    ELSE FoundNone

\* How many of the first f deposits are in a subtree.
Share(f, p) ==
    IF f <= First(p) THEN 0 ELSE IF Beyond(p) <= f THEN Size[p[1]] ELSE f - First(p)

FoundOf(f, m, p) ==
    IF Present(f, m, p) THEN [count |-> Share(f, p), result |-> PartsOf(f)[p]]
    ELSE FoundNone

LEMMA FoundStepPruned ==
    ASSUME NEW f, NEW m, Counts(f, m), NEW g, NEW p \in Places,
           Split(f, m, p) => /\ g[Left(p)] = FoundOf(f, m, Left(p))
                             /\ g[Right(p)] = FoundOf(f, m, Right(p))
    PROVE  FoundStep(Pruned(f, m), g, p) = FoundOf(f, m, p)
<1> DEFINE t == Pruned(f, m)
<1>0. /\ f \in Nat /\ m \in Nat /\ f <= m
      /\ First(p) \in Nat /\ Beyond(p) \in Nat /\ First(p) < Beyond(p)
      /\ p[1] = 0 => Beyond(p) = First(p) + 1
  BY Extent DEF Counts
<1>1. CASE Present(f, m, p) /\ Beyond(p) <= f
  <2>1. t[p] = Finalized(Size[p[1]], FullRoot(p))
    BY <1>1, PrunedCases
  <2>2. t[p].kind = "Finalized" /\ t[p].deposit_count = Size[p[1]] /\ t[p].hash = FullRoot(p)
    BY <2>1, NodeFields
  <2>3. PartsOf(f)[p] = <<FullRoot(p)>> /\ Share(f, p) = Size[p[1]]
    BY <1>0, <1>1, PartsWhole DEF Share
  <2> HIDE DEF t
  <2>4. FoundStep(t, g, p) = [count |-> Size[p[1]], result |-> <<FullRoot(p)>>]
    BY <2>2 DEF FoundStep, FoundIn
  <2>5. QED BY <1>1, <2>3, <2>4 DEF FoundOf, t
<1>2. CASE ~(Present(f, m, p) /\ Beyond(p) <= f) /\ ~Split(f, m, p)
  <2>1. t[p].kind # "Finalized" /\ t[p].kind # "Node"
    BY <1>2, PrunedKinds
  <2> HIDE DEF t
  <2>2. FoundStep(t, g, p) = FoundNone
    BY <2>1 DEF FoundStep
  <2>3. ASSUME Present(f, m, p) PROVE f <= First(p)
    BY <1>0, <1>2, <2>3, PrunedSplit
  <2>4. ASSUME Present(f, m, p) PROVE PartsOf(f)[p] = <<>> /\ Share(f, p) = 0
    BY <1>0, <2>3, <2>4, PartsNone DEF Share
  <2>5. QED BY <2>2, <2>4 DEF FoundOf, FoundNone, t
<1>3. CASE Split(f, m, p)
  <2>1. t[p].kind = "Node" /\ Present(f, m, p) /\ f < Beyond(p) /\ p[1] # 0
    BY <1>3, PrunedKinds DEF Split
  <2> DEFINE l == Left(p)
             r == Right(p)
  <2>2. Present(f, m, l) /\ Present(f, m, r)
    BY <1>3, SplitPresent
  <2>3. /\ g[l] = [count |-> Share(f, l), result |-> PartsOf(f)[l]]
        /\ g[r] = [count |-> Share(f, r), result |-> PartsOf(f)[r]]
    BY <1>3, <2>2 DEF FoundOf
  <2>4. /\ l \in Places /\ r \in Places
        /\ First(l) = First(p) /\ Beyond(l) = First(r) /\ Beyond(r) = Beyond(p)
        /\ First(p) < First(r) /\ First(r) < Beyond(p) /\ First(r) = First(p) + Size[l[1]]
        /\ First(r) \in Nat /\ Size[l[1]] \in Nat
    BY <2>1, Halves, Extent
  <2> HIDE DEF t
  <2>5. FoundStep(t, g, p) = FoundBoth(g[l], g[r])
    BY <2>1 DEF FoundStep
  <2> HIDE DEF l, r
  <2>6. FoundStep(t, g, p) = [count |-> Share(f, l) + Share(f, r),
                              result |-> PartsOf(f)[l] \o PartsOf(f)[r]]
    BY <2>3, <2>5 DEF FoundBoth
  <2>7. Share(f, l) + Share(f, r) = Share(f, p)
    BY <1>0, <2>1, <2>4 DEF Share
  <2>8. PartsOf(f)[l] \o PartsOf(f)[r] = PartsOf(f)[p]
    <3>1. CASE First(p) < f
      BY <1>0, <2>1, <3>1, PartsSplit DEF l, r
    <3>2. CASE f <= First(p)
      <4>1. PartsOf(f)[l] = <<>> /\ PartsOf(f)[r] = <<>> /\ PartsOf(f)[p] = <<>>
        BY <1>0, <2>4, <3>2, PartsNone
      <4>2. QED BY <4>1
    <3>3. First(p) < f \/ f <= First(p)
      BY <1>0
    <3>4. QED BY <3>1, <3>2, <3>3
  <2>9. QED BY <2>1, <2>6, <2>7, <2>8 DEF FoundOf, t
<1>4. QED BY <1>1, <1>2, <1>3

LEMMA FoundPruned ==
    ASSUME NEW f, NEW m, Counts(f, m)
    PROVE  \A p \in Places : Found(Pruned(f, m))[p] = FoundOf(f, m, p)
<1> DEFINE t == Pruned(f, m)
           known == [p \in Places |-> FoundOf(f, m, p)]
<1>1. ASSUME NEW p \in Places, Split(f, m, p) PROVE Left(p) \in Places /\ Right(p) \in Places
  BY <1>1, Halves DEF Split
<1>2. \E g : g = [p \in Places |-> FoundStep(t, g, p)]
  <2>1. \A p \in Places : known[p] = FoundOf(f, m, p)
    OBVIOUS
  <2>2. known = [p \in Places |-> FoundOf(f, m, p)]
    OBVIOUS
  <2> HIDE DEF known, t
  <2>3. ASSUME NEW p \in Places PROVE FoundOf(f, m, p) = FoundStep(t, known, p)
    <3>1. Split(f, m, p) => /\ known[Left(p)] = FoundOf(f, m, Left(p))
                            /\ known[Right(p)] = FoundOf(f, m, Right(p))
      BY <1>1, <2>1
    <3>2. QED BY <3>1, FoundStepPruned DEF t
  <2>4. known = [p \in Places |-> FoundStep(t, known, p)]
    BY <2>2, <2>3
  <2>5. QED BY <2>4
<1>3. Found(t) = [p \in Places |-> FoundStep(t, Found(t), p)]
  <2> HIDE DEF t
  <2>1. Found(t) = CHOOSE g : g = [p \in Places |-> FoundStep(t, g, p)]
    BY DEF Found, FoundStep
  <2>2. QED BY <1>2, <2>1
<1> DEFINE Agrees(p) == Found(t)[p] = FoundOf(f, m, p)
           Q == {p \in Places : Agrees(p)}
<1>4. ASSUME NEW p \in Places, p[1] # 0 => Left(p) \in Q /\ Right(p) \in Q PROVE p \in Q
  <2>1. Split(f, m, p) => /\ Found(t)[Left(p)] = FoundOf(f, m, Left(p))
                          /\ Found(t)[Right(p)] = FoundOf(f, m, Right(p))
    BY <1>1, <1>4 DEF Split
  <2>2. Found(t)[p] = FoundStep(t, Found(t), p)
    <3> HIDE DEF t
    <3>1. QED BY <1>3
  <2> HIDE DEF t
  <2>3. Agrees(p)
    BY <2>1, <2>2, FoundStepPruned DEF t
  <2>4. QED BY <2>3
<1>5. \A p \in Places : p \in Q
  <2> HIDE DEF Q
  <2>1. QED BY <1>4, PlacesUp
<1>6. QED BY <1>5

\* get_finalized counts what was finalized, and lists the hashes of its parts.
LEMMA FinalizedFound ==
    ASSUME NEW f, NEW m, Counts(f, m)
    PROVE  GetFinalized(Pruned(f, m)) = [count |-> f, result |-> PartsOf(f)[Top]]
<1>1. Present(f, m, Top)
  BY DEF Present
<1>2. Share(f, Top) = f
  BY TopPlace, Extent DEF Share, Counts
<1>3. Found(Pruned(f, m))[Top] = FoundOf(f, m, Top)
  BY FoundPruned, TopPlace
<1>4. QED BY <1>1, <1>2, <1>3 DEF GetFinalized, FoundOf

-----------------------------------------------------------------------------
(* calculate_root. *)

\* On the way up to the first deposit that is not finalized, the list grows in
\* front by the left half, where the way comes from the right.
LEMMA WayParts ==
    ASSUME NEW f \in 0..(Size[Depth] - 1), NEW l \in 1..Depth
    PROVE  LET t == Toward(f, l)
               h == Toward(f, l - 1)
           IN  /\ h = Left(t) => PartsOf(f)[t] = PartsOf(f)[h] /\ f <= First(Right(t))
               /\ h = Right(t) => /\ PartsOf(f)[t] = <<FullRoot(Left(t))>> \o PartsOf(f)[h]
                                  /\ Beyond(Left(t)) <= f
<1> DEFINE t == Toward(f, l)
           h == Toward(f, l - 1)
<1>0. f \in Nat /\ l \in 0..Depth /\ l - 1 \in 0..Depth /\ l # 0
  BY Sizes, DepthAssumption
<1>1. /\ t \in Places /\ t[1] = l /\ First(t) <= f /\ f < Beyond(t)
      /\ h \in Places /\ First(h) <= f /\ f < Beyond(h)
  BY <1>0, Way DEF Holds
<1> HIDE DEF t, h
<1>2. /\ Left(t) \in Places /\ Right(t) \in Places
      /\ First(Left(t)) = First(t) /\ Beyond(Left(t)) = First(Right(t))
      /\ First(t) < First(Right(t)) /\ First(Right(t)) < Beyond(t)
      /\ First(t) \in Nat /\ First(Right(t)) \in Nat
  BY <1>0, <1>1, Halves, Extent
<1>3. ASSUME h = Left(t) PROVE PartsOf(f)[t] = PartsOf(f)[h] /\ f <= First(Right(t))
  <2>1. f <= First(Right(t))
    BY <1>0, <1>1, <1>2, <1>3
  <2>2. CASE First(t) < f
    BY <1>0, <1>1, <1>3, <2>1, <2>2, PartsSplit
  <2>3. CASE f <= First(t)
    <3>1. PartsOf(f)[t] = <<>> /\ PartsOf(f)[Left(t)] = <<>>
      BY <1>0, <1>1, <1>2, <2>3, PartsNone
    <3>2. QED BY <1>3, <2>1, <3>1
  <2>4. QED BY <1>0, <1>2, <2>2, <2>3
<1>4. ASSUME h = Right(t)
      PROVE  PartsOf(f)[t] = <<FullRoot(Left(t))>> \o PartsOf(f)[h] /\ Beyond(Left(t)) <= f
  <2>1. Beyond(Left(t)) <= f /\ First(t) < f
    BY <1>0, <1>1, <1>2, <1>4
  <2>2. PartsOf(f)[t] = PartsOf(f)[Left(t)] \o PartsOf(f)[Right(t)]
    BY <1>0, <1>1, <2>1, PartsSplit
  <2>3. PartsOf(f)[Left(t)] = <<FullRoot(Left(t))>>
    BY <1>0, <1>2, <2>1, PartsWhole
  <2>4. QED BY <1>4, <2>1, <2>2, <2>3
<1>5. QED BY <1>3, <1>4 DEF t, h

\* The list of a place on the way is the end of the whole list.
LEMMA WaySuffix ==
    ASSUME NEW f \in 0..(Size[Depth] - 1)
    PROVE  \A l \in 0..Depth :
             LET a == PartsOf(f)[Top]
                 b == PartsOf(f)[Toward(f, l)]
             IN  /\ Len(b) \in Nat /\ Len(b) <= Len(a)
                 /\ \A k \in 1..Len(b) : a[Len(a) - Len(b) + k] = b[k]
<1> DEFINE a == PartsOf(f)[Top]
           Suffix(b) == /\ Len(b) \in Nat /\ Len(b) <= Len(a)
                        /\ \A k \in 1..Len(b) : a[Len(a) - Len(b) + k] = b[k]
           Q == {l \in 0..Depth : Suffix(PartsOf(f)[Toward(f, l)])}
<1>0. f \in Nat /\ Depth \in 0..Depth /\ \A l \in 1..Depth : l \in 0..Depth /\ l - 1 \in 0..Depth
  BY Sizes, DepthAssumption
<1>1. a \in Seq(Hashes) /\ Len(a) \in Nat
  BY <1>0, PartsType, TopPlace, LenProperties
<1>2. Depth \in Q
  <2>1. Toward(f, Depth) = Top
    BY Way
  <2>2. Suffix(a)
    <3> HIDE DEF a
    <3>1. QED BY <1>1
  <2>3. QED BY <1>0, <2>1, <2>2
<1>3. ASSUME NEW l \in 1..Depth, l \in Q PROVE l - 1 \in Q
  <2> DEFINE t == Toward(f, l)
             h == Toward(f, l - 1)
             b == PartsOf(f)[t]
             c == PartsOf(f)[h]
  <2>1. Suffix(b)
    BY <1>3
  <2>2. t \in Places /\ h \in Places /\ h # Top /\ Parent(h) = t
    BY <1>0, Way
  <2>3. h = Left(t) \/ h = Right(t)
    BY <2>2, Parents
  <2>4. h = Left(t) => b = c
    BY WayParts
  <2>5. h = Right(t) => b = <<FullRoot(Left(t))>> \o c
    BY WayParts
  <2>6. c \in Seq(Hashes) /\ Len(c) \in Nat
    BY <1>0, <2>2, PartsType, LenProperties
  <2>7. CASE h = Left(t)
    <3>1. Suffix(c)
      BY <2>1, <2>4, <2>7
    <3>2. QED BY <1>0, <3>1
  <2>8. CASE h = Right(t)
    <3>1. <<FullRoot(Left(t))>> \in Seq(Hashes) /\ Len(<<FullRoot(Left(t))>>) = 1
      <4>1. Left(t) \in Places
        <5>1. t[1] # 0
          BY <2>2, Parents
        <5>2. QED BY <2>2, <5>1, Halves
      <4>2. FullRoot(Left(t)) \in Hashes
        BY <4>1 DEF Hashes
      <4>3. QED BY <4>2
    <3>2. Len(b) = 1 + Len(c) /\ \A k \in 1..(1 + Len(c)) :
                    b[k] = IF k <= 1 THEN <<FullRoot(Left(t))>>[k] ELSE c[k - 1]
      <4> HIDE DEF b, c, t, h
      <4>1. QED BY <2>5, <2>6, <2>8, <3>1, ConcatProperties
    <3> HIDE DEF a, b, c, t, h
    <3>3. \A k \in 1..Len(c) : a[Len(a) - Len(c) + k] = c[k]
      <4>1. SUFFICES ASSUME NEW k \in 1..Len(c) PROVE a[Len(a) - Len(c) + k] = c[k]
        OBVIOUS
      <4>2. k + 1 \in 1..Len(b) /\ b[k + 1] = c[k]
        BY <2>6, <3>2
      <4>3. Len(a) - Len(b) + (k + 1) = Len(a) - Len(c) + k
        BY <1>1, <2>6, <3>2
      <4>4. QED BY <2>1, <4>2, <4>3
    <3>4. Suffix(c)
      BY <1>1, <2>1, <2>6, <3>2, <3>3
    <3>5. QED BY <1>0, <3>4 DEF c, h
  <2>9. QED BY <2>3, <2>7, <2>8
<1>4. \A l \in 0..Depth : l \in Q
  <2> HIDE DEF Q
  <2>1. QED BY <1>2, <1>3, LevelsDown
<1>5. QED BY <1>4

LoopStep(finalized, count, loop, level) ==
    IF level = 0
      THEN [size |-> count, index |-> Len(finalized), root |-> zerohashes[0]]
      ELSE HashedIn(finalized, loop[level - 1], level - 1)

\* The loop is on the way to the first deposit that is not finalized.
LoopOf(f, level) ==
    [size |-> Toward(f, level)[2],
     index |-> Len(PartsOf(f)[Top]) - Len(PartsOf(f)[Toward(f, level)]),
     root |-> PerfectRoots(f)[Toward(f, level)]]

LEMMA LoopStepOf ==
    ASSUME NEW f \in 0..(Size[Depth] - 1), NEW g, NEW l \in 0..Depth,
           l # 0 => g[l - 1] = LoopOf(f, l - 1)
    PROVE  LoopStep(PartsOf(f)[Top], f, g, l) = LoopOf(f, l)
<1> DEFINE a == PartsOf(f)[Top]
<1>0. f \in Nat
  BY Sizes, DepthAssumption
<1>1. CASE l = 0
  <2> DEFINE h == Toward(f, 0)
  <2>1. h = <<0, f>> /\ h \in Places /\ h[1] = 0 /\ h[2] = f
    BY Way, DepthAssumption
  <2>2. First(h) = f
    BY <2>1, Extent
  <2> HIDE DEF h
  <2>3. PartsOf(f)[h] = <<>>
    BY <1>0, <2>1, <2>2, PartsNone
  <2>4. PerfectRoots(f)[h] = <<>>
    BY <1>0, <2>1, PerfectLeaf
  <2>5. zerohashes[0] = <<>>
    BY ZeroUnfolds, DepthAssumption DEF ZeroStep
  <2>6. Len(a) \in Nat
    BY <1>0, PartsType, TopPlace, LenProperties
  <2> HIDE DEF a
  <2>7. Len(a) - Len(PartsOf(f)[h]) = Len(a)
    BY <2>3, <2>6
  <2>8. LoopStep(a, f, g, l) = [size |-> f, index |-> Len(a), root |-> <<>>]
    BY <1>1, <2>5 DEF LoopStep
  <2>9. LoopOf(f, l) = [size |-> f, index |-> Len(a), root |-> <<>>]
    BY <1>1, <2>1, <2>4, <2>7 DEF LoopOf, a, h
  <2>10. QED BY <2>8, <2>9 DEF a
<1>2. CASE l # 0
  <2> DEFINE t == Toward(f, l)
             h == Toward(f, l - 1)
             b == PartsOf(f)[t]
             c == PartsOf(f)[h]
             left == HashedIn(a, g[l - 1], l - 1)
  <2>0. l \in 1..Depth /\ l - 1 \in 0..Depth
    BY <1>2, DepthAssumption
  <2>1. /\ t \in Places /\ h \in Places /\ h # Top /\ Parent(h) = t /\ h[1] = l - 1 /\ t[1] = l
        /\ t[2] \in Nat /\ h[2] \in Nat
    BY <2>0, Way, PlaceType
  <2>2. g[l - 1] = [size |-> h[2], index |-> Len(a) - Len(c), root |-> PerfectRoots(f)[h]]
    BY <1>2 DEF LoopOf
  <2>3. LoopOf(f, l) = [size |-> t[2], index |-> Len(a) - Len(b), root |-> PerfectRoots(f)[t]]
    BY DEF LoopOf
  <2>4. LoopStep(a, f, g, l) = left
    BY <1>2 DEF LoopStep
  <2>5. t[2] = h[2] \div 2
    <3> HIDE DEF t, h
    <3>1. QED BY <2>1 DEF Parent
  <2>6. a \in Seq(Hashes) /\ Len(a) \in Nat /\ Len(c) \in Nat /\ Len(b) \in Nat
        /\ c \in Seq(Hashes)
    BY <1>0, <2>1, PartsType, TopPlace, LenProperties
  <2>7. (h[2] % 2 = 0 /\ h = Left(t)) \/ (h[2] % 2 = 1 /\ h = Right(t))
    BY <2>1, Parents
  <2>8. t[1] # 0 /\ PerfectRoots(f)[t] = Sha256(PerfectRoots(f)[Left(t)], PerfectRoots(f)[Right(t)])
    BY <1>2, <2>1, PerfectNode
  <2>9. /\ Left(t) \in Places /\ Right(t) \in Places /\ Right(t) # Top /\ Right(t)[1] = l - 1
    BY <2>1, <2>8, Halves
  <2>10. CASE h[2] % 2 = 0 /\ h = Left(t)
    <3>1. b = c /\ f <= First(Right(t))
      BY <2>0, <2>10, WayParts
    <3>2. PerfectRoots(f)[Right(t)] = zerohashes[l - 1]
      BY <1>0, <2>9, <3>1, EmptyRoot
    <3>3. left = [size |-> h[2] \div 2, index |-> Len(a) - Len(c),
                  root |-> Sha256(PerfectRoots(f)[h], zerohashes[l - 1])]
      <4> HIDE DEF a, b, c, t, h
      <4>1. QED BY <2>2, <2>10 DEF HashedIn
    <3>4. QED BY <2>3, <2>4, <2>5, <2>8, <2>10, <3>1, <3>2, <3>3
  <2>11. CASE h[2] % 2 = 1 /\ h = Right(t)
    <3>1. b = <<FullRoot(Left(t))>> \o c /\ Beyond(Left(t)) <= f
      BY <2>0, <2>11, WayParts
    <3>2. PerfectRoots(f)[Left(t)] = FullRoot(Left(t))
      BY <1>0, <2>9, <3>1, FullRootStays
    <3>3. Len(b) = 1 + Len(c) /\ b[1] = FullRoot(Left(t))
      <4>1. FullRoot(Left(t)) \in Hashes
        BY <2>9 DEF Hashes
      <4>2. <<FullRoot(Left(t))>> \in Seq(Hashes) /\ Len(<<FullRoot(Left(t))>>) = 1
        BY <4>1
      <4> HIDE DEF b, c, t, h
      <4>3. QED BY <2>6, <3>1, <4>2, ConcatProperties
    <3>4. a[Len(a) - Len(b) + 1] = b[1]
      <4>1. Len(b) <= Len(a) /\ \A k \in 1..Len(b) : a[Len(a) - Len(b) + k] = b[k]
        BY <2>0, WaySuffix
      <4>2. 1 \in 1..Len(b)
        <5> HIDE DEF a, b, c, t, h
        <5>1. QED BY <2>6, <3>3
      <4> HIDE DEF a, b, c, t, h
      <4>3. QED BY <4>1, <4>2
    <3>5. Len(a) - Len(b) + 1 = Len(a) - Len(c) /\ (Len(a) - Len(c)) - 1 = Len(a) - Len(b)
      <4> HIDE DEF a, b, c, t, h
      <4>1. QED BY <2>6, <3>3
    <3>6. left = [size |-> h[2] \div 2, index |-> Len(a) - Len(b),
                  root |-> Sha256(FullRoot(Left(t)), PerfectRoots(f)[h])]
      <4> HIDE DEF a, b, c, t, h
      <4>1. QED BY <2>2, <2>11, <3>3, <3>4, <3>5 DEF HashedIn
    <3>7. QED BY <2>3, <2>4, <2>5, <2>8, <2>11, <3>2, <3>6
  <2>12. QED BY <2>7, <2>10, <2>11
<1>3. QED BY <1>1, <1>2

\* calculate_root of the finalized hashes is the root of the contract.
LEMMA CalculatedRoot ==
    ASSUME NEW f \in 0..(Size[Depth] - 1)
    PROVE  CalculateRoot(PartsOf(f)[Top], f) = ContractRoot(f)
<1> DEFINE a == PartsOf(f)[Top]
           known == [l \in 0..Depth |-> LoopOf(f, l)]
           loop == CHOOSE g : g = [l \in 0..Depth |-> LoopStep(a, f, g, l)]
<1>0. \A l \in 0..Depth : l # 0 => l - 1 \in 0..Depth
  BY DepthAssumption
<1>1. \E g : g = [l \in 0..Depth |-> LoopStep(a, f, g, l)]
  <2>1. \A l \in 0..Depth : known[l] = LoopOf(f, l)
    OBVIOUS
  <2>2. known = [l \in 0..Depth |-> LoopOf(f, l)]
    OBVIOUS
  <2> HIDE DEF known
  <2>3. ASSUME NEW l \in 0..Depth PROVE LoopOf(f, l) = LoopStep(a, f, known, l)
    <3>1. l # 0 => known[l - 1] = LoopOf(f, l - 1)
      BY <1>0, <2>1
    <3>2. QED BY <3>1, LoopStepOf
  <2> HIDE DEF a
  <2>4. known = [l \in 0..Depth |-> LoopStep(a, f, known, l)]
    BY <2>2, <2>3
  <2>5. QED BY <2>4
<1>2. loop = [l \in 0..Depth |-> LoopStep(a, f, loop, l)]
  <2> HIDE DEF a
  <2>1. QED BY <1>1
<1>3. CalculateRoot(a, f) = Sha256(loop[Depth].root, ToLeBytes(f))
  <2> HIDE DEF a
  <2>1. QED BY DEF CalculateRoot, LoopStep
<1> HIDE DEF loop
<1> DEFINE Q == {l \in 0..Depth : loop[l] = LoopOf(f, l)}
<1>4. ASSUME NEW l \in 0..Depth, l # 0 => l - 1 \in Q PROVE l \in Q
  <2>1. loop[l] = LoopStep(a, f, loop, l)
    <3> HIDE DEF a
    <3>1. QED BY <1>2
  <2>2. l # 0 => loop[l - 1] = LoopOf(f, l - 1)
    BY <1>4
  <2>3. QED BY <2>1, <2>2, LoopStepOf
<1>5. 0 \in Q /\ \A l \in 1..Depth : l - 1 \in Q => l \in Q
  <2> HIDE DEF Q
  <2>1. 0 \in 0..Depth /\ \A l \in 1..Depth : l \in 0..Depth
    BY DepthAssumption
  <2>2. QED BY <1>4, <2>1
<1>6. \A l \in 0..Depth : l \in Q
  <2> HIDE DEF Q
  <2>1. QED BY <1>5, LevelInduction
<1>7. loop[Depth] = LoopOf(f, Depth)
  BY <1>6, DepthAssumption
<1>8. LoopOf(f, Depth).root = PerfectRoots(f)[Top]
  BY Way DEF LoopOf
<1>9. QED BY <1>3, <1>7, <1>8 DEF ContractRoot

-----------------------------------------------------------------------------
(* from_snapshot_parts. *)

CallPartStep(finalized, deposits_, call, p) ==
    IF p = Top THEN [finalized |-> finalized, deposits |-> deposits_]
    ELSE LET above == call[Parent(p)]
             half == Size[p[1]]
         IN  IF above.finalized = <<>> \/ above.deposits \in {-1, 0, 2 * half}
               THEN NoCall
             ELSE IF p = Left(Parent(p))
               THEN [finalized |-> above.finalized,
                     deposits |-> IF above.deposits <= half THEN above.deposits ELSE half]
             ELSE IF above.deposits <= half
               THEN [finalized |-> <<>>, deposits |-> 0]
               ELSE [finalized |-> Tail(above.finalized), deposits |-> above.deposits - half]

\* A left half is given what its parent is, a right half its own hashes only.
PartsAt(f, p) ==
    IF p # Top /\ p = Left(Parent(p)) THEN PartsOf(f)[Parent(p)] ELSE PartsOf(f)[p]

CallPartOf(f, p) ==
    IF Present(f, f, p) THEN [finalized |-> PartsAt(f, p), deposits |-> Share(f, p)]
    ELSE NoCall

\* A place that is split is given its hashes, of which it has one.
LEMMA SplitParts ==
    ASSUME NEW f \in 0..(Size[Depth] - 1), NEW q \in Places, Split(f, f, q)
    PROVE  /\ PartsAt(f, q) = PartsOf(f)[q] /\ PartsOf(f)[q] # <<>>
           /\ Share(f, q) = f - First(q)
           /\ First(q) < f /\ f < Beyond(q) /\ q[1] # 0
<1>0. f \in Nat /\ First(q) < f /\ f < Beyond(q) /\ q[1] # 0
  BY Sizes, DepthAssumption DEF Split
<1>1. Share(f, q) = f - First(q)
  BY <1>0, Extent DEF Share
<1>2. PartsOf(f)[q] # <<>>
  <2>1. Len(PartsOf(f)[q]) \in 1..q[1] /\ q[1] \in Nat
    BY <1>0, PartsLength, PlaceType
  <2>2. QED BY <2>1
<1>3. PartsAt(f, q) = PartsOf(f)[q]
  <2>1. CASE q # Top /\ q = Left(Parent(q))
    <3> DEFINE r == Parent(q)
    <3>1. r \in Places /\ r[1] # 0 /\ First(r) <= First(q) /\ Beyond(q) <= Beyond(r)
      BY <2>1, Parents
    <3>2. Beyond(q) = First(Right(r)) /\ First(Right(r)) < Beyond(r)
      <4> HIDE DEF r
      <4>1. r \in Places /\ r[1] # 0 /\ q = Left(r)
        BY <2>1, <3>1 DEF r
      <4>2. QED BY <4>1, Halves
    <3>3. f <= First(Right(r)) /\ First(r) < f /\ f < Beyond(r)
      <4>1. First(r) \in Nat /\ First(q) \in Nat /\ Beyond(q) \in Nat /\ Beyond(r) \in Nat
        BY <3>1, Extent
      <4> HIDE DEF r
      <4>2. QED BY <1>0, <3>1, <3>2, <4>1
    <3>4. PartsOf(f)[r] = PartsOf(f)[Left(r)]
      BY <1>0, <3>1, <3>3, PartsSplit
    <3>5. QED BY <2>1, <3>4 DEF PartsAt
  <2>2. QED BY <2>1 DEF PartsAt
<1>4. QED BY <1>0, <1>1, <1>2, <1>3

LEMMA CallPartStepOf ==
    ASSUME NEW f \in 0..(Size[Depth] - 1), NEW g, NEW p \in Places,
           p # Top => g[Parent(p)] = CallPartOf(f, Parent(p))
    PROVE  CallPartStep(PartsOf(f)[Top], f, g, p) = CallPartOf(f, p)
<1> DEFINE a == PartsOf(f)[Top]
<1>0. f \in Nat /\ Counts(f, f)
  BY Sizes, DepthAssumption DEF Counts
<1>1. CASE p = Top
  <2>1. Present(f, f, p)
    BY <1>1 DEF Present
  <2>2. PartsAt(f, p) = a /\ Share(f, p) = f
    BY <1>0, <1>1, TopPlace, Extent DEF PartsAt, Share, Counts
  <2> HIDE DEF a
  <2>3. CallPartStep(a, f, g, p) = [finalized |-> a, deposits |-> f]
    BY <1>1 DEF CallPartStep
  <2>4. QED BY <2>1, <2>2, <2>3 DEF CallPartOf, a
<1>2. CASE p # Top
  <2> DEFINE q == Parent(p)
             above == g[q]
             half == Size[p[1]]
  <2>1. /\ q \in Places /\ q[1] # 0 /\ q[1] - 1 = p[1]
        /\ p = Left(q) \/ p = Right(q)
    BY <1>2, Parents
  <2>2. /\ Left(q) \in Places /\ Right(q) \in Places /\ Left(q) # Right(q)
        /\ First(Left(q)) = First(q) /\ Beyond(Left(q)) = First(Right(q))
        /\ Beyond(Right(q)) = Beyond(q) /\ First(Right(q)) = First(q) + half
        /\ First(q) < First(Right(q)) /\ First(Right(q)) < Beyond(q)
        /\ Size[q[1]] = 2 * half /\ half \in Nat
        /\ Left(q)[1] = p[1]
    BY <2>1, Halves
  <2>3. First(q) \in Nat /\ Beyond(q) \in Nat /\ First(q) < Beyond(q)
        /\ Beyond(q) = First(q) + 2 * half
    BY <2>1, <2>2, Extent
  <2>4. CallPartStep(a, f, g, p) =
               IF above.finalized = <<>> \/ above.deposits \in {-1, 0, 2 * half}
                 THEN NoCall
               ELSE IF p = Left(q)
                 THEN [finalized |-> above.finalized,
                       deposits |-> IF above.deposits <= half THEN above.deposits ELSE half]
               ELSE IF above.deposits <= half
                 THEN [finalized |-> <<>>, deposits |-> 0]
                 ELSE [finalized |-> Tail(above.finalized), deposits |-> above.deposits - half]
    <3> HIDE DEF a
    <3>1. QED BY <1>2 DEF CallPartStep
  <2>5. above = CallPartOf(f, q)
    BY <1>2
  <2>6. Present(f, f, p) <=> Split(f, f, q)
    BY <1>2 DEF Present
  <2> HIDE DEF q, above, half
  <2>7. CASE ~Split(f, f, q)
    <3>1. CASE ~Present(f, f, q)
      <4>1. above.deposits = -1
        BY <2>5, <3>1 DEF CallPartOf, NoCall
      <4>2. QED BY <2>4, <2>6, <2>7, <4>1 DEF CallPartOf
    <3>2. CASE Present(f, f, q)
      <4>1. above.deposits = Share(f, q)
        BY <2>5, <3>2 DEF CallPartOf
      <4>2. f <= First(q) \/ Beyond(q) <= f
        BY <1>0, <2>1, <2>3, <2>7 DEF Split
      <4>3. Share(f, q) = 0 \/ Share(f, q) = 2 * half
        BY <1>0, <2>2, <2>3, <4>2 DEF Share
      <4>4. QED BY <2>4, <2>6, <2>7, <4>1, <4>3 DEF CallPartOf
    <3>3. QED BY <3>1, <3>2
  <2>8. CASE Split(f, f, q)
    <3>1. /\ PartsAt(f, q) = PartsOf(f)[q] /\ PartsOf(f)[q] # <<>>
          /\ Share(f, q) = f - First(q)
          /\ First(q) < f /\ f < Beyond(q)
      BY <2>1, <2>8, SplitParts
    <3>2. Present(f, f, q)
      BY <1>0, <2>1, <2>8, SplitPresent
    <3>3. above.finalized = PartsOf(f)[q] /\ above.deposits = f - First(q)
      BY <2>5, <3>1, <3>2 DEF CallPartOf
    <3>4. ~(above.finalized = <<>> \/ above.deposits \in {-1, 0, 2 * half})
      BY <1>0, <2>2, <2>3, <3>1, <3>3
    <3>5. CallPartOf(f, p) = [finalized |-> PartsAt(f, p), deposits |-> Share(f, p)]
      BY <2>6, <2>8 DEF CallPartOf
    <3>6. CASE p = Left(q)
      <4>1. CallPartStep(a, f, g, p) =
              [finalized |-> PartsOf(f)[q],
               deposits |-> IF f - First(q) <= half THEN f - First(q) ELSE half]
        <5> HIDE DEF a
        <5>1. QED BY <2>4, <3>3, <3>4, <3>6
      <4>2. PartsAt(f, p) = PartsOf(f)[q]
        BY <1>2, <3>6 DEF PartsAt, q
      <4>3. Share(f, p) = IF f - First(q) <= half THEN f - First(q) ELSE half
        <5>1. First(p) = First(q) /\ Beyond(p) = First(q) + half /\ Size[p[1]] = half
          BY <2>2, <3>6 DEF half
        <5>2. QED BY <1>0, <2>2, <2>3, <3>1, <5>1 DEF Share
      <4>4. QED BY <3>5, <4>1, <4>2, <4>3
    <3>7. CASE p = Right(q)
      <4>0. p # Left(q)
        BY <2>2, <3>7
      <4>1. PartsAt(f, p) = PartsOf(f)[p]
        BY <4>0 DEF PartsAt, q
      <4>2. First(p) = First(q) + half /\ Beyond(p) = Beyond(q) /\ p \in Places
        BY <2>2, <3>7
      <4>3. CASE f - First(q) <= half
        <5>1. CallPartStep(a, f, g, p) = [finalized |-> <<>>, deposits |-> 0]
          <6> HIDE DEF a
          <6>1. QED BY <2>4, <3>3, <3>4, <4>0, <4>3
        <5>2. f <= First(p)
          BY <1>0, <2>2, <2>3, <4>2, <4>3
        <5>3. PartsOf(f)[p] = <<>> /\ Share(f, p) = 0
          BY <1>0, <4>2, <5>2, PartsNone DEF Share
        <5>4. QED BY <3>5, <4>1, <5>1, <5>3
      <4>4. CASE ~(f - First(q) <= half)
        <5>1. CallPartStep(a, f, g, p) =
                [finalized |-> Tail(PartsOf(f)[q]), deposits |-> (f - First(q)) - half]
          <6> HIDE DEF a
          <6>1. QED BY <2>4, <3>3, <3>4, <4>0, <4>4
        <5>2. First(p) < f /\ f < Beyond(p)
          BY <1>0, <2>2, <2>3, <3>1, <4>2, <4>4
        <5>3. Share(f, p) = (f - First(q)) - half
          BY <1>0, <2>2, <2>3, <4>2, <5>2 DEF Share
        <5>4. PartsOf(f)[q] = <<FullRoot(Left(q))>> \o PartsOf(f)[p]
          BY <1>0, <2>1, <3>1, <3>7, <5>2, PartsSplit
        <5>5. Tail(PartsOf(f)[q]) = PartsOf(f)[p]
          <6>1. PartsOf(f)[p] \in Seq(Hashes)
            BY <1>0, <4>2, PartsType
          <6>2. FullRoot(Left(q)) \in Hashes
            BY <2>2 DEF Hashes
          <6> DEFINE x == FullRoot(Left(q))
                     w == PartsOf(f)[p]
          <6> HIDE DEF x, w
          <6>3. x \in Hashes /\ w \in Seq(Hashes)
            BY <6>1, <6>2 DEF x, w
          <6>4. Tail(<<x>> \o w) = w
            BY <6>3
          <6>5. QED BY <5>4, <6>4 DEF x, w
        <5>6. QED BY <3>5, <4>1, <5>1, <5>3, <5>5
      <4>5. QED BY <4>3, <4>4
    <3>8. QED BY <2>1, <3>6, <3>7
  <2>9. QED BY <2>7, <2>8
<1>3. QED BY <1>1, <1>2

LEMMA CallPartsOf ==
    ASSUME NEW f \in 0..(Size[Depth] - 1)
    PROVE  \A p \in Places : Parts(PartsOf(f)[Top], f)[p] = CallPartOf(f, p)
<1> DEFINE a == PartsOf(f)[Top]
           call == Parts(a, f)
           known == [p \in Places |-> CallPartOf(f, p)]
<1>1. ASSUME NEW p \in Places, p # Top PROVE Parent(p) \in Places
  BY <1>1, Parents
<1>2. \E g : g = [p \in Places |-> CallPartStep(a, f, g, p)]
  <2>1. \A p \in Places : known[p] = CallPartOf(f, p)
    OBVIOUS
  <2>2. known = [p \in Places |-> CallPartOf(f, p)]
    OBVIOUS
  <2> HIDE DEF known
  <2>3. ASSUME NEW p \in Places PROVE CallPartOf(f, p) = CallPartStep(a, f, known, p)
    <3>1. p # Top => known[Parent(p)] = CallPartOf(f, Parent(p))
      BY <1>1, <2>1
    <3>2. QED BY <3>1, CallPartStepOf
  <2> HIDE DEF a
  <2>4. known = [p \in Places |-> CallPartStep(a, f, known, p)]
    BY <2>2, <2>3
  <2>5. QED BY <2>4
<1>3. call = [p \in Places |-> CallPartStep(a, f, call, p)]
  <2> HIDE DEF a
  <2>1. Parts(a, f) = CHOOSE g : g = [p \in Places |-> CallPartStep(a, f, g, p)]
    BY DEF Parts, CallPartStep
  <2>2. QED BY <1>2, <2>1
<1> DEFINE Agrees(p) == call[p] = CallPartOf(f, p)
           Q == {p \in Places : Agrees(p)}
<1>4. ASSUME NEW p \in Places, p # Top => Parent(p) \in Q PROVE p \in Q
  <2>1. p # Top => call[Parent(p)] = CallPartOf(f, Parent(p))
    BY <1>4
  <2>2. call[p] = CallPartStep(a, f, call, p)
    <3> HIDE DEF call, a
    <3>1. QED BY <1>3
  <2> HIDE DEF call
  <2>3. Agrees(p)
    BY <2>1, <2>2, CallPartStepOf
  <2>4. QED BY <2>3
<1>5. \A p \in Places : p \in Q
  <2> HIDE DEF Q
  <2>1. QED BY <1>4, PlacesDown
<1>6. QED BY <1>5

\* The tree that a snapshot is parsed to is the pruned tree it was taken of,
\* without the deposits that came after the finalized ones.
LEMMA ParsedPruned ==
    ASSUME NEW f \in 0..(Size[Depth] - 1)
    PROVE  FromSnapshotParts(PartsOf(f)[Top], f) = Pruned(f, f) /\ Counts(f, f)
<1> DEFINE a == PartsOf(f)[Top]
           call(p) == Parts(a, f)[p]
<1>0. f \in Nat /\ Counts(f, f) /\ f < Size[Depth] /\ Size[Depth] \in Nat
  BY Sizes, DepthAssumption DEF Counts
<1>1. FromSnapshotParts(a, f) = [p \in Places |-> Parsed(call(p), p[1])]
  BY DEF FromSnapshotParts
<1>2. ASSUME NEW p \in Places PROVE Parsed(call(p), p[1]) = Pruned(f, f)[p]
  <2>1. call(p) = CallPartOf(f, p)
    BY CallPartsOf
  <2> HIDE DEF call
  <2>2. /\ First(p) \in Nat /\ Beyond(p) \in Nat /\ Size[p[1]] \in Nat
        /\ First(p) < Beyond(p) /\ Beyond(p) = First(p) + Size[p[1]]
        /\ p[1] = 0 => Beyond(p) = First(p) + 1
    BY Extent
  <2>3. CASE ~Present(f, f, p)
    <3>1. Parsed(call(p), p[1]) = Absent
      BY <2>1, <2>3 DEF CallPartOf, Parsed
    <3>2. QED BY <1>0, <2>3, <3>1, PrunedCases
  <2>4. CASE Present(f, f, p)
    <3>1. call(p) = [finalized |-> PartsAt(f, p), deposits |-> Share(f, p)]
      BY <2>1, <2>4 DEF CallPartOf
    <3>2. Share(f, p) \in Nat
      BY <1>0, <2>2 DEF Share
    <3>3. /\ call(p) # NoCall
          /\ call(p).finalized = PartsAt(f, p) /\ call(p).deposits = Share(f, p)
      BY <3>1, <3>2 DEF NoCall
    <3>4. CASE f <= First(p)
      <4>1. Share(f, p) = 0
        BY <3>4 DEF Share
      <4>2. Parsed(call(p), p[1]) = Zero(p[1])
        BY <3>3, <4>1 DEF Parsed
      <4>3. QED BY <1>0, <2>4, <3>4, <4>2, PrunedCases
    <3>5. CASE Beyond(p) <= f
      <4> DEFINE q == Parent(p)
      <4>1. p # Top
        BY <1>0, <3>5, TopPlace
      <4>2. Split(f, f, q)
        BY <2>4, <4>1 DEF Present
      <4>3. q \in Places /\ q[1] # 0 /\ (p = Left(q) \/ p = Right(q))
        BY <4>1, Parents
      <4> HIDE DEF q
      <4>4. /\ First(q) < f /\ f < Beyond(q)
            /\ First(q) \in Nat /\ Beyond(q) \in Nat /\ First(Right(q)) \in Nat
            /\ Right(q) \in Places /\ Left(q) \in Places
            /\ Beyond(Left(q)) = First(Right(q)) /\ Beyond(Right(q)) = Beyond(q)
        BY <4>2, <4>3, SplitParts, Halves, Extent
      <4>5. p = Left(q)
        BY <1>0, <3>5, <4>3, <4>4
      <4>6. PartsAt(f, p) = PartsOf(f)[q]
        BY <4>1, <4>5 DEF PartsAt, q
      <4>7. PartsAt(f, p) # <<>> /\ Head(PartsAt(f, p)) = FullRoot(p)
        <5>1. FullRoot(p) \in Hashes /\ PartsOf(f)[Right(q)] \in Seq(Hashes)
          BY <1>0, <4>4, PartsType DEF Hashes
        <5>2. CASE First(Right(q)) < f
          <6>1. PartsOf(f)[q] = <<FullRoot(p)>> \o PartsOf(f)[Right(q)]
            BY <1>0, <4>3, <4>4, <4>5, <5>2, PartsSplit
          <6> DEFINE x == FullRoot(p)
                     w == PartsOf(f)[Right(q)]
          <6> HIDE DEF x, w
          <6>2. x \in Hashes /\ w \in Seq(Hashes)
            BY <5>1 DEF x, w
          <6>3. <<x>> \in Seq(Hashes) /\ Len(<<x>>) = 1
            BY <6>2
          <6>4. Head(<<x>> \o w) = x /\ Len(<<x>> \o w) = 1 + Len(w) /\ Len(w) \in Nat
            BY <6>2, <6>3, LenProperties
          <6>5. <<x>> \o w # <<>>
            BY <6>4
          <6>6. QED BY <4>6, <6>1, <6>4, <6>5 DEF x, w
        <5>3. CASE f <= First(Right(q))
          <6>1. PartsOf(f)[q] = PartsOf(f)[p]
            BY <1>0, <4>3, <4>4, <4>5, <5>3, PartsSplit
          <6>2. PartsOf(f)[p] = <<FullRoot(p)>>
            BY <1>0, <3>5, PartsWhole
          <6>3. Head(<<FullRoot(p)>>) = FullRoot(p) /\ <<FullRoot(p)>> # <<>>
            OBVIOUS
          <6>4. QED BY <4>6, <6>1, <6>2, <6>3
        <5>4. QED BY <1>0, <4>4, <5>2, <5>3
      <4>8. Share(f, p) = Size[p[1]] /\ Share(f, p) # 0
        BY <1>0, <2>2, <3>5 DEF Share
      <4>9. Parsed(call(p), p[1]) = Finalized(Size[p[1]], FullRoot(p))
        BY <3>3, <4>7, <4>8 DEF Parsed
      <4>10. QED BY <1>0, <2>4, <3>5, <4>9, PrunedCases
    <3>6. CASE First(p) < f /\ f < Beyond(p)
      <4>1. Split(f, f, p)
        BY <1>0, <2>2, <3>6 DEF Split
      <4>2. PartsAt(f, p) # <<>> /\ Share(f, p) = f - First(p)
        BY <4>1, SplitParts
      <4>3. Share(f, p) # 0 /\ Share(f, p) # Size[p[1]]
        BY <1>0, <2>2, <3>6, <4>2
      <4>4. Parsed(call(p), p[1]) = Node
        BY <3>3, <4>2, <4>3 DEF Parsed
      <4>5. QED BY <1>0, <4>1, <4>4, PrunedCases
    <3>7. QED BY <1>0, <2>2, <3>4, <3>5, <3>6
  <2>5. QED BY <2>3, <2>4
<1>3. Pruned(f, f) = [p \in Places |-> Pruned(f, f)[p]]
  BY DEF Pruned
<1> HIDE DEF call, a
<1>4. QED BY <1>0, <1>1, <1>2, <1>3 DEF a

-----------------------------------------------------------------------------
(* generate_proof, and the check of a proof. *)

\* The way to a deposit that is not finalized is all there, and what is beside it.
LEMMA WayPresent ==
    ASSUME NEW f, NEW m, Counts(f, m), NEW i \in f..(m - 1), NEW l \in 1..Depth
    PROVE  LET t == Toward(i, l)
               h == Toward(i, l - 1)
           IN  /\ i \in 0..(Size[Depth] - 1)
               /\ t \in Places /\ h \in Places /\ h # Top /\ Parent(h) = t /\ t[1] # 0
               /\ Split(f, m, t) /\ Present(f, m, h) /\ Present(f, m, Sibling(h))
               /\ \/ h[2] % 2 = 0 /\ h = Left(t) /\ Sibling(h) = Right(t)
                  \/ h[2] % 2 = 1 /\ h = Right(t) /\ Sibling(h) = Left(t)
<1> DEFINE t == Toward(i, l)
           h == Toward(i, l - 1)
<1>0. /\ f \in Nat /\ m \in Nat /\ i \in Nat /\ f <= i /\ i < m
      /\ i \in 0..(Size[Depth] - 1)
      /\ l \in 0..Depth /\ l - 1 \in 0..Depth /\ l # 0
  BY Sizes, DepthAssumption DEF Counts
<1>1. /\ t \in Places /\ t[1] = l /\ First(t) <= i /\ i < Beyond(t)
      /\ h \in Places /\ h[1] = l - 1 /\ h # Top /\ Parent(h) = t
  BY <1>0, Way DEF Holds
<1> HIDE DEF t, h
<1>2. t[1] # 0
  BY <1>0, <1>1
<1>3. Split(f, m, t)
  BY <1>0, <1>1, <1>2, Extent DEF Split
<1>4. Present(f, m, h) /\ Present(f, m, Left(t)) /\ Present(f, m, Right(t))
  BY <1>1, <1>3, SplitPresent DEF Present
<1>5. (h[2] % 2 = 0 /\ h = Left(t)) \/ (h[2] % 2 = 1 /\ h = Right(t))
  BY <1>1, Parents
<1>6. h[2] \in Nat /\ t[2] \in Nat
  BY <1>1, PlaceType
<1>7. CASE h[2] % 2 = 0 /\ h = Left(t)
  <2>1. h[1] = t[1] - 1 /\ h[2] = 2 * t[2]
    BY <1>1, <1>2, <1>7, Halves
  <2>2. Sibling(h) = Right(t)
    BY <1>7, <2>1 DEF Sibling, Right
  <2>3. QED BY <1>0, <1>1, <1>2, <1>3, <1>4, <1>7, <2>2 DEF t, h
<1>8. CASE h[2] % 2 = 1 /\ h = Right(t)
  <2>1. h[1] = t[1] - 1 /\ h[2] - 1 = 2 * t[2]
    BY <1>1, <1>2, <1>6, <1>8, Halves
  <2>2. Sibling(h) = Left(t)
    BY <1>8, <2>1 DEF Sibling, Left
  <2>3. QED BY <1>0, <1>1, <1>2, <1>3, <1>4, <1>8, <2>2 DEF t, h
<1>9. QED BY <1>5, <1>7, <1>8

\* A proof holds the leaf, and the siblings of the perfect tree.
LEMMA ProofPruned ==
    ASSUME NEW f, NEW m, Counts(f, m), NEW i \in f..(m - 1)
    PROVE  GenerateProof(Pruned(f, m), i) =
             [leaf |-> DepositRoot(i),
              proof |-> [k \in 1..Depth |-> PerfectRoots(m)[Sibling(Toward(i, k - 1))]]]
<1>1. Roots(Pruned(f, m))[Toward(i, 0)] = DepositRoot(i)
  <2>1. i \in 0..(Size[Depth] - 1) /\ i < m /\ 1 \in 1..Depth /\ 1 - 1 = 0
    <3>1. f \in Nat /\ m \in Nat /\ 1 \in 1..Depth
      BY DepthAssumption DEF Counts
    <3>2. i < m
      BY <3>1
    <3>3. i \in 0..(Size[Depth] - 1)
      BY <3>1, WayPresent
    <3>4. QED BY <3>1, <3>2, <3>3
  <2> DEFINE h == Toward(i, 0)
  <2>2. Present(f, m, h) /\ h \in Places
    BY <2>1, WayPresent
  <2>3. h = <<0, i>>
    BY <2>1, Way
  <2> HIDE DEF h
  <2>4. PerfectRoots(m)[h] = DepositRoot(i)
    BY <2>1, <2>2, <2>3, PerfectLeaf
  <2>5. QED BY <2>2, <2>4, RootsPruned DEF h
<1>2. ASSUME NEW k \in 1..Depth
      PROVE  Roots(Pruned(f, m))[Sibling(Toward(i, k - 1))]
               = PerfectRoots(m)[Sibling(Toward(i, k - 1))]
  <2> DEFINE h == Toward(i, k - 1)
             t == Toward(i, k)
             s == Sibling(h)
  <2>1. Present(f, m, s) /\ (s = Left(t) \/ s = Right(t)) /\ t \in Places /\ t[1] # 0
    BY WayPresent
  <2> HIDE DEF s, t
  <2>2. s \in Places
    BY <2>1, Halves
  <2>3. QED BY <2>1, <2>2, RootsPruned DEF s
<1>3. QED BY <1>1, <1>2 DEF GenerateProof

BranchStep(leaf, branch, index, root, i) ==
    IF i = 0 THEN leaf
    ELSE IF Bit(index, i - 1) = 1 THEN Sha256(branch[i], root[i - 1])
                                  ELSE Sha256(root[i - 1], branch[i])

\* The check of a proof comes by the roots on the way, and the length.
BranchOf(m, index, i) ==
    IF i <= Depth THEN PerfectRoots(m)[Toward(index, i)] ELSE ContractRoot(m)

\* A branch of the deposit tree, with the length at its end.
Branch(m, index, branch) ==
    /\ Len(branch) = Depth + 1
    /\ \A k \in 1..Depth : branch[k] = PerfectRoots(m)[Sibling(Toward(index, k - 1))]
    /\ branch[Depth + 1] = ToLeBytes(m)

LEMMA BranchStepOf ==
    ASSUME NEW f, NEW m, Counts(f, m), NEW index \in f..(m - 1),
           NEW branch, Branch(m, index, branch), NEW g, NEW i \in 0..(Depth + 1),
           i # 0 => g[i - 1] = BranchOf(m, index, i - 1)
    PROVE  BranchStep(DepositRoot(index), branch, index, g, i) = BranchOf(m, index, i)
<1>0. /\ f \in Nat /\ m \in Nat /\ index \in Nat /\ index < m
      /\ index \in 0..(Size[Depth] - 1)
  BY Sizes, DepthAssumption DEF Counts
<1>1. CASE i = 0
  <2> DEFINE h == Toward(index, 0)
  <2>1. h = <<0, index>> /\ h \in Places
    BY <1>0, Way, DepthAssumption
  <2> HIDE DEF h
  <2>2. PerfectRoots(m)[h] = DepositRoot(index)
    BY <1>0, <2>1, PerfectLeaf
  <2>3. BranchOf(m, index, i) = PerfectRoots(m)[h]
    BY <1>1, DepthAssumption DEF BranchOf, h
  <2>4. QED BY <1>1, <2>2, <2>3 DEF BranchStep
<1>2. CASE i \in 1..Depth
  <2> DEFINE t == Toward(index, i)
             h == Toward(index, i - 1)
             s == Sibling(h)
  <2>1. /\ t \in Places /\ t[1] # 0
        /\ \/ h[2] % 2 = 0 /\ h = Left(t) /\ s = Right(t)
           \/ h[2] % 2 = 1 /\ h = Right(t) /\ s = Left(t)
    BY <1>2, WayPresent
  <2>2. Bit(index, i - 1) = h[2] % 2
    BY DEF Bit, Toward
  <2>3. g[i - 1] = PerfectRoots(m)[h] /\ BranchOf(m, index, i) = PerfectRoots(m)[t]
    BY <1>2, DepthAssumption DEF BranchOf
  <2>4. branch[i] = PerfectRoots(m)[s]
    BY <1>2 DEF Branch
  <2> HIDE DEF t, h, s
  <2>5. PerfectRoots(m)[t] = Sha256(PerfectRoots(m)[Left(t)], PerfectRoots(m)[Right(t)])
    BY <2>1, PerfectNode
  <2>6. i # 0
    BY <1>2, DepthAssumption
  <2>7. BranchStep(DepositRoot(index), branch, index, g, i) =
          IF h[2] % 2 = 1 THEN Sha256(PerfectRoots(m)[s], PerfectRoots(m)[h])
                          ELSE Sha256(PerfectRoots(m)[h], PerfectRoots(m)[s])
    BY <2>2, <2>3, <2>4, <2>6 DEF BranchStep
  <2>8. CASE h[2] % 2 = 0 /\ h = Left(t) /\ s = Right(t)
    BY <2>3, <2>5, <2>7, <2>8
  <2>9. CASE h[2] % 2 = 1 /\ h = Right(t) /\ s = Left(t)
    BY <2>3, <2>5, <2>7, <2>9
  <2>10. QED BY <2>1, <2>8, <2>9
<1>3. CASE i = Depth + 1
  <2>1. i - 1 = Depth /\ i # 0 /\ ~(i <= Depth) /\ Depth <= Depth
    BY <1>3, DepthAssumption
  <2>2. Toward(index, Depth) = Top
    BY <1>0, Way
  <2>3. Bit(index, Depth) = Toward(index, Depth)[2] % 2
    BY DEF Bit, Toward
  <2>4. Bit(index, Depth) = 0
    BY <2>2, <2>3, TopPlace
  <2>5. g[i - 1] = PerfectRoots(m)[Top] /\ BranchOf(m, index, i) = ContractRoot(m)
    BY <2>1, <2>2 DEF BranchOf
  <2>6. branch[i] = ToLeBytes(m)
    BY <1>3 DEF Branch
  <2>7. QED BY <2>1, <2>4, <2>5, <2>6 DEF BranchStep, ContractRoot
<1>4. QED BY <1>1, <1>2, <1>3, DepthAssumption

\* The check of a branch finds the root of the contract.
LEMMA BranchChecks ==
    ASSUME NEW f, NEW m, Counts(f, m), NEW index \in f..(m - 1),
           NEW branch, Branch(m, index, branch)
    PROVE  MerkleRootFromBranch(DepositRoot(index), branch, index) = ContractRoot(m)
<1> DEFINE Step(g, i) == BranchStep(DepositRoot(index), branch, index, g, i)
           known == [i \in 0..(Depth + 1) |-> BranchOf(m, index, i)]
           root == CHOOSE g : g = [i \in 0..(Depth + 1) |-> Step(g, i)]
<1>0. /\ \A i \in 0..(Depth + 1) : i # 0 => i - 1 \in 0..(Depth + 1)
      /\ \A i \in 0..Depth : i \in 0..(Depth + 1)
      /\ Depth + 1 \in 0..(Depth + 1) /\ Depth + 1 # 0 /\ (Depth + 1) - 1 = Depth
      /\ ~(Depth + 1 <= Depth)
  BY DepthAssumption
<1>1. \E g : g = [i \in 0..(Depth + 1) |-> Step(g, i)]
  <2>1. \A i \in 0..(Depth + 1) : known[i] = BranchOf(m, index, i)
    OBVIOUS
  <2>2. known = [i \in 0..(Depth + 1) |-> BranchOf(m, index, i)]
    OBVIOUS
  <2> HIDE DEF known
  <2>3. ASSUME NEW i \in 0..(Depth + 1) PROVE BranchOf(m, index, i) = Step(known, i)
    <3>1. i # 0 => known[i - 1] = BranchOf(m, index, i - 1)
      BY <1>0, <2>1
    <3>2. QED BY <3>1, BranchStepOf
  <2> HIDE DEF Step
  <2>4. known = [i \in 0..(Depth + 1) |-> Step(known, i)]
    BY <2>2, <2>3
  <2>5. QED BY <2>4
<1>2. root = [i \in 0..(Depth + 1) |-> Step(root, i)]
  <2> HIDE DEF Step
  <2>1. QED BY <1>1
<1>3. MerkleRootFromBranch(DepositRoot(index), branch, index) = root[Depth + 1]
  <2>1. Len(branch) = Depth + 1
    BY DEF Branch
  <2>2. QED BY <2>1 DEF MerkleRootFromBranch, BranchStep
<1> HIDE DEF root
<1> DEFINE Q == {i \in 0..(Depth + 1) : root[i] = BranchOf(m, index, i)}
<1>4. ASSUME NEW i \in 0..(Depth + 1), i # 0 => i - 1 \in Q PROVE i \in Q
  <2>1. root[i] = Step(root, i)
    <3> HIDE DEF Step
    <3>1. QED BY <1>2
  <2>2. i # 0 => root[i - 1] = BranchOf(m, index, i - 1)
    BY <1>4
  <2>3. QED BY <2>1, <2>2, BranchStepOf
<1>5. \A i \in 0..Depth : i \in Q
  <2> HIDE DEF Q
  <2>1. 0 \in Q /\ \A i \in 1..Depth : i - 1 \in Q => i \in Q
    <3>1. 0 \in 0..(Depth + 1) /\ \A i \in 1..Depth : i \in 0..(Depth + 1)
      BY DepthAssumption
    <3>2. QED BY <1>4, <3>1
  <2>2. QED BY <2>1, LevelInduction
<1>6. Depth + 1 \in Q
  <2> HIDE DEF Q
  <2>1. Depth \in Q
    BY <1>5, DepthAssumption
  <2>2. QED BY <1>0, <1>4, <2>1
<1>7. root[Depth + 1] = BranchOf(m, index, Depth + 1)
  BY <1>6
<1>8. QED BY <1>0, <1>3, <1>7 DEF BranchOf

-----------------------------------------------------------------------------
(* The tree of a client. *)

FinalizedBy(block) == IF block = NoBlock THEN 0 ELSE block

\* What a client has seen and what it has finalized determine its tree.
ClientTree(m, block) ==
    [tree |-> Pruned(FinalizedBy(block), m), mix_in_length |-> m,
     finalized_execution_block |-> block]

\* A client that saw m deposits may know no finalized block, or one that saw
\* some of them.
Seen(m, block) == m \in 0..(Size[Depth] - 1) /\ block \in {NoBlock} \cup 1..m

LEMMA SeenCounts ==
    ASSUME NEW m, NEW b, Seen(m, b)
    PROVE  /\ Counts(FinalizedBy(b), m) /\ m \in Nat /\ m < Size[Depth]
           /\ FinalizedBy(b) \in 0..m /\ FinalizedBy(b) \in 0..(Size[Depth] - 1)
           /\ b # NoBlock => FinalizedBy(b) = b /\ b \in 1..m /\ Seen(b, b)
BY Sizes, DepthAssumption DEF Seen, Counts, FinalizedBy, NoBlock

\* The fields of the tree of a client.
LEMMA ClientFields ==
    ASSUME NEW m, NEW b
    PROVE  /\ ClientTree(m, b).tree = Pruned(FinalizedBy(b), m)
           /\ ClientTree(m, b).mix_in_length = m
           /\ ClientTree(m, b).finalized_execution_block = b
BY DEF ClientTree

\* The record of a DepositTree is its three fields.
Record(x, n, b) == [tree |-> x, mix_in_length |-> n, finalized_execution_block |-> b]

\* What a push changes of it.
LEMMA PushedRecord ==
    ASSUME NEW x, NEW n, NEW b, NEW leaf
    PROVE  TreePush(Record(x, n, b), leaf) = Record(PushLeaf(x, leaf), n + 1, b)
<1> DEFINE y == PushLeaf(x, leaf)
           u == TreePush(Record(x, n, b), leaf)
           v == Record(y, n + 1, b)
           S == {x, y, n, n + 1, b}
           R == [tree : S, mix_in_length : S, finalized_execution_block : S]
<1>1. Record(x, n, b).tree = x /\ Record(x, n, b).mix_in_length = n
  BY DEF Record
<1> HIDE DEF y
<1>2. u \in R /\ v \in R
  BY <1>1 DEF Record, TreePush, y
<1>3. /\ u.tree = v.tree /\ u.mix_in_length = v.mix_in_length
      /\ u.finalized_execution_block = v.finalized_execution_block
  BY <1>1 DEF Record, TreePush, y
<1>4. \A p, q \in R : (/\ p.tree = q.tree /\ p.mix_in_length = q.mix_in_length
                       /\ p.finalized_execution_block = q.finalized_execution_block) => p = q
  OBVIOUS
<1> HIDE DEF u, v, R
<1>5. QED BY <1>2, <1>3, <1>4 DEF u, v, y

\* What a finalize changes of it.
LEMMA FinalizedRecord ==
    ASSUME NEW x, NEW n, NEW b, NEW c, ~(Size[Depth] <= c)
    PROVE  TreeFinalize(Record(x, n, b), c) = Record(Finalize(x, c), n, c)
<1> DEFINE y == Finalize(x, c)
           u == TreeFinalize(Record(x, n, b), c)
           v == Record(y, n, c)
           S == {x, y, n, c, b}
           R == [tree : S, mix_in_length : S, finalized_execution_block : S]
<1>1. Record(x, n, b).tree = x /\ Record(x, n, b).mix_in_length = n
  BY DEF Record
<1> HIDE DEF y
<1>2. u \in R /\ v \in R
  BY <1>1 DEF Record, TreeFinalize, y
<1>3. /\ u.tree = v.tree /\ u.mix_in_length = v.mix_in_length
      /\ u.finalized_execution_block = v.finalized_execution_block
  BY <1>1 DEF Record, TreeFinalize, y
<1>4. \A p, q \in R : (/\ p.tree = q.tree /\ p.mix_in_length = q.mix_in_length
                       /\ p.finalized_execution_block = q.finalized_execution_block) => p = q
  OBVIOUS
<1> HIDE DEF u, v, R
<1>5. QED BY <1>2, <1>3, <1>4 DEF u, v, y

LEMMA NewClient ==
    NewTree = ClientTree(0, NoBlock) /\ Seen(0, NoBlock)
<1>1. Counts(0, 0) /\ Size[Depth] \in Nat /\ Size[Depth] >= 1 /\ FinalizedBy(NoBlock) = 0
  BY Sizes, DepthAssumption DEF Counts, FinalizedBy
<1>2. ASSUME NEW p \in Places
      PROVE  Pruned(0, 0)[p] = IF p = Top THEN Zero(Depth) ELSE Absent
  <2>1. First(p) \in Nat
    BY Extent
  <2>2. CASE p = Top
    <3>1. Present(0, 0, p) /\ 0 <= First(p) /\ p[1] = Depth
      BY <2>1, <2>2, TopPlace DEF Present
    <3>2. QED BY <1>1, <2>2, <3>1, PrunedCases
  <2>3. CASE p # Top
    <3>1. First(Parent(p)) \in Nat
      BY <2>3, Parents, Extent
    <3>2. ~Present(0, 0, p)
      BY <2>3, <3>1 DEF Present, Split
    <3>3. QED BY <1>1, <2>3, <3>2, PrunedCases
  <2>4. QED BY <2>2, <2>3
<1>3. Pruned(0, 0) = [p \in Places |-> Pruned(0, 0)[p]]
  BY DEF Pruned
<1>4. EmptyTree = Pruned(0, 0)
  BY <1>2, <1>3 DEF EmptyTree
<1>5. QED BY <1>1, <1>4 DEF NewTree, ClientTree, Seen

LEMMA RootOfClient ==
    ASSUME NEW m, NEW b, Seen(m, b)
    PROVE  TreeRoot(ClientTree(m, b)) = ContractRoot(m)
<1>1. Counts(FinalizedBy(b), m) /\ Top \in Places /\ Present(FinalizedBy(b), m, Top)
  BY SeenCounts, TopPlace DEF Present
<1>2. Roots(Pruned(FinalizedBy(b), m))[Top] = PerfectRoots(m)[Top]
  BY <1>1, RootsPruned
<1>3. QED BY <1>2, ClientFields DEF TreeRoot, ContractRoot

LEMMA PushOfClient ==
    ASSUME NEW m, NEW b, Seen(m, b), m + 1 < Size[Depth]
    PROVE  /\ TreePush(ClientTree(m, b), DepositRoot(m)) = ClientTree(m + 1, b)
           /\ Seen(m + 1, b)
<1>1. PushLeaf(Pruned(FinalizedBy(b), m), DepositRoot(m)) = Pruned(FinalizedBy(b), m + 1)
  BY SeenCounts, PushPruned
<1>2. TreePush(ClientTree(m, b), DepositRoot(m)) = ClientTree(m + 1, b)
  <2>1. /\ ClientTree(m, b) = Record(Pruned(FinalizedBy(b), m), m, b)
        /\ ClientTree(m + 1, b) = Record(Pruned(FinalizedBy(b), m + 1), m + 1, b)
    BY DEF ClientTree, Record
  <2>2. QED BY <1>1, <2>1, PushedRecord
<1>3. Seen(m + 1, b)
  BY Sizes, DepthAssumption DEF Seen
<1>4. QED BY <1>2, <1>3

LEMMA FinalizeOfClient ==
    ASSUME NEW m, NEW b, Seen(m, b), NEW count \in 1..m, count >= b
    PROVE  TreeFinalize(ClientTree(m, b), count) = ClientTree(m, count) /\ Seen(m, count)
<1>1. /\ Counts(FinalizedBy(b), m) /\ FinalizedBy(b) <= count /\ ~(Size[Depth] <= count)
      /\ FinalizedBy(count) = count
  BY Sizes, DepthAssumption DEF Seen, Counts, FinalizedBy, NoBlock
<1>2. Finalize(Pruned(FinalizedBy(b), m), count) = Pruned(count, m)
  BY <1>1, FinalizePruned
<1>3. TreeFinalize(ClientTree(m, b), count) = ClientTree(m, count)
  <2>1. /\ ClientTree(m, b) = Record(Pruned(FinalizedBy(b), m), m, b)
        /\ ClientTree(m, count) = Record(Pruned(count, m), m, count)
    BY <1>1 DEF ClientTree, Record
  <2>2. QED BY <1>1, <1>2, <2>1, FinalizedRecord
<1>4. Seen(m, count)
  BY DEF Seen
<1>5. QED BY <1>3, <1>4

\* The snapshot of a client is what its finalized block saw.
LEMMA SnapshotOfClient ==
    ASSUME NEW m, NEW b, Seen(m, b), b # NoBlock
    PROVE  GetSnapshot(ClientTree(m, b)) =
             [finalized |-> PartsOf(b)[Top], deposit_count |-> b,
              deposit_root |-> ContractRoot(b), execution_block |-> b]
<1>1. Counts(b, m) /\ FinalizedBy(b) = b /\ b \in 0..(Size[Depth] - 1)
  BY SeenCounts
<1>2. GetFinalized(Pruned(b, m)) = [count |-> b, result |-> PartsOf(b)[Top]]
  BY <1>1, FinalizedFound
<1>3. CalculateRoot(PartsOf(b)[Top], b) = ContractRoot(b)
  BY <1>1, CalculatedRoot
<1>4. QED BY <1>1, <1>2, <1>3, ClientFields DEF GetSnapshot

\* A snapshot is valid, and restores the tree of a client that saw no more
\* deposits than were finalized.
LEMMA RestoredOfClient ==
    ASSUME NEW m, NEW b, Seen(m, b), b # NoBlock
    PROVE  /\ SnapshotIsValid(GetSnapshot(ClientTree(m, b)))
           /\ FromSnapshot(GetSnapshot(ClientTree(m, b))) = ClientTree(b, b)
           /\ Seen(b, b) /\ b \in 1..m
<1> DEFINE s == GetSnapshot(ClientTree(m, b))
<1>1. b \in 0..(Size[Depth] - 1) /\ FinalizedBy(b) = b /\ Seen(b, b) /\ b \in 1..m
  BY SeenCounts
<1>2. /\ s.finalized = PartsOf(b)[Top] /\ s.deposit_count = b
      /\ s.deposit_root = ContractRoot(b) /\ s.execution_block = b
  BY SnapshotOfClient
<1> HIDE DEF s
<1>3. FromSnapshotParts(PartsOf(b)[Top], b) = Pruned(b, b)
  BY <1>1, ParsedPruned
<1>4. FromSnapshot(s) = ClientTree(b, b)
  BY <1>1, <1>2, <1>3 DEF FromSnapshot, ClientTree
<1>5. SnapshotIsValid(s)
  BY <1>1, <1>2, CalculatedRoot DEF SnapshotIsValid
<1>6. QED BY <1>1, <1>4, <1>5 DEF s

-----------------------------------------------------------------------------
(* The inductive invariant: whatever a client did, its tree is the one that is *)
(* determined by the deposits it saw and the block it finalized.               *)

DepositInv ==
    /\ deposits \in 0..MaxDeposits
    /\ trees = [c \in Clients |-> trees[c]]
    /\ \A c \in Clients : \E m \in 0..deposits : \E b \in {NoBlock} \cup 1..m :
         trees[c] = ClientTree(m, b)

LEMMA ClientSeen ==
    ASSUME DepositInv, NEW c \in Clients
    PROVE  \E m, b : /\ m \in 0..deposits /\ b \in {NoBlock} \cup 1..m
                     /\ trees[c] = ClientTree(m, b) /\ Seen(m, b)
<1>1. PICK m \in 0..deposits : \E b \in {NoBlock} \cup 1..m : trees[c] = ClientTree(m, b)
  BY DEF DepositInv
<1>2. m \in 0..(Size[Depth] - 1)
  BY Sizes, DepthAssumption, DepositAssumption DEF DepositInv
<1>3. QED BY <1>1, <1>2 DEF Seen

\* Changing one client's tree to the one that is determined keeps the invariant.
LEMMA OneClient ==
    ASSUME DepositInv, NEW c \in Clients, NEW m \in 0..deposits, NEW b \in {NoBlock} \cup 1..m,
           trees' = [trees EXCEPT ![c] = ClientTree(m, b)], deposits' = deposits
    PROVE  DepositInv'
<1>1. trees' = [d \in Clients |-> IF d = c THEN ClientTree(m, b) ELSE trees[d]]
  BY DEF DepositInv
<1>2. trees' = [d \in Clients |-> trees'[d]]
  BY <1>1
<1>3. \A d \in Clients : \E n \in 0..deposits : \E e \in {NoBlock} \cup 1..n :
        trees'[d] = ClientTree(n, e)
  <2>1. TAKE d \in Clients
  <2>2. CASE d = c
    BY <1>1, <2>2
  <2>3. CASE d # c
    BY <1>1, <2>3 DEF DepositInv
  <2>4. QED BY <2>2, <2>3
<1>4. QED BY <1>2, <1>3 DEF DepositInv

LEMMA DepositInvInit == Init => DepositInv
<1>1. SUFFICES ASSUME Init PROVE DepositInv
  OBVIOUS
<1>2. deposits \in 0..MaxDeposits /\ 0 \in 0..deposits
  BY <1>1, Sizes, DepthAssumption, DepositAssumption DEF Init
<1>3. \A c \in Clients : trees[c] = ClientTree(0, NoBlock)
  BY <1>1, NewClient DEF Init
<1>4. trees = [c \in Clients |-> trees[c]]
  BY <1>1 DEF Init
<1>5. QED BY <1>2, <1>3, <1>4 DEF DepositInv

LEMMA DepositInvStep == DepositInv /\ [Next]_vars => DepositInv'
<1>1. SUFFICES ASSUME DepositInv, [Next]_vars PROVE DepositInv'
  OBVIOUS
<1>2. CASE Deposit
  <2>1. deposits' = deposits + 1 /\ trees' = trees /\ deposits' \in 0..MaxDeposits
        /\ deposits \in Nat
    BY <1>1, <1>2, Sizes, DepthAssumption, DepositAssumption DEF Deposit, DepositInv
  <2>2. \A m \in 0..deposits : m \in 0..deposits'
    BY <2>1
  <2>3. QED BY <1>1, <2>1, <2>2 DEF DepositInv
<1>3. ASSUME NEW c \in Clients, Follow(c) PROVE DepositInv'
  <2>1. PICK m, b : /\ m \in 0..deposits /\ b \in {NoBlock} \cup 1..m
                     /\ trees[c] = ClientTree(m, b) /\ Seen(m, b)
    BY <1>1, ClientSeen
  <2>2. /\ m < deposits /\ deposits' = deposits
        /\ trees' = [trees EXCEPT ![c] = TreePush(trees[c], DepositRoot(m))]
    <3>1. trees[c].mix_in_length = m
      BY <2>1, ClientFields
    <3>2. QED BY <1>3, <3>1 DEF Follow
  <2>3. m + 1 < Size[Depth] /\ m + 1 \in 0..deposits /\ m \in Nat
    BY <1>1, <2>1, <2>2, Sizes, DepthAssumption, DepositAssumption DEF DepositInv
  <2>4. TreePush(trees[c], DepositRoot(m)) = ClientTree(m + 1, b)
    BY <2>1, <2>3, PushOfClient
  <2>5. b \in {NoBlock} \cup 1..(m + 1)
    BY <2>1, <2>3
  <2>6. QED BY <1>1, <2>2, <2>3, <2>4, <2>5, OneClient
<1>4. ASSUME NEW c \in Clients, NEW count \in FinalizedCounts(trees[c]), FinalizeEth1Data(c, count)
      PROVE  DepositInv'
  <2>1. PICK m, b : /\ m \in 0..deposits /\ b \in {NoBlock} \cup 1..m
                     /\ trees[c] = ClientTree(m, b) /\ Seen(m, b)
    BY <1>1, ClientSeen
  <2>2. count \in 1..m /\ count >= b
    BY <1>4, <2>1, ClientFields DEF FinalizedCounts
  <2>3. TreeFinalize(trees[c], count) = ClientTree(m, count)
    BY <2>1, <2>2, FinalizeOfClient
  <2>4. deposits' = deposits /\ trees' = [trees EXCEPT ![c] = ClientTree(m, count)]
    BY <1>4, <2>3 DEF FinalizeEth1Data
  <2>5. m \in 0..deposits /\ count \in {NoBlock} \cup 1..m
    BY <2>1, <2>2
  <2>6. QED BY <1>1, <2>4, <2>5, OneClient
<1>5. ASSUME NEW c \in Clients, NEW d \in Clients, Restore(c, d) PROVE DepositInv'
  <2>1. PICK m, b : /\ m \in 0..deposits /\ b \in {NoBlock} \cup 1..m
                     /\ trees[d] = ClientTree(m, b) /\ Seen(m, b)
    BY <1>1, ClientSeen
  <2>2. b # NoBlock
    BY <1>5, <2>1, ClientFields DEF Restore
  <2>3. FromSnapshot(GetSnapshot(trees[d])) = ClientTree(b, b) /\ b \in 1..m
    BY <2>1, <2>2, RestoredOfClient
  <2>4. deposits' = deposits /\ trees' = [trees EXCEPT ![c] = ClientTree(b, b)]
    BY <1>5, <2>3 DEF Restore
  <2>5. b \in 0..deposits /\ b \in {NoBlock} \cup 1..b
    BY <1>1, <2>1, <2>3, DepositAssumption DEF DepositInv
  <2>6. QED BY <1>1, <2>4, <2>5, OneClient
<1>6. CASE UNCHANGED vars
  BY <1>1, <1>6 DEF DepositInv, vars
<1>7. QED BY <1>1, <1>2, <1>3, <1>4, <1>5, <1>6 DEF Next

\* Whatever the clients pushed, pruned and restored, in any order, the tree of
\* each is the pruned tree of the deposits it saw (DepositTree of
\* deposit_snapshot.py).
THEOREM TreesAreDetermined == Spec => []DepositInv
<1>1. QED BY DepositInvInit, DepositInvStep, PTL DEF Spec

-----------------------------------------------------------------------------
(* What it implies. *)

LEMMA InvRootsAgree == DepositInv => RootsAgree
<1>1. SUFFICES ASSUME DepositInv, NEW c \in Clients
               PROVE  TreeRoot(trees[c]) = ContractRoot(trees[c].mix_in_length)
  BY DEF RootsAgree
<1>2. PICK m, b : trees[c] = ClientTree(m, b) /\ Seen(m, b)
  BY <1>1, ClientSeen
<1>3. QED BY <1>2, RootOfClient, ClientFields

LEMMA InvSnapshotIsEth1Data == DepositInv => SnapshotIsEth1Data
<1>1. SUFFICES ASSUME DepositInv, NEW c \in Clients,
                      trees[c].finalized_execution_block # NoBlock
               PROVE  LET s == GetSnapshot(trees[c])
                      IN  /\ s.deposit_count = s.execution_block
                          /\ s.deposit_root = ContractRoot(s.execution_block)
                          /\ Len(s.finalized) <= Depth
  BY DEF SnapshotIsEth1Data
<1>2. PICK m, b : trees[c] = ClientTree(m, b) /\ Seen(m, b)
  BY <1>1, ClientSeen
<1>3. b # NoBlock
  BY <1>1, <1>2, ClientFields
<1>4. b \in 1..m /\ m < Size[Depth] /\ m \in Nat
  BY <1>2, <1>3, SeenCounts
<1>5. First(Top) < b /\ b < Beyond(Top) /\ b \in Nat /\ Top[1] = Depth /\ Top \in Places
  BY <1>4, TopPlace, Sizes, DepthAssumption
<1>6. Len(PartsOf(b)[Top]) \in 1..Depth
  BY <1>5, PartsLength
<1>7. Len(PartsOf(b)[Top]) <= Depth
  BY <1>6, DepthAssumption
<1>8. QED BY <1>2, <1>3, <1>7, SnapshotOfClient

LEMMA ProofOfClient ==
    ASSUME NEW m, NEW b, Seen(m, b), NEW i \in 0..(m - 1), i >= b
    PROVE  LET p == TreeProof(ClientTree(m, b), i)
           IN  CanProve(ClientTree(m, b), i) /\ p.leaf = DepositRoot(i) /\ Branch(m, i, p.proof)
<1> DEFINE t == ClientTree(m, b)
           f == FinalizedBy(b)
           way == [k \in 1..Depth |-> PerfectRoots(m)[Sibling(Toward(i, k - 1))]]
           S == {PerfectRoots(m)[Sibling(Toward(i, k - 1))] : k \in 1..Depth} \cup {ToLeBytes(m)}
<1>1. Counts(f, m) /\ m \in Nat /\ f \in 0..m
  BY SeenCounts
<1>2. i \in f..(m - 1) /\ m > 0
  BY <1>1 DEF FinalizedBy, NoBlock
<1>3. CanProve(t, i)
  <2>1. GetFinalized(Pruned(f, m)).count = f
    BY <1>1, FinalizedFound
  <2>2. t.tree = Pruned(f, m) /\ t.mix_in_length = m
    BY ClientFields
  <2> HIDE DEF t, f
  <2>3. i > f - 1
    BY <1>1, <1>2
  <2>4. QED BY <1>2, <2>1, <2>2, <2>3 DEF CanProve
<1>4. GenerateProof(t.tree, i) = [leaf |-> DepositRoot(i), proof |-> way]
  <2>1. t.tree = Pruned(f, m)
    BY ClientFields
  <2> HIDE DEF t, f
  <2>2. GenerateProof(Pruned(f, m), i) = [leaf |-> DepositRoot(i), proof |-> way]
    BY <1>1, <1>2, ProofPruned
  <2>3. QED BY <2>1, <2>2
<1>5. TreeProof(t, i) = [leaf |-> DepositRoot(i), proof |-> Append(way, ToLeBytes(m))]
  <2>1. t.mix_in_length = m
    BY ClientFields
  <2>2. [leaf |-> DepositRoot(i), proof |-> way].proof = way
    OBVIOUS
  <2> HIDE DEF t, way, S, f
  <2>3. TreeProof(t, i) = [[leaf |-> DepositRoot(i), proof |-> way] EXCEPT
                             !.proof = Append(way, ToLeBytes(m))]
    BY <1>4, <2>1, <2>2 DEF TreeProof
  <2>4. QED BY <2>3
<1>6. way \in Seq(S) /\ Len(way) = Depth /\ ToLeBytes(m) \in S
  <2>1. \A k \in 1..Depth : way[k] \in S
    OBVIOUS
  <2>2. way = [k \in 1..Depth |-> way[k]] /\ ToLeBytes(m) \in S
    OBVIOUS
  <2> HIDE DEF way, S
  <2>3. QED BY <2>1, <2>2, DepthAssumption
<1>7. \A k \in 1..Depth : way[k] = PerfectRoots(m)[Sibling(Toward(i, k - 1))]
  OBVIOUS
<1> HIDE DEF way, S
<1>8. /\ Len(Append(way, ToLeBytes(m))) = Depth + 1
      /\ \A k \in 1..Depth : Append(way, ToLeBytes(m))[k] = way[k]
      /\ Append(way, ToLeBytes(m))[Depth + 1] = ToLeBytes(m)
  BY <1>6, AppendProperties, DepthAssumption
<1>9. Branch(m, i, Append(way, ToLeBytes(m)))
  BY <1>7, <1>8 DEF Branch
<1>10. QED BY <1>3, <1>5, <1>9

LEMMA InvUnfinalizedProvable == DepositInv => UnfinalizedProvable
<1>1. SUFFICES ASSUME DepositInv, NEW c \in Clients,
                      NEW i \in 0..(trees[c].mix_in_length - 1),
                      i >= trees[c].finalized_execution_block
               PROVE  LET p == TreeProof(trees[c], i)
                      IN  /\ CanProve(trees[c], i)
                          /\ p.leaf = DepositRoot(i)
                          /\ MerkleRootFromBranch(p.leaf, p.proof, i) = TreeRoot(trees[c])
  BY DEF UnfinalizedProvable
<1>2. PICK m, b : trees[c] = ClientTree(m, b) /\ Seen(m, b)
  BY <1>1, ClientSeen
<1> DEFINE p == TreeProof(trees[c], i)
<1>3. i \in 0..(m - 1) /\ i >= b
  BY <1>1, <1>2, ClientFields
<1>4. CanProve(trees[c], i) /\ p.leaf = DepositRoot(i) /\ Branch(m, i, p.proof)
  BY <1>2, <1>3, ProofOfClient
<1>5. Counts(FinalizedBy(b), m) /\ i \in FinalizedBy(b)..(m - 1)
  BY <1>2, <1>3, SeenCounts DEF FinalizedBy, NoBlock
<1> HIDE DEF p
<1>6. MerkleRootFromBranch(DepositRoot(i), p.proof, i) = ContractRoot(m)
  BY <1>4, <1>5, BranchChecks
<1>7. TreeRoot(trees[c]) = ContractRoot(m)
  BY <1>2, RootOfClient
<1>8. QED BY <1>4, <1>6, <1>7 DEF p

\* A copy of a client's snapshot, extended to any count, is the tree of a client
\* that saw that many.
LEMMA CopyOfClient ==
    ASSUME NEW m, NEW b, Seen(m, b), b # NoBlock, m <= MaxDeposits, NEW count \in b..m
    PROVE  CopyAt(ClientTree(m, b), count) = ClientTree(count, b) /\ Seen(count, b)
<1> DEFINE copy == FromSnapshot(GetSnapshot(ClientTree(m, b)))
           Step(g, n) == IF n <= copy.mix_in_length THEN copy
                         ELSE TreePush(g[n - 1], DepositRoot(n - 1))
           GrownTo(n) == ClientTree(IF n <= b THEN b ELSE n, b)
           known == [n \in 0..MaxDeposits |-> GrownTo(n)]
           grown == CHOOSE g : g = [n \in 0..MaxDeposits |-> Step(g, n)]
<1>0. /\ MaxDeposits \in Nat /\ MaxDeposits < Size[Depth] /\ Size[Depth] \in Nat
      /\ m \in Nat /\ b \in 1..m /\ Seen(b, b)
  BY SeenCounts, Sizes, DepthAssumption, DepositAssumption
<1>1. copy = ClientTree(b, b) /\ copy.mix_in_length = b
  BY RestoredOfClient, ClientFields
<1> HIDE DEF copy
<1>2. ASSUME NEW g, NEW n \in 0..MaxDeposits, n # 0 => g[n - 1] = GrownTo(n - 1)
      PROVE  Step(g, n) = GrownTo(n)
  <2>1. CASE n <= b
    BY <1>1, <2>1
  <2>2. CASE ~(n <= b)
    <3>1. n # 0 /\ n - 1 \in Nat /\ n - 1 >= b /\ (n - 1) + 1 = n /\ n < Size[Depth]
      BY <1>0, <2>2
    <3>2. GrownTo(n - 1) = ClientTree(n - 1, b)
      <4>1. n - 1 = b \/ ~(n - 1 <= b)
        BY <1>0, <3>1
      <4>2. QED BY <4>1
    <3>3. Seen(n - 1, b)
      BY <1>0, <3>1 DEF Seen
    <3>4. TreePush(ClientTree(n - 1, b), DepositRoot(n - 1)) = ClientTree(n, b)
      BY <3>1, <3>3, PushOfClient
    <3>5. QED BY <1>1, <1>2, <2>2, <3>1, <3>2, <3>4
  <2>3. QED BY <2>1, <2>2
<1> HIDE DEF Step, GrownTo
<1>3. \A n \in 0..MaxDeposits : n # 0 => n - 1 \in 0..MaxDeposits
  BY <1>0
<1>4. \E g : g = [n \in 0..MaxDeposits |-> Step(g, n)]
  <2>1. known = [n \in 0..MaxDeposits |-> GrownTo(n)] /\ \A n \in 0..MaxDeposits : known[n] = GrownTo(n)
    OBVIOUS
  <2> HIDE DEF known
  <2>2. \A n \in 0..MaxDeposits : Step(known, n) = GrownTo(n)
    BY <1>2, <1>3, <2>1
  <2>3. known = [n \in 0..MaxDeposits |-> Step(known, n)]
    BY <2>1, <2>2
  <2>4. QED BY <2>3
<1>5. grown = [n \in 0..MaxDeposits |-> Step(grown, n)]
  BY <1>4
<1>6. CopyAt(ClientTree(m, b), count) = grown[count]
  BY DEF CopyAt, copy, Step
<1> HIDE DEF grown
<1> DEFINE N == {n \in Nat : n <= MaxDeposits => grown[n] = GrownTo(n)}
<1>7. 0 \in N
  <2>1. 0 \in 0..MaxDeposits
    BY <1>0
  <2>2. Step(grown, 0) = GrownTo(0)
    BY <1>2, <2>1
  <2>3. QED BY <1>5, <2>1, <2>2
<1>8. ASSUME NEW n \in Nat, n \in N PROVE n + 1 \in N
  <2>1. SUFFICES ASSUME n + 1 <= MaxDeposits PROVE grown[n + 1] = GrownTo(n + 1)
    OBVIOUS
  <2>2. n + 1 \in 0..MaxDeposits /\ (n + 1) - 1 = n /\ grown[n] = GrownTo(n)
    BY <1>0, <1>8, <2>1
  <2>3. Step(grown, n + 1) = GrownTo(n + 1)
    BY <1>2, <2>2
  <2>4. QED BY <1>5, <2>2, <2>3
<1>9. \A n \in Nat : n \in N
  <2> HIDE DEF N
  <2>1. QED BY <1>7, <1>8, NumberInduction
<1>10. count \in Nat /\ count <= MaxDeposits /\ count >= b
  BY <1>0
<1>11. grown[count] = GrownTo(count)
  BY <1>9, <1>10
<1>12. GrownTo(count) = ClientTree(count, b)
  <2>1. count = b \/ ~(count <= b)
    BY <1>0, <1>10
  <2>2. QED BY <2>1 DEF GrownTo
<1>13. Seen(count, b)
  BY <1>0, <1>10 DEF Seen
<1>14. QED BY <1>6, <1>11, <1>12, <1>13

LEMMA InvEarlierVersions == DepositInv => EarlierVersions
<1>1. SUFFICES ASSUME DepositInv, NEW c \in Clients, NEW count \in 1..trees[c].mix_in_length,
                      count >= trees[c].finalized_execution_block,
                      trees[c].finalized_execution_block # NoBlock
               PROVE  /\ TreeRoot(CopyAt(trees[c], count)) = ContractRoot(count)
                      /\ SnapshotIsValid(GetSnapshot(trees[c]))
  BY DEF EarlierVersions
<1>2. PICK m, b : m \in 0..deposits /\ trees[c] = ClientTree(m, b) /\ Seen(m, b)
  BY <1>1, ClientSeen
<1>3. count \in 1..m /\ count >= b /\ b # NoBlock
  BY <1>1, <1>2, ClientFields
<1>4. b \in 1..m /\ m \in Nat
  BY <1>2, <1>3, SeenCounts
<1>5. count \in b..m /\ m <= MaxDeposits
  BY <1>1, <1>2, <1>3, <1>4, Sizes, DepthAssumption, DepositAssumption DEF DepositInv
<1>6. CopyAt(trees[c], count) = ClientTree(count, b) /\ Seen(count, b)
  BY <1>2, <1>3, <1>5, CopyOfClient
<1>7. QED BY <1>2, <1>3, <1>6, RootOfClient, RestoredOfClient

\* The tree of every client has the root of the contract for the deposits it
\* has seen, however it was pruned and restored (get_root).
THEOREM PrunedRootsAgree == Spec => []RootsAgree
<1>1. QED BY TreesAreDetermined, InvRootsAgree, PTL

\* A snapshot is as good as the Eth1Data of the finalized block, in a list no
\* longer than the tree is deep (get_snapshot, calculate_root).
THEOREM SnapshotsAreEth1Data == Spec => []SnapshotIsEth1Data
<1>1. QED BY TreesAreDetermined, InvSnapshotIsEth1Data, PTL

\* Whatever was pruned, every deposit that is not finalized has a proof that
\* checks against the root (get_proof).
THEOREM UnfinalizedAreProvable == Spec => []UnfinalizedProvable
<1>1. QED BY TreesAreDetermined, InvUnfinalizedProvable, PTL

\* A copy from the snapshot that is extended to an earlier count has the root
\* the contract had then (from_snapshot, push_leaf).
THEOREM EarlierVersionsRestored == Spec => []EarlierVersions
<1>1. QED BY TreesAreDetermined, InvEarlierVersions, PTL
=============================================================================
