------------------------- MODULE SalaryPayoutProofs -------------------------
(***************************************************************************)
(* The theorem that payments stay within donations where nothing is minted   *)
(* once an oracle has finished.  A payment is a rounded product of shares     *)
(* and donations, made at one time of many, of balances that move between     *)
(* payments.  What makes the sum of all of them bounded is that a token that   *)
(* was redeemed counts for the account that redeemed it from then on.          *)
(***************************************************************************)
EXTENDS SalaryHoldingsProofs

-----------------------------------------------------------------------------
(* Rounding down. *)

\* A quotient is rounded down by less than one.
LEMMA FloorBounds ==
    ASSUME NEW x \in Nat, NEW k \in Nat, k # 0
    PROVE  /\ x \div k \in Nat
           /\ k * (x \div k) <= x
           /\ x < k * (x \div k) + k
OBVIOUS

\* A common factor may be cancelled.
LEMMA CancelFactor ==
    ASSUME NEW a \in Int, NEW b \in Int, NEW k \in Nat, k # 0, k * a <= k * b
    PROVE  a <= b
<1>1. SUFFICES ASSUME a > b PROVE FALSE
  OBVIOUS
<1>2. PICK e \in Nat : a = b + 1 + e
  <2>1. a - (b + 1) \in Nat /\ a = b + 1 + (a - (b + 1))
    BY <1>1
  <2>2. QED BY <2>1
<1>3. k * a = k * b + k + k * e /\ k * e \in Nat /\ k * b \in Int
  BY <1>2
<1>4. QED BY <1>3

\* A product grows with each of its factors.
LEMMA ProductGrows ==
    ASSUME NEW a \in Nat, NEW b \in Nat, NEW c \in Nat, NEW d \in Nat, a <= b, c <= d
    PROVE  a * c \in Nat /\ b * d \in Nat /\ a * c <= b * d
<1>1. PICK e \in Nat : b = a + e
  <2>1. b - a \in Nat /\ b = a + (b - a)
    OBVIOUS
  <2>2. QED BY <2>1
<1>2. PICK g \in Nat : d = c + g
  <2>1. d - c \in Nat /\ d = c + (d - c)
    OBVIOUS
  <2>2. QED BY <2>1
<1>3. b * d = a * c + a * g + e * c + e * g
  BY <1>1, <1>2
<1>4. a * c \in Nat /\ a * g \in Nat /\ e * c \in Nat /\ e * g \in Nat
  OBVIOUS
<1>5. QED BY <1>3, <1>4

\* And so does the product that is divided and rounded down.
LEMMA FloorGrows ==
    ASSUME NEW a \in Nat, NEW b \in Nat, NEW c \in Nat, NEW d \in Nat, a <= b, c <= d,
           NEW k \in Nat, k # 0
    PROVE  (a * c) \div k <= (b * d) \div k
<1> DEFINE p == a * c
           q == b * d
<1>1. p \in Nat /\ q \in Nat /\ p <= q
  BY ProductGrows
<1> HIDE DEF p, q
<1> DEFINE x == p \div k
           y == q \div k
<1>2. /\ x \in Nat /\ k * x <= p
      /\ y \in Nat /\ q < k * y + k
  BY <1>1, FloorBounds
<1> HIDE DEF x, y
<1>3. SUFFICES ASSUME x >= y + 1 PROVE FALSE
  BY <1>2 DEF x, y, p, q
<1>4. k * (y + 1) <= k * x
  BY <1>2, <1>3, ProductGrows
<1>5. k * (y + 1) = k * y + k /\ k * y \in Nat /\ k * x \in Nat
  BY <1>2
<1>6. QED BY <1>1, <1>2, <1>4, <1>5

\* Parts of m, each rounded down, are together no more than m when the parts
\* are together no more than the whole.
LEMMA PartsWithinWhole ==
    ASSUME NEW S, IsFiniteSet(S), NEW f, \A x \in S : f[x] \in Nat,
           NEW k \in Nat, k # 0, NEW m \in Nat, SumFunctionOnSet(f, S) <= k
    PROVE  /\ \A x \in S : (f[x] * m) \div k \in Nat
           /\ SumFunctionOnSet([x \in S |-> (f[x] * m) \div k], S) <= m
<1> DEFINE part == [x \in S |-> (f[x] * m) \div k]
           times == [x \in S |-> k * part[x]]
           more == [x \in S |-> m * f[x]]
<1>1. ASSUME NEW x \in S
      PROVE  part[x] \in Nat /\ times[x] \in Nat /\ more[x] \in Nat /\ times[x] <= more[x]
  <2> DEFINE p == f[x] * m
  <2>1. p \in Nat /\ more[x] = p
    OBVIOUS
  <2>2. part[x] = p \div k /\ times[x] = k * part[x]
    OBVIOUS
  <2> HIDE DEF p, part, times, more
  <2>3. p \div k \in Nat /\ k * (p \div k) <= p
    BY <2>1, FloorBounds
  <2>4. k * part[x] \in Nat
    BY <2>2, <2>3
  <2>5. QED BY <2>1, <2>2, <2>3, <2>4
<1>2. \A x \in S : times[x] = k * part[x] /\ more[x] = m * f[x]
  OBVIOUS
<1>3. \A x \in S : part[x] = (f[x] * m) \div k
  OBVIOUS
<1> HIDE DEF part, times, more
<1>4. SumFunctionOnSet(times, S) = k * SumFunctionOnSet(part, S)
  BY <1>1, <1>2, SumScaled
<1>5. SumFunctionOnSet(more, S) = m * SumFunctionOnSet(f, S)
  BY <1>1, <1>2, SumScaled
<1>6. SumFunctionOnSet(times, S) <= SumFunctionOnSet(more, S)
  BY <1>1, SumMonotone
<1>7. /\ SumFunctionOnSet(part, S) \in Nat
      /\ SumFunctionOnSet(f, S) \in Nat
  BY <1>1, SumIsNat
<1> DEFINE a == SumFunctionOnSet(part, S)
           b == SumFunctionOnSet(f, S)
<1>8. a \in Nat /\ b \in Nat /\ b <= k /\ k * a <= m * b
  BY <1>4, <1>5, <1>6, <1>7
<1> HIDE DEF a, b
<1>9. m * b <= m * k /\ m * b \in Nat /\ m * k \in Nat
  BY <1>8, ProductGrows
<1>10. m * k = k * m /\ k * a \in Nat
  BY <1>8
<1>11. k * a <= k * m
  BY <1>8, <1>9, <1>10
<1>12. a <= m
  BY <1>8, <1>11, CancelFactor
<1>13. QED BY <1>1, <1>3, <1>12 DEF a, part
-----------------------------------------------------------------------------
(* What a redeemed token counts for. *)

Conditions == {Condition(n) : n \in ConditionIds}

\* The part of FixedOne that a user's tokens of t are of the donations to an
\* oracle, when G[t][u] of them count for the user and they were redeemed.
Counted(u, t) == t \in Conditions /\ totals[t] # 0 /\ <<u, t>> \in userUsedRedeem

Weight(G, o, u, t) ==
    IF Counted(u, t) THEN FixedMul(Divu(G[t][u], totals[t]), RewardShare(o, t)) ELSE 0

WeightOf(G, o, u) == SumFunctionOnSet([t \in Tokens |-> Weight(G, o, u, t)], Tokens)

\* What users were paid for, in donations times parts.
Due(G, c, o) ==
    SumFunctionOnSet([u \in Users |-> lastFirstRound[PerOracle(c, o)][u] * WeightOf(G, o, u)], Users)

\* Of every first condition at least what a user holds counts for the user, and
\* no more than was minted for all.
Entitled(s, tot, G) ==
    /\ G \in [Tokens -> [Users -> Nat]]
    /\ \A n \in 1..s.maxConditionId : s.firstConditionInChain[n] = n =>
          /\ \A u \in Users : s.balances[Condition(n)][u] <= G[Condition(n)][u]
          /\ SumFunctionOnSet(G[Condition(n)], Users) <= tot[Condition(n)]

\* Payments are made from oracles that have finished, and are covered by what is due.
PaymentsDue(G) ==
    \A c \in Collaterals, o \in Oracles : paid[c][o] # 0 =>
        /\ oracleFinished[o]
        /\ payoutDenominators[o] # 0
        /\ FixedOne * paid[c][o] <= Due(G, c, o)

\* The shares and the weights are natural numbers once something was scored.
LEMMA WeightTyped ==
    ASSUME Inv, NEW o \in Oracles, payoutDenominators[o] # 0, NEW G \in [Tokens -> [Users -> Nat]]
    PROVE  /\ \A t \in Tokens : RewardShare(o, t) \in Nat
           /\ \A u \in Users, t \in Tokens : Weight(G, o, u, t) \in Nat
           /\ \A u \in Users : WeightOf(G, o, u) \in Nat
<1>1. FixedOne \in Nat /\ FixedOne # 0 /\ IsFiniteSet(Tokens)
  BY LockAssumption, TokensFinite DEF LockAssumption
<1>2. ASSUME NEW t \in Tokens
      PROVE  totals[t] \in Nat /\ RewardShare(o, t) \in Nat
  <2>1. payoutNumerators[o][t] \in Nat /\ payoutDenominators[o] \in Nat /\ totals[t] \in Nat
    BY DEF Inv, TypeOK, TokenTypeOK, BidTypeOK
  <2>2. QED BY <1>1, <2>1, DivNat DEF RewardShare, Divu
<1>3. ASSUME NEW u \in Users, NEW t \in Tokens PROVE Weight(G, o, u, t) \in Nat
  <2>1. CASE Counted(u, t)
    <3>1. G[t][u] \in Nat /\ totals[t] \in Nat /\ totals[t] # 0
      BY <1>2, <2>1 DEF Counted
    <3>2. Divu(G[t][u], totals[t]) \in Nat
      BY <1>1, <3>1, DivNat DEF Divu
    <3>3. FixedMul(Divu(G[t][u], totals[t]), RewardShare(o, t)) \in Nat
      BY <1>1, <1>2, <3>2, DivNat DEF FixedMul
    <3>4. QED BY <2>1, <3>3 DEF Weight
  <2>2. CASE ~Counted(u, t)
    BY <2>2 DEF Weight
  <2>3. QED BY <2>1, <2>2
<1>4. ASSUME NEW u \in Users PROVE WeightOf(G, o, u) \in Nat
  <2> DEFINE f == [t \in Tokens |-> Weight(G, o, u, t)]
  <2>1. \A t \in Tokens : f[t] \in Nat
    BY <1>3
  <2> HIDE DEF f
  <2>2. SumFunctionOnSet(f, Tokens) \in Nat
    BY <1>1, <2>1, SumIsNat
  <2>3. QED BY <2>2 DEF f, WeightOf
<1>5. QED BY <1>2, <1>3, <1>4

\* A token that has a supply is the first of its chain.
LEMMA MintedTokenIsFirst ==
    ASSUME Inv, NEW n \in ConditionIds, totals[Condition(n)] # 0
    PROVE  n \in 1..maxConditionId /\ firstConditionInChain[n] = n
BY DEF Inv, Chains, Blank, PaidUp, Ledger

\* The tokens of one kind that count for all users have a weight of no more than
\* the share of the token.
LEMMA TokenWithinShare ==
    ASSUME Inv, NEW G, Entitled(Ledger, totals, G), NEW o \in Oracles, payoutDenominators[o] # 0,
           NEW t \in Tokens
    PROVE  SumFunctionOnSet([u \in Users |-> Weight(G, o, u, t)], Users) <= RewardShare(o, t)
<1> DEFINE w == [u \in Users |-> Weight(G, o, u, t)]
           share == RewardShare(o, t)
           T == totals[t]
<1>1. /\ FixedOne \in Nat /\ FixedOne # 0 /\ IsFiniteSet(Users)
      /\ G \in [Tokens -> [Users -> Nat]]
  BY LockAssumption, FiniteAssumption DEF LockAssumption, FiniteAssumption, Entitled
<1>2. share \in Nat /\ \A u \in Users : w[u] \in Nat
  BY <1>1, WeightTyped
<1>3. CASE t \in Conditions /\ T # 0
  <2>1. PICK n \in ConditionIds : t = Condition(n)
    BY <1>3 DEF Conditions
  <2>2. n \in 1..maxConditionId /\ firstConditionInChain[n] = n
    BY <1>3, <2>1, MintedTokenIsFirst
  <2>3. SumFunctionOnSet(G[t], Users) <= T
    BY <2>1, <2>2 DEF Entitled, Ledger
  <2>4. T \in Nat /\ T # 0 /\ \A u \in Users : G[t][u] \in Nat
    BY <1>1, <1>3 DEF Inv, TypeOK, TokenTypeOK
  <2> DEFINE g == G[t]
             x == [u \in Users |-> (g[u] * FixedOne) \div T]
             y == [u \in Users |-> (x[u] * share) \div FixedOne]
  <2> HIDE DEF share, T
  <2>5. (\A u \in Users : x[u] \in Nat) /\ SumFunctionOnSet(x, Users) <= FixedOne
    <3> HIDE DEF g
    <3>1. \A u \in Users : g[u] \in Nat
      BY <2>4 DEF g
    <3>2. SumFunctionOnSet(g, Users) <= T
      BY <2>3 DEF g
    <3>3. QED BY <1>1, <2>4, <3>1, <3>2, PartsWithinWhole
  <2>6. (\A u \in Users : y[u] \in Nat) /\ SumFunctionOnSet(y, Users) <= share
    <3> HIDE DEF x
    <3>1. QED BY <1>1, <1>2, <2>5, PartsWithinWhole
  <2>7. \A u \in Users : w[u] = y[u] \/ w[u] = 0
    BY DEF Weight, FixedMul, Divu, share, T
  <2> HIDE DEF w, y
  <2>8. SumFunctionOnSet(w, Users) <= SumFunctionOnSet(y, Users)
    BY <1>1, <1>2, <2>6, <2>7, SumMonotone
  <2>9. SumFunctionOnSet(w, Users) \in Nat /\ SumFunctionOnSet(y, Users) \in Nat
    BY <1>1, <1>2, <2>6, SumIsNat
  <2>10. SumFunctionOnSet(w, Users) <= share
    BY <1>2, <2>6, <2>8, <2>9
  <2>11. QED BY <2>10 DEF w, share
<1>4. CASE ~(t \in Conditions /\ T # 0)
  <2>1. \A u \in Users : w[u] = 0
    BY <1>4 DEF Weight, Counted
  <2> HIDE DEF w, share
  <2>2. SumFunctionOnSet(w, Users) = 0
    BY <1>1, <2>1, SumZero
  <2>3. QED BY <1>2, <2>2 DEF w, share
<1>5. QED BY <1>3, <1>4

\* The shares of all tokens of an oracle are together no more than one.
LEMMA SharesWithinOne ==
    ASSUME Inv, DenominatorIsSum, NEW o \in Oracles, payoutDenominators[o] # 0
    PROVE  SumFunctionOnSet([t \in Tokens |-> RewardShare(o, t)], Tokens) <= FixedOne
<1> DEFINE score == payoutNumerators[o]
           sum == payoutDenominators[o]
<1>1. /\ FixedOne \in Nat /\ IsFiniteSet(Tokens) /\ sum \in Nat /\ sum # 0
      /\ \A t \in Tokens : score[t] \in Nat
  BY LockAssumption, TokensFinite DEF LockAssumption, Inv, TypeOK, BidTypeOK
<1>2. SumFunctionOnSet(score, Tokens) = sum
  <2>1. DOMAIN score = Tokens
    BY DEF Inv, TypeOK, BidTypeOK
  <2>2. QED BY <2>1 DEF DenominatorIsSum, SumFunction
<1> HIDE DEF score, sum
<1>3. SumFunctionOnSet([t \in Tokens |-> (score[t] * FixedOne) \div sum], Tokens) <= FixedOne
  BY <1>1, <1>2, PartsWithinWhole
<1>4. QED BY <1>3 DEF RewardShare, Divu, score, sum

\* So the weights of all users are together no more than one.
LEMMA WeightsWithinOne ==
    ASSUME Inv, DenominatorIsSum, NEW G, Entitled(Ledger, totals, G), NEW o \in Oracles,
           payoutDenominators[o] # 0
    PROVE  SumFunctionOnSet([u \in Users |-> WeightOf(G, o, u)], Users) <= FixedOne
<1> DEFINE f == [u \in Users |-> [t \in Tokens |-> Weight(G, o, u, t)]]
           g == [t \in Tokens |-> [u \in Users |-> Weight(G, o, u, t)]]
           row == [u \in Users |-> WeightOf(G, o, u)]
           column == [t \in Tokens |-> SumFunctionOnSet(g[t], Users)]
           share == [t \in Tokens |-> RewardShare(o, t)]
<1>1. /\ IsFiniteSet(Users) /\ IsFiniteSet(Tokens) /\ FixedOne \in Nat
      /\ G \in [Tokens -> [Users -> Nat]]
  BY FiniteAssumption, TokensFinite, LockAssumption DEF FiniteAssumption, LockAssumption, Entitled
<1>2. \A u \in Users, t \in Tokens : f[u][t] \in Int /\ g[t][u] = f[u][t] /\ g[t][u] \in Nat
  BY <1>1, WeightTyped
<1>3. \A u \in Users : row[u] = SumFunctionOnSet(f[u], Tokens)
  BY DEF WeightOf
<1>4. \A t \in Tokens : column[t] = SumFunctionOnSet(g[t], Users)
  OBVIOUS
<1>5. ASSUME NEW t \in Tokens
      PROVE  column[t] \in Nat /\ share[t] \in Nat /\ column[t] <= share[t]
  <2>1. SumFunctionOnSet(g[t], Users) <= RewardShare(o, t)
    BY TokenWithinShare
  <2>2. share[t] = RewardShare(o, t) /\ RewardShare(o, t) \in Nat
    BY <1>1, WeightTyped
  <2> HIDE DEF g, column, share
  <2>3. SumFunctionOnSet(g[t], Users) \in Nat
    BY <1>1, <1>2, SumIsNat
  <2>4. QED BY <1>4, <2>1, <2>2, <2>3
<1>6. SumFunctionOnSet(share, Tokens) <= FixedOne
  BY SharesWithinOne
<1> HIDE DEF f, g, row, column, share
<1>7. SumFunctionOnSet(row, Users) = SumFunctionOnSet(column, Tokens)
  <2>1. IsTransposed(f, g, Users, Tokens)
    BY <1>2 DEF IsTransposed
  <2>2. AreRowSums(row, f, Users, Tokens) /\ AreRowSums(column, g, Tokens, Users)
    BY <1>3, <1>4 DEF AreRowSums
  <2>3. QED BY <1>1, <2>1, <2>2, SumSwap
<1>8. SumFunctionOnSet(column, Tokens) <= SumFunctionOnSet(share, Tokens)
  BY <1>1, <1>5, SumMonotone
<1>9. SumFunctionOnSet(column, Tokens) \in Nat /\ SumFunctionOnSet(share, Tokens) \in Nat
  BY <1>1, <1>5, SumIsNat
<1>10. SumFunctionOnSet(row, Users) <= FixedOne
  BY <1>1, <1>6, <1>7, <1>8, <1>9
<1>11. QED BY <1>10 DEF row

\* What is due is within the donations, and so is what was paid.
LEMMA DueIsDonated ==
    ASSUME Inv, DenominatorIsSum, NEW G, Entitled(Ledger, totals, G), PaymentsDue(G)
    PROVE  PaidWithinDonations
<1>1. SUFFICES ASSUME NEW c \in Collaterals, NEW o \in Oracles
               PROVE  paid[c][o] <= totals[PerOracle(c, o)]
  BY DEF PaidWithinDonations
<1> DEFINE last == lastFirstRound[PerOracle(c, o)]
           D == totals[PerOracle(c, o)]
           weight == [u \in Users |-> WeightOf(G, o, u)]
           due == [u \in Users |-> last[u] * WeightOf(G, o, u)]
           more == [u \in Users |-> D * weight[u]]
<1>2. /\ D \in Nat /\ paid[c][o] \in Nat
      /\ \A u \in Users : last[u] \in Nat /\ last[u] <= D
  BY TokenKinds DEF Inv, TypeOK, TokenTypeOK, LockTypeOK, LastWithinDonations
<1>3. CASE paid[c][o] = 0
  BY <1>2, <1>3
<1>4. CASE paid[c][o] # 0
  <2>1. payoutDenominators[o] # 0 /\ FixedOne * paid[c][o] <= Due(G, c, o)
    BY <1>4 DEF PaymentsDue
  <2>2. /\ IsFiniteSet(Users) /\ FixedOne \in Nat /\ FixedOne # 0
        /\ G \in [Tokens -> [Users -> Nat]]
    BY FiniteAssumption, LockAssumption DEF FiniteAssumption, LockAssumption, Entitled
  <2>3. ASSUME NEW u \in Users
        PROVE  weight[u] \in Nat /\ due[u] \in Nat /\ more[u] \in Nat /\ due[u] <= more[u]
    <3>1. weight[u] = WeightOf(G, o, u) /\ WeightOf(G, o, u) \in Nat
      BY <2>1, <2>2, WeightTyped
    <3>2. due[u] = last[u] * weight[u] /\ more[u] = D * weight[u]
      BY <3>1
    <3> HIDE DEF weight, due, more, last, D
    <3>3. QED BY <1>2, <3>1, <3>2, ProductGrows
  <2>4. SumFunctionOnSet(weight, Users) <= FixedOne
    BY <2>1, WeightsWithinOne
  <2>5. Due(G, c, o) = SumFunctionOnSet(due, Users)
    BY DEF Due
  <2>6. \A u \in Users : more[u] = D * weight[u]
    OBVIOUS
  <2> HIDE DEF weight, due, more, last, D
  <2>7. SumFunctionOnSet(due, Users) <= SumFunctionOnSet(more, Users)
    BY <2>2, <2>3, SumMonotone
  <2>8. SumFunctionOnSet(more, Users) = D * SumFunctionOnSet(weight, Users)
    BY <1>2, <2>2, <2>3, <2>6, SumScaled
  <2>9. /\ SumFunctionOnSet(due, Users) \in Nat
        /\ SumFunctionOnSet(weight, Users) \in Nat
    BY <2>2, <2>3, SumIsNat
  <2> DEFINE a == SumFunctionOnSet(due, Users)
             b == SumFunctionOnSet(weight, Users)
  <2>10. a \in Nat /\ b \in Nat /\ b <= FixedOne /\ a <= D * b /\ FixedOne * paid[c][o] <= a
    BY <2>1, <2>4, <2>5, <2>7, <2>8, <2>9
  <2> HIDE DEF a, b
  <2>11. D * b <= D * FixedOne /\ D * b \in Nat /\ D * FixedOne \in Nat
    BY <1>2, <2>2, <2>10, ProductGrows
  <2>12. D * FixedOne = FixedOne * D /\ FixedOne * paid[c][o] \in Nat
    BY <1>2, <2>2
  <2>13. FixedOne * paid[c][o] <= FixedOne * D
    BY <2>10, <2>11, <2>12
  <2>14. paid[c][o] <= D
    BY <1>2, <2>2, <2>13, CancelFactor
  <2>15. QED BY <2>14 DEF D
<1>5. QED BY <1>3, <1>4
-----------------------------------------------------------------------------
(* What a change of the ledger does to what counts for users. *)

\* Nothing counts for less, but the tokens t of the account that sends them.
LessOnlyAt(G, H, from, Sent) ==
    \A u \in Users, x \in Tokens : ~(u = from /\ x \in Sent) => G[x][u] <= H[x][u]

\* A condition that counts for users is a token.
LEMMA CreatedTyped ==
    ASSUME NEW s \in LedgerType
    PROVE  /\ 1..s.maxConditionId \subseteq ConditionIds
           /\ \A n \in 1..s.maxConditionId : Condition(n) \in Tokens
           /\ s.maxConditionId + 1 \notin 1..s.maxConditionId
           /\ 1..(s.maxConditionId + 1) = 1..s.maxConditionId \cup {s.maxConditionId + 1}
<1>1. s.maxConditionId \in 0..MaxCondition /\ MaxCondition \in Nat
  BY BoundAssumption DEF BoundAssumption, ConditionIds, LedgerType
<1>2. QED BY <1>1, TokenKinds DEF ConditionIds

\* A transfer moves what counts along with the token, or loses it where the
\* receiver is no user.
LEMMA MoveEntitles ==
    ASSUME NEW s \in LedgerType, NEW tot \in [Tokens -> Nat], NEW G, Entitled(s, tot, G),
           NEW t \in Tokens, NEW from \in Users, NEW to \in Addresses, NEW v \in Nat,
           CanMove(s, t, from, v)
    PROVE  \E H : Entitled(Move(s, t, from, to, v), tot, H) /\ LessOnlyAt(G, H, from, {t})
<1> DEFINE r == Move(s, t, from, to, v)
<1>1. /\ r.maxConditionId = s.maxConditionId
      /\ r.firstConditionInChain = s.firstConditionInChain
  <2>1. from \in Addresses
    BY DEF Addresses
  <2>2. SameChains(s, r)
    BY <2>1, MoveTyped
  <2>3. QED BY <2>2 DEF SameChains
<1>2. /\ from \in Addresses /\ Users \subseteq Addresses /\ IsFiniteSet(Users)
      /\ s.balances \in [Tokens -> [Addresses -> Nat]] /\ s.balances[t][from] >= v
      /\ G \in [Tokens -> [Users -> Nat]]
  BY FiniteAssumption DEF FiniteAssumption, Addresses, LedgerType, CanMove, Entitled
<1>3. ASSUME NEW x \in Tokens, NEW a \in Addresses
      PROVE  r.balances[x][a] =
               IF x = t /\ from # to /\ a = from THEN s.balances[x][a] - v
               ELSE IF x = t /\ from # to /\ a = to THEN s.balances[x][a] + v
               ELSE s.balances[x][a]
  BY <1>2, MoveBalances
<1> HIDE DEF r
<1>4. CASE \A n \in 1..s.maxConditionId : s.firstConditionInChain[n] = n => t # Condition(n)
  <2>1. ASSUME NEW n \in 1..s.maxConditionId, s.firstConditionInChain[n] = n, NEW u \in Users
        PROVE  r.balances[Condition(n)][u] = s.balances[Condition(n)][u]
    BY <1>2, <1>3, <1>4, <2>1, CreatedTyped
  <2>2. Entitled(r, tot, G)
    BY <1>1, <2>1 DEF Entitled
  <2>3. LessOnlyAt(G, G, from, {t})
    BY <1>2 DEF LessOnlyAt
  <2>4. QED BY <2>2, <2>3 DEF r
<1>5. ASSUME NEW m \in 1..s.maxConditionId, s.firstConditionInChain[m] = m, t = Condition(m)
      PROVE  \E H : Entitled(r, tot, H) /\ LessOnlyAt(G, H, from, {t})
  <2> DEFINE g == G[t]
             e == [g EXCEPT ![from] = g[from] - v]
             d == IF to \in Users THEN [e EXCEPT ![to] = e[to] + v] ELSE e
             H == [G EXCEPT ![t] = d]
  <2>1. /\ g \in [Users -> Nat] /\ g[from] >= v
        /\ \A u \in Users : s.balances[t][u] <= g[u]
        /\ SumFunctionOnSet(g, Users) <= tot[t]
    <3>1. \A u \in Users : s.balances[t][u] <= g[u]
      BY <1>5 DEF Entitled
    <3>2. g \in [Users -> Nat] /\ SumFunctionOnSet(g, Users) <= tot[t]
      BY <1>2, <1>5 DEF Entitled
    <3>3. s.balances[t][from] \in Nat
      BY <1>2
    <3> HIDE DEF g
    <3>4. QED BY <1>2, <3>1, <3>2, <3>3
  <2> HIDE DEF g
  <2>2. e \in [Users -> Nat]
    <3>1. g[from] - v \in Nat
      BY <2>1
    <3>2. QED BY <2>1, <3>1
  <2>3. d \in [Users -> Nat]
    <3>1. CASE to \in Users
      <4> HIDE DEF e
      <4>1. e[to] + v \in Nat
        BY <2>2, <3>1
      <4>2. QED BY <2>2, <3>1, <4>1
    <3>2. CASE to \notin Users
      BY <2>2, <3>2
    <3>3. QED BY <3>1, <3>2
  <2>4. \A u \in Users :
           d[u] = IF from # to /\ u = from THEN g[u] - v
                  ELSE IF from # to /\ u = to THEN g[u] + v
                  ELSE g[u]
    <3>1. CASE to \in Users
      BY <2>1, <3>1
    <3>2. CASE to \notin Users
      BY <2>1, <3>2
    <3>3. QED BY <3>1, <3>2
  <2>5. SumFunctionOnSet(d, Users) <= SumFunctionOnSet(g, Users)
    <3>1. \A u \in Users : g[u] \in Int /\ e[u] \in Int /\ d[u] \in Int
      BY <2>1, <2>2, <2>3
    <3>2. \A u \in Users \ {from} : e[u] = g[u]
      BY <2>1
    <3>3. e[from] = g[from] - v
      BY <2>1
    <3>4. \A u \in Users \ {to} : d[u] = e[u]
      BY <2>2
    <3>5. to \in Users => d[to] = e[to] + v
      BY <2>2
    <3> HIDE DEF e, d
    <3>6. SumFunctionOnSet(e, Users) = SumFunctionOnSet(g, Users) - g[from] + e[from]
      BY <1>2, <3>1, <3>2, SumUpdate
    <3>7. /\ SumFunctionOnSet(g, Users) \in Int /\ SumFunctionOnSet(e, Users) \in Int
          /\ SumFunctionOnSet(d, Users) \in Int
      BY <1>2, <3>1, SumIsInt
    <3>8. CASE to \in Users
      <4>1. SumFunctionOnSet(d, Users) = SumFunctionOnSet(e, Users) - e[to] + d[to]
        <5>1. \A u \in Users : e[u] \in Int /\ d[u] \in Int
          BY <3>1
        <5>2. to \in Users /\ IsFiniteSet(Users)
          BY <1>2, <3>8
        <5>3. QED BY ONLY <3>4, <5>1, <5>2, SumUpdate
      <4>2. QED BY <3>1, <3>3, <3>5, <3>6, <3>7, <3>8, <4>1
    <3>9. CASE to \notin Users
      <4>1. SumFunctionOnSet(d, Users) = SumFunctionOnSet(e, Users)
        BY <1>2, <3>1, <3>4, <3>9, SumEqual
      <4>2. QED BY <3>1, <3>3, <3>6, <3>7, <4>1
    <3>10. QED BY <3>8, <3>9
  <2> HIDE DEF d, e
  <2>6. /\ H \in [Tokens -> [Users -> Nat]]
        /\ H[t] = d /\ \A x \in Tokens \ {t} : H[x] = G[x]
    BY <1>2, <2>3
  <2> HIDE DEF H
  <2>7. SumFunctionOnSet(d, Users) <= tot[t]
    <3>1. /\ SumFunctionOnSet(d, Users) \in Int /\ SumFunctionOnSet(g, Users) \in Int
          /\ tot[t] \in Nat
      BY <1>2, <2>1, <2>3, SumIsInt
    <3>2. QED BY <2>1, <2>5, <3>1
  <2>8. ASSUME NEW u \in Users PROVE r.balances[t][u] <= d[u]
    <3>1. /\ s.balances[t][u] \in Nat /\ g[u] \in Nat /\ s.balances[t][u] <= g[u]
          /\ u \in Addresses
      BY <1>2, <2>1
    <3>2. r.balances[t][u] =
            IF from # to /\ u = from THEN s.balances[t][u] - v
            ELSE IF from # to /\ u = to THEN s.balances[t][u] + v
            ELSE s.balances[t][u]
      BY <1>3, <3>1
    <3>3. QED BY <2>4, <3>1, <3>2
  <2>9. ASSUME NEW n \in 1..s.maxConditionId, s.firstConditionInChain[n] = n
        PROVE  /\ \A u \in Users : r.balances[Condition(n)][u] <= H[Condition(n)][u]
               /\ SumFunctionOnSet(H[Condition(n)], Users) <= tot[Condition(n)]
    <3>1. CASE Condition(n) = t
      BY <2>6, <2>7, <2>8, <3>1
    <3>2. CASE Condition(n) # t
      <4>1. Condition(n) \in Tokens /\ H[Condition(n)] = G[Condition(n)]
        BY <2>6, <3>2, CreatedTyped
      <4>2. \A u \in Users : r.balances[Condition(n)][u] = s.balances[Condition(n)][u]
        BY <1>2, <1>3, <3>2, <4>1
      <4>3. QED BY <2>9, <4>1, <4>2 DEF Entitled
    <3>3. QED BY <3>1, <3>2
  <2>10. Entitled(r, tot, H)
    BY <1>1, <2>6, <2>9 DEF Entitled
  <2>11. ASSUME NEW u \in Users, NEW x \in Tokens, ~(u = from /\ x \in {t})
         PROVE  G[x][u] <= H[x][u]
    <3>1. CASE x = t
      <4>1. u # from /\ g[u] \in Nat
        BY <2>1, <2>11, <3>1
      <4>2. g[u] <= d[u]
        BY <2>4, <4>1
      <4>3. QED BY <2>6, <3>1, <4>2 DEF g
    <3>2. CASE x # t
      BY <1>2, <2>6, <3>2
    <3>3. QED BY <3>1, <3>2
  <2>12. QED BY <2>10, <2>11 DEF LessOnlyAt
<1>6. QED BY <1>4, <1>5 DEF r

\* A recreation moves tokens away that count as before.
LEMMA RecreateEntitles ==
    ASSUME NEW s \in LedgerType, NEW tot \in [Tokens -> Nat], NEW G, Entitled(s, tot, G),
           NEW n \in ConditionIds, now \in Nat, Chains(s, tot, now), CanRecreate(s, n)
    PROVE  Entitled(Recreate(s, n), tot, G)
<1> DEFINE r == Recreate(s, n)
           new == s.maxConditionId + 1
<1>1. r \in LedgerType /\ Recreated(s, r, n)
  BY RecreateAdds
<1>2. ASSUME NEW x \in Tokens, x # Condition(new) PROVE NoGain(s.balances, r.balances, x)
  BY <1>2, RecreateNoGain
<1>3. n \in 1..s.maxConditionId
  BY FirstWasCreated DEF Chains, CanRecreate
<1> HIDE DEF r
<1>4. /\ new \in ConditionIds /\ r.maxConditionId = new
      /\ r.firstConditionInChain = [s.firstConditionInChain EXCEPT ![new] = n]
  BY <1>1 DEF Recreated, OneMore
<1>5. /\ 1..r.maxConditionId = 1..s.maxConditionId \cup {new} /\ new \notin 1..s.maxConditionId
      /\ 1..s.maxConditionId \subseteq ConditionIds
      /\ \A m \in 1..s.maxConditionId : Condition(m) \in Tokens
  BY <1>4, CreatedTyped
<1>6. /\ s.firstConditionInChain \in [ConditionIds -> ConditionIds]
      /\ Users \subseteq Addresses
      /\ s.balances \in [Tokens -> [Addresses -> Nat]]
      /\ r.balances \in [Tokens -> [Addresses -> Nat]]
  BY <1>1 DEF LedgerType, Addresses
<1> HIDE DEF new
<1>7. ASSUME NEW m \in 1..r.maxConditionId, r.firstConditionInChain[m] = m
      PROVE  m \in 1..s.maxConditionId /\ s.firstConditionInChain[m] = m /\ m # new
  BY <1>3, <1>4, <1>5, <1>6, <1>7
<1>8. ASSUME NEW m \in 1..r.maxConditionId, r.firstConditionInChain[m] = m
      PROVE  /\ \A u \in Users : r.balances[Condition(m)][u] <= G[Condition(m)][u]
             /\ SumFunctionOnSet(G[Condition(m)], Users) <= tot[Condition(m)]
  <2>1. m \in 1..s.maxConditionId /\ s.firstConditionInChain[m] = m /\ m # new
    BY <1>7, <1>8
  <2>2. Condition(m) \in Tokens /\ Condition(m) # Condition(new)
    BY <1>5, <2>1 DEF Condition
  <2>3. NoGain(s.balances, r.balances, Condition(m))
    BY <1>2, <2>2
  <2>4. /\ \A u \in Users : s.balances[Condition(m)][u] <= G[Condition(m)][u]
        /\ SumFunctionOnSet(G[Condition(m)], Users) <= tot[Condition(m)]
    BY <2>1 DEF Entitled
  <2>5. ASSUME NEW u \in Users PROVE r.balances[Condition(m)][u] <= G[Condition(m)][u]
    <3> DEFINE x == Condition(m)
    <3>1. r.balances[x][u] \in Nat /\ s.balances[x][u] \in Nat /\ G[x][u] \in Nat
      BY <1>6, <2>2 DEF Entitled
    <3>2. r.balances[x][u] <= s.balances[x][u] /\ s.balances[x][u] <= G[x][u]
      BY <1>6, <2>3, <2>4 DEF NoGain
    <3> HIDE DEF x
    <3>3. r.balances[x][u] <= G[x][u]
      BY <3>1, <3>2
    <3>4. QED BY <3>3 DEF x
  <2>6. QED BY <2>4, <2>5
<1>9. Entitled(r, tot, G)
  BY <1>8 DEF Entitled
<1>10. QED BY <1>9 DEF r

\* A transfer, whether it recreates or not.
LEMMA TransferEntitles ==
    ASSUME NEW s \in LedgerType, NEW tot \in [Tokens -> Nat], NEW G, Entitled(s, tot, G),
           NEW t \in Tokens, NEW from \in Users, NEW to \in Addresses, NEW v \in Nat, NEW sender,
           now \in Nat, Chains(s, tot, now), CanTransfer(s, sender, t, from, v)
    PROVE  \E H : Entitled(Transfer(s, sender, t, from, to, v), tot, H) /\ LessOnlyAt(G, H, from, {t})
<1> DEFINE moved == Move(s, t, from, to, v)
<1>1. moved \in LedgerType /\ SameChains(s, moved)
  BY MoveTyped DEF CanTransfer, Addresses
<1>2. PICK H : Entitled(moved, tot, H) /\ LessOnlyAt(G, H, from, {t})
  BY MoveEntitles DEF CanTransfer
<1> HIDE DEF moved
<1>3. CASE ~Recreates(s, sender, t)
  BY <1>2, <1>3 DEF Transfer, moved
<1>4. CASE Recreates(s, sender, t)
  <2>1. PICK n \in ConditionIds : t = Condition(n)
    BY <1>4 DEF Recreates
  <2>2. t[2] = n
    BY <2>1 DEF Condition
  <2>3. CanRecreate(s, n)
    BY <1>4, <2>2 DEF CanTransfer
  <2>4. CanRecreate(moved, n)
    BY <1>1, <2>3 DEF CanRecreate, EnsureFirst, IsFirstInChain, CanCreateCondition, SameChains
  <2>5. Chains(moved, tot, now)
    BY <1>1, SameChainsKept
  <2>6. Entitled(Recreate(moved, n), tot, H)
    BY <1>1, <1>2, <2>4, <2>5, RecreateEntitles
  <2>7. QED BY <1>2, <1>4, <2>2, <2>6 DEF Transfer, moved
<1>5. QED BY <1>3, <1>4
-----------------------------------------------------------------------------
(* What a step does to what is due. *)

\* What a token counts for grows with the number that counts, while the supply
\* and the shares stay: redeeming adds to it, and nothing takes from it.
LEMMA WeightGrows ==
    ASSUME Inv, NEW G \in [Tokens -> [Users -> Nat]], NEW H \in [Tokens -> [Users -> Nat]],
           NEW o \in Oracles, payoutDenominators[o] # 0,
           payoutNumerators'[o] = payoutNumerators[o],
           payoutDenominators'[o] = payoutDenominators[o],
           \A t \in Conditions : totals'[t] = totals[t],
           userUsedRedeem \subseteq userUsedRedeem',
           NEW u \in Users, \A t \in Tokens : Counted(u, t) => G[t][u] <= H[t][u]
    PROVE  /\ \A t \in Tokens : Weight(H, o, u, t)' \in Nat
           /\ WeightOf(G, o, u) \in Nat /\ WeightOf(H, o, u)' \in Nat
           /\ WeightOf(G, o, u) <= WeightOf(H, o, u)'
<1> DEFINE g == [t \in Tokens |-> Weight(G, o, u, t)]
           h == [t \in Tokens |-> Weight(H, o, u, t)']
<1>1. FixedOne \in Nat /\ FixedOne # 0 /\ IsFiniteSet(Tokens)
  BY LockAssumption, TokensFinite DEF LockAssumption
<1>2. ASSUME NEW t \in Tokens
      PROVE  /\ RewardShare(o, t)' = RewardShare(o, t) /\ RewardShare(o, t) \in Nat
             /\ totals[t] \in Nat
    BY WeightTyped DEF RewardShare, Inv, TypeOK, TokenTypeOK
<1>3. ASSUME NEW t \in Tokens
      PROVE  g[t] \in Nat /\ h[t] \in Nat /\ g[t] <= h[t]
  <2> DEFINE T == totals[t]
             share == RewardShare(o, t)
             x == Divu(G[t][u], T)
             y == Divu(H[t][u], T)
  <2>1. g[t] = Weight(G, o, u, t) /\ h[t] = Weight(H, o, u, t)' /\ g[t] \in Nat
    BY WeightTyped
  <2>2. CASE Counted(u, t)'
    <3>1. t \in Conditions /\ totals'[t] = T /\ T \in Nat /\ T # 0
      BY <1>2, <2>2 DEF Counted
    <3>2. h[t] = FixedMul(y, share)
      BY <1>2, <2>2, <3>1 DEF Weight
    <3>3. y \in Nat /\ share \in Nat
      BY <1>1, <1>2, <3>1, DivNat DEF Divu
    <3>4. FixedMul(y, share) \in Nat
      <4> HIDE DEF y, share
      <4>1. QED BY <1>1, <3>3, DivNat DEF FixedMul
    <3>5. CASE Counted(u, t)
      <4>1. G[t][u] <= H[t][u] /\ G[t][u] \in Nat /\ H[t][u] \in Nat
        BY <3>5
      <4>2. x \in Nat /\ x <= y
        <5>1. x = (G[t][u] * FixedOne) \div T /\ y = (H[t][u] * FixedOne) \div T
          BY DEF Divu
        <5> DEFINE a == G[t][u]
                   b == H[t][u]
        <5>2. a \in Nat /\ b \in Nat /\ a <= b
          BY <4>1
        <5>3. x = (a * FixedOne) \div T /\ y = (b * FixedOne) \div T
          BY <5>1
        <5> HIDE DEF a, b, x, y, T
        <5>4. (a * FixedOne) \div T \in Nat
          BY <1>1, <3>1, <5>2, DivNat
        <5>5. FixedOne <= FixedOne
          BY <1>1
        <5>6. (a * FixedOne) \div T <= (b * FixedOne) \div T
          BY ONLY <1>1, <3>1, <5>2, <5>5, FloorGrows
        <5>7. QED BY <5>3, <5>4, <5>6
      <4>3. g[t] = FixedMul(x, share)
        BY <2>1, <3>5 DEF Weight
      <4> HIDE DEF x, y, share, g, h
      <4>4. FixedMul(x, share) <= FixedMul(y, share)
        <5>1. share <= share
          BY <3>3
        <5>2. (x * share) \div FixedOne <= (y * share) \div FixedOne
          BY ONLY <1>1, <3>3, <4>2, <5>1, FloorGrows
        <5>3. QED BY <5>2 DEF FixedMul
      <4>5. QED BY <2>1, <3>2, <3>4, <4>3, <4>4
    <3>6. CASE ~Counted(u, t)
      <4>1. g[t] = 0
        BY <2>1, <3>6 DEF Weight
      <4> HIDE DEF y, share, g, h
      <4>2. QED BY <3>2, <3>4, <4>1
    <3>7. QED BY <3>5, <3>6
  <2>3. CASE ~Counted(u, t)'
    <3>1. ~Counted(u, t)
      BY <2>3 DEF Counted
    <3>2. g[t] = 0 /\ h[t] = 0
      BY <2>1, <2>3, <3>1 DEF Weight
    <3>3. QED BY <3>2
  <2>4. QED BY <2>2, <2>3
<1>4. WeightOf(G, o, u) = SumFunctionOnSet(g, Tokens) /\ WeightOf(H, o, u)' = SumFunctionOnSet(h, Tokens)
  BY DEF WeightOf
<1>5. \A t \in Tokens : h[t] = Weight(H, o, u, t)'
  OBVIOUS
<1> HIDE DEF g, h
<1>6. SumFunctionOnSet(g, Tokens) <= SumFunctionOnSet(h, Tokens)
  BY <1>1, <1>3, SumMonotone
<1>7. SumFunctionOnSet(g, Tokens) \in Nat /\ SumFunctionOnSet(h, Tokens) \in Nat
  BY <1>1, <1>3, SumIsNat
<1>8. QED BY <1>3, <1>4, <1>5, <1>6, <1>7

\* So what is due grows, when nobody's last payment is forgotten.
LEMMA DueGrows ==
    ASSUME Inv, NEW G \in [Tokens -> [Users -> Nat]], NEW H \in [Tokens -> [Users -> Nat]],
           NEW c \in Collaterals, NEW o \in Oracles, payoutDenominators[o] # 0,
           payoutNumerators'[o] = payoutNumerators[o],
           payoutDenominators'[o] = payoutDenominators[o],
           \A t \in Conditions : totals'[t] = totals[t],
           userUsedRedeem \subseteq userUsedRedeem',
           \A u \in Users, t \in Tokens : Counted(u, t) => G[t][u] <= H[t][u],
           \A u \in Users : /\ lastFirstRound'[PerOracle(c, o)][u] \in Nat
                            /\ lastFirstRound[PerOracle(c, o)][u] <= lastFirstRound'[PerOracle(c, o)][u]
    PROVE  /\ Due(G, c, o) \in Nat /\ Due(H, c, o)' \in Nat
           /\ Due(G, c, o) <= Due(H, c, o)'
<1> DEFINE last == lastFirstRound[PerOracle(c, o)]
           later == lastFirstRound'[PerOracle(c, o)]
           g == [u \in Users |-> last[u] * WeightOf(G, o, u)]
           h == [u \in Users |-> later[u] * WeightOf(H, o, u)']
<1>1. IsFiniteSet(Users)
  BY FiniteAssumption DEF FiniteAssumption
<1>2. ASSUME NEW u \in Users PROVE g[u] \in Nat /\ h[u] \in Nat /\ g[u] <= h[u]
  <2> DEFINE v == WeightOf(G, o, u)
             w == WeightOf(H, o, u)'
  <2>1. v \in Nat /\ w \in Nat /\ v <= w
    BY WeightGrows
  <2>2. last[u] \in Nat /\ later[u] \in Nat /\ last[u] <= later[u]
    BY TokenKinds DEF Inv, TypeOK, LockTypeOK
  <2>3. g[u] = last[u] * v /\ h[u] = later[u] * w
    OBVIOUS
  <2> HIDE DEF v, w, g, h
  <2> DEFINE a == last[u]
             b == later[u]
  <2>4. a \in Nat /\ b \in Nat /\ a <= b /\ g[u] = a * v /\ h[u] = b * w
    BY <2>2, <2>3
  <2> HIDE DEF a, b
  <2>5. a * v \in Nat /\ b * w \in Nat /\ a * v <= b * w
    BY ONLY <2>1, <2>4, ProductGrows
  <2>6. QED BY <2>4, <2>5
<1>3. Due(G, c, o) = SumFunctionOnSet(g, Users) /\ Due(H, c, o)' = SumFunctionOnSet(h, Users)
  BY DEF Due
<1> HIDE DEF g, h
<1>4. SumFunctionOnSet(g, Users) <= SumFunctionOnSet(h, Users)
  BY <1>1, <1>2, SumMonotone
<1>5. SumFunctionOnSet(g, Users) \in Nat /\ SumFunctionOnSet(h, Users) \in Nat
  BY <1>1, <1>2, SumIsNat
<1>6. QED BY <1>3, <1>4, <1>5

\* A call that pays nothing keeps the payments covered, when what counts for the
\* redeemed tokens does not shrink.
LEMMA QuietPayments ==
    ASSUME Inv, Next, NoLateMint, UNCHANGED <<paid, lastFirstRound, userUsedRedeem>>,
           NEW G \in [Tokens -> [Users -> Nat]], NEW H \in [Tokens -> [Users -> Nat]],
           \A u \in Users, t \in Tokens : Counted(u, t) => G[t][u] <= H[t][u],
           PaymentsDue(G)
    PROVE  PaymentsDue(H)'
<1>1. SUFFICES ASSUME NEW c \in Collaterals, NEW o \in Oracles, paid[c][o] # 0
               PROVE  /\ oracleFinished'[o]
                      /\ payoutDenominators'[o] # 0
                      /\ FixedOne * paid[c][o] <= Due(H, c, o)'
  BY DEF PaymentsDue
<1>2. /\ oracleFinished[o] /\ payoutDenominators[o] # 0
      /\ FixedOne * paid[c][o] <= Due(G, c, o)
  BY <1>1 DEF PaymentsDue
<1>3. /\ oracleFinished'[o]
      /\ payoutNumerators'[o] = payoutNumerators[o]
      /\ payoutDenominators'[o] = payoutDenominators[o]
  BY <1>2, StepFreezes
<1>4. \A t \in Conditions : totals'[t] = totals[t]
  BY <1>2 DEF NoLateMint, Conditions
<1>5. \A u \in Users : /\ lastFirstRound'[PerOracle(c, o)][u] \in Nat
                       /\ lastFirstRound[PerOracle(c, o)][u] <= lastFirstRound'[PerOracle(c, o)][u]
  BY TokenKinds DEF Inv, TypeOK, LockTypeOK
<1>6. /\ Due(G, c, o) \in Nat /\ Due(H, c, o)' \in Nat
      /\ Due(G, c, o) <= Due(H, c, o)'
  BY <1>2, <1>3, <1>4, <1>5, DueGrows
<1>7. FixedOne * paid[c][o] \in Nat
  BY LockAssumption DEF LockAssumption, Inv, TypeOK, LockTypeOK
<1>8. QED BY <1>2, <1>3, <1>6, <1>7
-----------------------------------------------------------------------------
(* What a payment does. *)

\* Nothing is ever recorded of the second round, whose payments need a supply
\* that only they would record.
FirstRoundOnly == \A o \in Oracles : usersWithdrewInFirstRound[o] = 0

\* Only conditions have scores.
ConditionsScored == \A o \in Oracles, t \in Tokens \ Conditions : payoutNumerators[o][t] = 0

\* No score gives no share.
LEMMA ZeroShare ==
    ASSUME NEW k \in Nat, NEW m \in Nat, m # 0
    PROVE  (0 * k) \div m = 0
<1>1. 0 * k = 0 /\ 0 \div m = 0
  OBVIOUS
<1>2. QED BY <1>1

\* What is owed to a user is covered by the weight that the redeemed tokens have
\* afterwards, of the donations that the user was not paid for before.
LEMMA OwingCovered ==
    ASSUME Inv, ConditionsScored, NEW G, Entitled(Ledger, totals, G), NEW sender \in Users,
           NEW c \in Collaterals, NEW o \in Oracles, NEW t \in Tokens, payoutDenominators[o] # 0,
           IsInFirstRound(o), totals[t] # 0, <<sender, t>> \in userUsedRedeem',
           UNCHANGED <<totals, payoutNumerators, payoutDenominators>>
    PROVE  LET fresh == totals[PerOracle(c, o)] - lastFirstRound[PerOracle(c, o)][sender]
           IN  FixedOne * Owing(c, o, t, sender, RewardShare(o, t)) <= fresh * Weight(G, o, sender, t)'
<1> DEFINE share == RewardShare(o, t)
           T == totals[t]
           held == balances[t][sender]
           x == Divu(held, T)
           q == FixedMul(x, share)
           fresh == totals[PerOracle(c, o)] - lastFirstRound[PerOracle(c, o)][sender]
           w == Weight(G, o, sender, t)'
<1>1. /\ FixedOne \in Nat /\ FixedOne # 0 /\ FixedOne <= FixedOne
      /\ G \in [Tokens -> [Users -> Nat]] /\ T \in Nat /\ T # 0
      /\ held \in Nat /\ share \in Nat /\ share <= share
  <2>1. FixedOne \in Nat /\ FixedOne # 0 /\ G \in [Tokens -> [Users -> Nat]]
    BY LockAssumption DEF LockAssumption, Entitled
  <2>2. T \in Nat /\ T # 0 /\ held \in Nat
    BY DEF Inv, TypeOK, TokenTypeOK, Addresses
  <2>3. share \in Nat
    BY <2>1, WeightTyped
  <2> HIDE DEF share, T, held
  <2>4. QED BY <2>1, <2>2, <2>3
<1>2. fresh \in Nat
  <2>1. /\ totals[PerOracle(c, o)] \in Nat /\ lastFirstRound[PerOracle(c, o)][sender] \in Nat
        /\ lastFirstRound[PerOracle(c, o)][sender] <= totals[PerOracle(c, o)]
    BY TokenKinds DEF Inv, TypeOK, TokenTypeOK, LockTypeOK, LastWithinDonations
  <2>2. QED BY <2>1
<1>3. Owing(c, o, t, sender, share) = (q * fresh) \div FixedOne
  BY DEF Owing, SupplyOf, NewDividends, FixedMul
<1>4. x = (held * FixedOne) \div T /\ x \in Nat
  BY <1>1, DivNat DEF Divu
<1>5. q = (x * share) \div FixedOne /\ q \in Nat
  <2> HIDE DEF x, share
  <2>1. QED BY <1>1, <1>4, DivNat DEF FixedMul
<1>6. q \in Nat /\ w \in Nat /\ q <= w
  <2>1. CASE t \in Conditions
    <3> DEFINE entitled == G[t][sender]
               y == Divu(entitled, T)
    <3>1. PICK n \in ConditionIds : t = Condition(n)
      BY <2>1 DEF Conditions
    <3>2. n \in 1..maxConditionId /\ firstConditionInChain[n] = n
      BY <3>1, MintedTokenIsFirst
    <3>3. held <= entitled /\ entitled \in Nat
      BY <1>1, <3>1, <3>2 DEF Entitled, Ledger
    <3>4. Counted(sender, t)' /\ RewardShare(o, t)' = share
      BY <2>1 DEF Counted, RewardShare
    <3>5. w = FixedMul(Divu(G[t][sender], totals'[t]), RewardShare(o, t)')
      BY <3>4 DEF Weight
    <3>6. w = FixedMul(y, share)
      BY <3>4, <3>5
    <3>7. y = (entitled * FixedOne) \div T /\ y \in Nat
      BY <1>1, <3>3, DivNat DEF Divu
    <3> HIDE DEF x, y, q, w, share, T, held, entitled
    <3>8. (held * FixedOne) \div T <= (entitled * FixedOne) \div T
      BY ONLY <1>1, <3>3, FloorGrows
    <3>9. x <= y
      BY <1>4, <3>7, <3>8
    <3>10. (x * share) \div FixedOne <= (y * share) \div FixedOne
      BY ONLY <1>1, <1>4, <3>7, <3>9, FloorGrows
    <3>11. (y * share) \div FixedOne \in Nat
      BY <1>1, <3>7, DivNat
    <3>12. QED BY <1>5, <3>6, <3>10, <3>11 DEF FixedMul
  <2>2. CASE t \notin Conditions
    <3>1. w = 0
      BY <2>2 DEF Weight, Counted
    <3>2. payoutNumerators[o][t] = 0 /\ payoutDenominators[o] \in Nat
      BY <2>2 DEF ConditionsScored, Inv, TypeOK, BidTypeOK
    <3>3. share = 0
      BY <1>1, <3>2, ZeroShare DEF RewardShare, Divu
    <3>4. q = 0
      <4> HIDE DEF x, share
      <4>1. x * share = 0
        BY <1>4, <3>3
      <4>2. QED BY <1>1, <4>1 DEF FixedMul
    <3>5. QED BY <3>1, <3>4
  <2>3. QED BY <2>1, <2>2
<1> HIDE DEF share, x, q, fresh, w
<1> DEFINE p == q * fresh
<1>7. p \in Nat /\ p <= w * fresh /\ w * fresh \in Nat
  <2>1. fresh <= fresh
    BY <1>2
  <2>2. QED BY ONLY <1>2, <1>6, <2>1, ProductGrows
<1>8. Owing(c, o, t, sender, share) = p \div FixedOne
  BY <1>3
<1> HIDE DEF p
<1>9. p \div FixedOne \in Nat /\ FixedOne * (p \div FixedOne) <= p
  BY <1>1, <1>7, FloorBounds
<1>10. w * fresh = fresh * w
  BY <1>2, <1>6
<1> DEFINE e == FixedOne * (p \div FixedOne)
           f == w * fresh
<1>11. e \in Nat /\ e <= p /\ f \in Nat /\ p <= f
  BY <1>1, <1>7, <1>9
<1> HIDE DEF e, f
<1>12. e <= f
  BY <1>7, <1>11
<1>13. QED BY <1>8, <1>10, <1>12 DEF e, f, share, fresh, w
\* A sum over users of which one counts differently.
LEMMA UserSumUpdate ==
    ASSUME NEW f, NEW g, NEW u \in Users, \A x \in Users : f[x] \in Int /\ g[x] \in Int,
           \A x \in Users \ {u} : g[x] = f[x]
    PROVE  SumFunctionOnSet(g, Users) = SumFunctionOnSet(f, Users) - f[u] + g[u]
<1> DEFINE S == Users
<1>1. IsFiniteSet(S) /\ u \in S
  BY FiniteAssumption DEF FiniteAssumption
<1>2. \A x \in S : f[x] \in Int /\ g[x] \in Int
  OBVIOUS
<1>3. \A x \in S \ {u} : g[x] = f[x]
  OBVIOUS
<1> HIDE DEF S
<1>4. SumFunctionOnSet(g, S) = SumFunctionOnSet(f, S) - f[u] + g[u]
  BY ONLY <1>1, <1>2, <1>3, SumUpdate
<1>5. QED BY <1>4 DEF S

\* A withdrawal is due: the donations it pays for are recorded, and so are the
\* tokens it pays for.
LEMMA WithdrawDue ==
    ASSUME Inv, FirstRoundOnly, ConditionsScored, NEW G, Entitled(Ledger, totals, G), PaymentsDue(G),
           NEW sender \in Users, NEW c \in Collaterals, NEW o \in Oracles, NEW t \in Tokens,
           Withdraw(sender, c, o, t)
    PROVE  FirstRoundOnly' /\ PaymentsDue(G)'
<1> DEFINE counter == PerOracle(c, o)
           owing == Owing(c, o, t, sender, RewardShare(o, t))
<1>1. IsInFirstRound(o) /\ totals[t] # 0
  BY DEF Withdraw, WithdrawCollateral, SupplyOf, FirstRoundOnly
<1>2. /\ payoutDenominators[o] # 0 /\ oracleFinished[o]
      /\ userUsedRedeem' = userUsedRedeem \cup {<<sender, t>>}
      /\ lastFirstRound' = IF owing = 0 THEN lastFirstRound
                           ELSE [lastFirstRound EXCEPT ![counter][sender] = totals[counter]]
      /\ usersWithdrewInFirstRound' = usersWithdrewInFirstRound
      /\ paid' = [paid EXCEPT ![c][o] = @ + owing]
      /\ UNCHANGED <<tokenVars, bidVars>>
  BY <1>1 DEF Withdraw, WithdrawCollateral, Recorded, HasRewardShare
<1>3. FirstRoundOnly'
  BY <1>2 DEF FirstRoundOnly
<1>4. /\ IsFiniteSet(Users) /\ FixedOne \in Nat /\ FixedOne # 0
      /\ G \in [Tokens -> [Users -> Nat]]
      /\ paid \in [Collaterals -> [Oracles -> Nat]]
      /\ totals[counter] \in Nat /\ counter \in Tokens
      /\ lastFirstRound \in [Tokens -> [Users -> Nat]]
      /\ \A u \in Users : lastFirstRound[counter][u] <= totals[counter]
  BY FiniteAssumption, LockAssumption, TokenKinds
     DEF FiniteAssumption, LockAssumption, Entitled, Inv, TypeOK, TokenTypeOK, LockTypeOK,
         LastWithinDonations
<1>5. owing \in Nat
  <2>1. SupplyOf(t, o) # 0 /\ HasRewardShare(o)
    BY DEF Withdraw, WithdrawCollateral
  <2>2. QED BY <2>1, OwingNat
<1>6. /\ totals' = totals /\ payoutNumerators' = payoutNumerators
      /\ payoutDenominators' = payoutDenominators /\ oracleFinished' = oracleFinished
      /\ userUsedRedeem \subseteq userUsedRedeem'
  BY <1>2 DEF tokenVars, bidVars
<1> HIDE DEF owing, counter
<1>7. ASSUME NEW d \in Tokens, NEW u \in Users
      PROVE  /\ lastFirstRound'[d][u] =
                  IF owing # 0 /\ d = counter /\ u = sender THEN totals[counter]
                  ELSE lastFirstRound[d][u]
             /\ lastFirstRound[d][u] \in Nat /\ lastFirstRound'[d][u] \in Nat
             /\ lastFirstRound[d][u] <= lastFirstRound'[d][u]
  <2>1. CASE owing = 0
    BY <1>2, <1>4, <2>1
  <2>2. CASE owing # 0
    <3>1. lastFirstRound' = [lastFirstRound EXCEPT ![counter][sender] = totals[counter]]
      BY <1>2, <2>2
    <3>2. QED BY <1>4, <2>2, <3>1
  <2>3. QED BY <2>1, <2>2
<1>8. ASSUME NEW d \in Collaterals, NEW p \in Oracles, payoutDenominators[p] # 0
      PROVE  /\ Due(G, d, p) \in Nat /\ Due(G, d, p)' \in Nat
             /\ Due(G, d, p) <= Due(G, d, p)'
  <2>1. \A u \in Users : /\ lastFirstRound'[PerOracle(d, p)][u] \in Nat
                         /\ lastFirstRound[PerOracle(d, p)][u] <= lastFirstRound'[PerOracle(d, p)][u]
    BY <1>7, TokenKinds
  <2>2. \A u \in Users, x \in Tokens : Counted(u, x) => G[x][u] <= G[x][u]
    BY <1>4
  <2>3. QED BY <1>4, <1>6, <1>8, <2>1, <2>2, DueGrows
<1>9. FixedOne * (paid[c][o] + owing) <= Due(G, c, o)'
  <2>1. FixedOne * paid[c][o] <= Due(G, c, o)
    <3>1. CASE paid[c][o] = 0
      <4>1. FixedOne * paid[c][o] = 0
        BY <1>4, <3>1
      <4>2. QED BY <1>2, <1>8, <4>1
    <3>2. CASE paid[c][o] # 0
      BY <3>2 DEF PaymentsDue
    <3>3. QED BY <3>1, <3>2
  <2>2. paid[c][o] \in Nat /\ FixedOne * paid[c][o] \in Nat /\ FixedOne * owing \in Nat
    BY <1>4, <1>5
  <2>3. CASE owing = 0
    <3>1. FixedOne * (paid[c][o] + owing) = FixedOne * paid[c][o]
      BY <2>2, <2>3
    <3>2. QED BY <1>2, <1>8, <2>1, <2>2, <3>1
  <2>4. CASE owing # 0
    <3> DEFINE weight == [u \in Users |-> WeightOf(G, o, u)']
               old == [u \in Users |-> lastFirstRound[counter][u] * WeightOf(G, o, u)]
               mid == [u \in Users |-> lastFirstRound[counter][u] * WeightOf(G, o, u)']
               new == [u \in Users |-> lastFirstRound'[counter][u] * WeightOf(G, o, u)']
               fresh == totals[counter] - lastFirstRound[counter][sender]
    <3>1. ASSUME NEW u \in Users
          PROVE  /\ WeightOf(G, o, u) \in Nat /\ weight[u] \in Nat
                 /\ WeightOf(G, o, u) <= weight[u]
                 /\ \A x \in Tokens : Weight(G, o, u, x)' \in Nat
      <4>1. \A x \in Tokens : Counted(u, x) => G[x][u] <= G[x][u]
        BY <1>4
      <4>2. QED BY <1>2, <1>4, <1>6, <4>1, WeightGrows
    <3>2. ASSUME NEW u \in Users
          PROVE  /\ old[u] \in Nat /\ mid[u] \in Nat /\ new[u] \in Nat
                 /\ old[u] <= mid[u]
                 /\ mid[u] = lastFirstRound[counter][u] * weight[u]
                 /\ new[u] = lastFirstRound'[counter][u] * weight[u]
      <4> DEFINE a == lastFirstRound[counter][u]
                 b == lastFirstRound'[counter][u]
                 v == WeightOf(G, o, u)
                 w == WeightOf(G, o, u)'
      <4>1. a \in Nat /\ b \in Nat /\ a <= a /\ v \in Nat /\ w \in Nat /\ v <= w
        BY <1>4, <1>7, <3>1
      <4>2. old[u] = a * v /\ mid[u] = a * w /\ new[u] = b * w /\ weight[u] = w
        OBVIOUS
      <4> HIDE DEF a, b, v, w, old, mid, new, weight
      <4>3. a * v \in Nat /\ a * w \in Nat /\ a * v <= a * w /\ b * w \in Nat
        <5>1. a * v \in Nat /\ a * w \in Nat /\ a * v <= a * w
          BY ONLY <4>1, ProductGrows
        <5>2. QED BY <4>1, <5>1
      <4>4. QED BY <4>2, <4>3 DEF a, b
    <3>3. Due(G, c, o) = SumFunctionOnSet(old, Users) /\ Due(G, c, o)' = SumFunctionOnSet(new, Users)
      BY DEF Due, counter
    <3>4. \A u \in Users \ {sender} : new[u] = mid[u]
      <4>1. \A u \in Users \ {sender} : lastFirstRound'[counter][u] = lastFirstRound[counter][u]
        BY <1>4, <1>7
      <4>2. QED BY <3>2, <4>1
    <3>5. weight[sender] = WeightOf(G, o, sender)'
      OBVIOUS
    <3> HIDE DEF weight, old, mid, new
    <3>6. SumFunctionOnSet(old, Users) <= SumFunctionOnSet(mid, Users)
      BY <1>4, <3>2, SumMonotone
    <3>7. SumFunctionOnSet(new, Users) = SumFunctionOnSet(mid, Users) - mid[sender] + new[sender]
      <4>1. \A u \in Users : mid[u] \in Int /\ new[u] \in Int
        BY <3>2
      <4>2. QED BY ONLY <3>4, <4>1, UserSumUpdate
    <3>8. /\ SumFunctionOnSet(old, Users) \in Nat
          /\ SumFunctionOnSet(mid, Users) \in Nat /\ SumFunctionOnSet(new, Users) \in Nat
      BY <1>4, <3>2, SumIsNat
    <3>9. new[sender] - mid[sender] = fresh * weight[sender]
      <4> DEFINE D == totals[counter]
                 a == lastFirstRound[counter][sender]
                 w == weight[sender]
      <4>1. new[sender] = D * w /\ mid[sender] = a * w
        BY <1>4, <1>7, <2>4, <3>2
      <4>2. D \in Nat /\ a \in Nat /\ w \in Nat /\ fresh = D - a
        BY <1>4, <3>1
      <4> HIDE DEF D, a, w, fresh
      <4>3. D * w - a * w = (D - a) * w
        BY <4>2
      <4>4. QED BY <4>1, <4>2, <4>3 DEF w
    <3>10. FixedOne * owing <= fresh * Weight(G, o, sender, t)'
      <4>1. <<sender, t>> \in userUsedRedeem'
        BY <1>2
      <4>2. UNCHANGED <<totals, payoutNumerators, payoutDenominators>>
        BY <1>6
      <4>3. QED BY <1>1, <1>2, <4>1, <4>2, OwingCovered DEF owing, counter
    <3>11. fresh * Weight(G, o, sender, t)' <= fresh * weight[sender]
      <4> DEFINE v == Weight(G, o, sender, t)'
                 each == [x \in Tokens |-> Weight(G, o, sender, x)']
                 w == weight[sender]
      <4>1. \A x \in Tokens : each[x] \in Nat
        BY <3>1
      <4>2. w = SumFunctionOnSet(each, Tokens)
        BY <3>5 DEF WeightOf
      <4>3. v = each[t]
        OBVIOUS
      <4> HIDE DEF each, v, w
      <4>4. each[t] <= SumFunctionOnSet(each, Tokens)
        BY <4>1, TokensFinite, SumBounds
      <4>5. v \in Nat /\ w \in Nat /\ v <= w
        BY <3>1, <4>1, <4>2, <4>3, <4>4 DEF w
      <4>6. fresh \in Nat /\ fresh <= fresh
        <5>1. totals[counter] \in Nat /\ lastFirstRound[counter][sender] \in Nat
              /\ lastFirstRound[counter][sender] <= totals[counter]
          BY <1>4
        <5>2. QED BY <5>1
      <4> HIDE DEF fresh
      <4>7. fresh * v <= fresh * w
        BY ONLY <4>5, <4>6, ProductGrows
      <4>8. QED BY <4>7 DEF v, w
    <3> DEFINE gain == fresh * weight[sender]
               less == fresh * Weight(G, o, sender, t)'
    <3>12. gain \in Int /\ less \in Int
      <4>1. fresh \in Int /\ weight[sender] \in Int /\ Weight(G, o, sender, t)' \in Int
        BY <1>4, <3>1
      <4> HIDE DEF fresh
      <4>2. QED BY <4>1
    <3>13. FixedOne * (paid[c][o] + owing) = FixedOne * paid[c][o] + FixedOne * owing
      BY <1>4, <1>5, <2>2
    <3>14. new[sender] \in Nat /\ mid[sender] \in Nat
      BY <3>2
    <3>15. FixedOne * owing <= less /\ less <= gain /\ new[sender] - mid[sender] = gain
      BY <3>9, <3>10, <3>11
    <3> HIDE DEF gain, less, fresh
    <3> DEFINE e == FixedOne * owing
               f == FixedOne * paid[c][o]
    <3>16. e \in Nat /\ f \in Nat /\ e <= less /\ f <= SumFunctionOnSet(old, Users)
           /\ FixedOne * (paid[c][o] + owing) = f + e
      BY <2>1, <2>2, <3>3, <3>13, <3>15
    <3> HIDE DEF e, f
    <3>17. f + e <= SumFunctionOnSet(new, Users)
      BY <3>6, <3>7, <3>8, <3>12, <3>14, <3>15, <3>16
    <3>18. QED BY <3>3, <3>16, <3>17
  <2>5. QED BY <2>3, <2>4
<1>10. ASSUME NEW d \in Collaterals, NEW p \in Oracles, paid'[d][p] # 0
       PROVE  /\ oracleFinished'[p]
              /\ payoutDenominators'[p] # 0
              /\ FixedOne * paid'[d][p] <= Due(G, d, p)'
  <2>1. CASE d = c /\ p = o
    <3>1. paid'[c][o] = paid[c][o] + owing
      BY <1>2, <1>4
    <3>2. QED BY <1>2, <1>6, <1>9, <2>1, <3>1
  <2>2. CASE ~(d = c /\ p = o)
    <3>1. paid'[d][p] = paid[d][p]
      BY <1>2, <1>4, <2>2
    <3>2. /\ oracleFinished[p] /\ payoutDenominators[p] # 0
          /\ FixedOne * paid[d][p] <= Due(G, d, p)
      BY <1>10, <3>1 DEF PaymentsDue
    <3>3. FixedOne * paid[d][p] \in Nat
      BY <1>4
    <3>4. QED BY <1>6, <1>8, <3>1, <3>2, <3>3
  <2>3. QED BY <2>1, <2>2
<1>11. QED BY <1>3, <1>10 DEF PaymentsDue
-----------------------------------------------------------------------------
(* What the other calls do to what counts for users. *)

\* A ledger in which users hold no more of the same conditions.
LEMMA NoGainEntitles ==
    ASSUME Inv, TypeOK', NEW G, Entitled(Ledger, totals, G),
           UNCHANGED <<maxConditionId, firstConditionInChain>>,
           \A n \in ConditionIds :
              /\ totals'[Condition(n)] = totals[Condition(n)]
              /\ \A u \in Users : balances'[Condition(n)][u] <= balances[Condition(n)][u]
    PROVE  Entitled(Ledger, totals, G)'
<1>1. Ledger \in LedgerType
  BY LedgerTyped DEF Inv
<1>2. /\ Ledger.maxConditionId = maxConditionId /\ Ledger'.maxConditionId = maxConditionId
      /\ Ledger.firstConditionInChain = firstConditionInChain
      /\ Ledger'.firstConditionInChain = firstConditionInChain
      /\ Ledger.balances = balances /\ Ledger'.balances = balances'
  BY DEF Ledger
<1>3. /\ balances \in [Tokens -> [Addresses -> Nat]] /\ balances' \in [Tokens -> [Addresses -> Nat]]
      /\ Users \subseteq Addresses /\ G \in [Tokens -> [Users -> Nat]]
  BY DEF Inv, TypeOK, TokenTypeOK, Addresses, Entitled
<1>4. ASSUME NEW n \in 1..maxConditionId, firstConditionInChain[n] = n
      PROVE  /\ \A u \in Users : balances'[Condition(n)][u] <= G[Condition(n)][u]
             /\ SumFunctionOnSet(G[Condition(n)], Users) <= totals'[Condition(n)]
  <2>1. n \in ConditionIds /\ Condition(n) \in Tokens
    BY <1>1, <1>2, CreatedTyped
  <2>2. /\ \A u \in Users : balances[Condition(n)][u] <= G[Condition(n)][u]
        /\ SumFunctionOnSet(G[Condition(n)], Users) <= totals'[Condition(n)]
    BY <1>2, <1>4, <2>1 DEF Entitled
  <2>3. ASSUME NEW u \in Users PROVE balances'[Condition(n)][u] <= G[Condition(n)][u]
    <3> DEFINE x == Condition(n)
    <3>1. balances[x][u] \in Nat /\ balances'[x][u] \in Nat /\ G[x][u] \in Nat
      BY <1>3, <2>1
    <3>2. balances'[x][u] <= balances[x][u] /\ balances[x][u] <= G[x][u]
      BY <2>1, <2>2
    <3> HIDE DEF x
    <3>3. balances'[x][u] <= G[x][u]
      BY <3>1, <3>2
    <3>4. QED BY <3>3 DEF x
  <2>4. QED BY <2>2, <2>3
<1>5. QED BY <1>2, <1>3, <1>4 DEF Entitled

\* A ledger that is installed.
LEMMA InstallEntitles ==
    ASSUME NEW r, Install(r), NEW G, Entitled(r, totals, G)
    PROVE  Entitled(Ledger, totals, G)'
<1>1. /\ Ledger'.maxConditionId = r.maxConditionId
      /\ Ledger'.firstConditionInChain = r.firstConditionInChain
      /\ Ledger'.balances = r.balances /\ totals' = totals
  BY DEF Install, Ledger
<1>2. QED BY <1>1 DEF Entitled

\* A registration adds a condition that nobody holds, and nothing of it counts.
LEMMA RegisterEntitles ==
    ASSUME Inv, Conserved(Ledger, totals), NEW G, Entitled(Ledger, totals, G),
           NEW customer \in Addresses, RegisterSalary(customer)
    PROVE  \E H : /\ Entitled(Ledger, totals, H)'
                  /\ \A x \in Tokens, u \in Users : totals[x] # 0 => H[x] = G[x]
<1> DEFINE N == NewCondition(Ledger, customer)
           r == [N EXCEPT !.lastSalaryDates[maxConditionId + 1] = now]
           new == maxConditionId + 1
<1>1. /\ Ledger \in LedgerType /\ now \in Nat /\ Chains(Ledger, totals, now)
      /\ Ledger.maxConditionId = maxConditionId /\ Ledger.balances = balances
      /\ Ledger.firstConditionInChain = firstConditionInChain
  BY LedgerTyped DEF Inv, TypeOK, LockTypeOK, Ledger
<1>2. CanCreateCondition(Ledger) /\ Install(r)
  BY DEF RegisterSalary
<1>3. /\ N \in LedgerType /\ N.balances = balances
      /\ OneMore(Ledger, N, customer, new, Ledger.lastSalaryDates[new])
  BY <1>1, <1>2, NewConditionAdds
<1> HIDE DEF N
<1>4. /\ r.maxConditionId = N.maxConditionId
      /\ r.firstConditionInChain = N.firstConditionInChain
      /\ r.balances = N.balances
  BY <1>3 DEF LedgerType
<1> HIDE DEF r
<1>5. /\ r.maxConditionId = new /\ new \in ConditionIds
      /\ r.firstConditionInChain = [firstConditionInChain EXCEPT ![new] = new]
      /\ r.balances = balances
  BY <1>1, <1>3, <1>4 DEF OneMore
<1>6. /\ 1..r.maxConditionId = 1..maxConditionId \cup {new} /\ new \notin 1..maxConditionId
      /\ 1..maxConditionId \subseteq ConditionIds
      /\ Condition(new) \in Tokens /\ \A m \in 1..maxConditionId : Condition(m) \in Tokens
  BY <1>1, <1>5, CreatedTyped, TokenKinds
<1>7. /\ totals[Condition(new)] = 0 /\ \A a \in Addresses : balances[Condition(new)][a] = 0
      /\ firstConditionInChain \in [ConditionIds -> ConditionIds]
      /\ Users \subseteq Addresses /\ G \in [Tokens -> [Users -> Nat]]
  BY <1>1, <1>5, <1>6 DEF Chains, Blank, Conserved, Unheld, Inv, TypeOK, SalaryTypeOK, Addresses,
                          Entitled
<1> HIDE DEF new
<1>8. PICK H \in [Tokens -> [Users -> Nat]] :
            /\ H[Condition(new)] = [u \in Users |-> 0]
            /\ \A x \in Tokens \ {Condition(new)} : H[x] = G[x]
  <2> DEFINE K == [G EXCEPT ![Condition(new)] = [u \in Users |-> 0]]
  <2>1. /\ K \in [Tokens -> [Users -> Nat]]
        /\ K[Condition(new)] = [u \in Users |-> 0]
        /\ \A x \in Tokens \ {Condition(new)} : K[x] = G[x]
    BY <1>6, <1>7
  <2> HIDE DEF K
  <2>2. QED BY <2>1
<1>9. ASSUME NEW m \in 1..r.maxConditionId, r.firstConditionInChain[m] = m
      PROVE  /\ \A u \in Users : r.balances[Condition(m)][u] <= H[Condition(m)][u]
             /\ SumFunctionOnSet(H[Condition(m)], Users) <= totals[Condition(m)]
  <2>1. CASE m = new
    <3>1. SumFunctionOnSet(H[Condition(m)], Users) = 0
      BY <1>8, <2>1, SumZero, FiniteAssumption DEF FiniteAssumption
    <3>2. QED BY <1>5, <1>7, <1>8, <2>1, <3>1
  <2>2. CASE m # new
    <3>1. m \in 1..maxConditionId /\ firstConditionInChain[m] = m
      BY <1>5, <1>6, <1>7, <1>9, <2>2
    <3>2. Condition(m) \in Tokens /\ Condition(m) # Condition(new)
      BY <1>6, <2>2, <3>1 DEF Condition
    <3>3. QED BY <1>1, <1>5, <1>8, <3>1, <3>2 DEF Entitled
  <2>3. QED BY <2>1, <2>2
<1>10. Entitled(r, totals, H)
  BY <1>8, <1>9 DEF Entitled
<1>11. Entitled(Ledger, totals, H)'
  BY <1>2, <1>10, InstallEntitles
<1>12. \A x \in Tokens, u \in Users : totals[x] # 0 => H[x] = G[x]
  BY <1>7, <1>8
<1>13. QED BY <1>11, <1>12

\* A mint counts for the user it goes to.
LEMMA MintEntitles ==
    ASSUME Inv, TypeOK', NEW G, Entitled(Ledger, totals, G), NEW sender \in Users,
           NEW n \in ConditionIds, NEW to \in Addresses, MintSalary(sender, n, to)
    PROVE  \E H : /\ Entitled(Ledger, totals, H)'
                  /\ \A x \in Tokens, u \in Users : G[x][u] <= H[x][u]
<1> DEFINE v == now - lastSalaryDates[n]
           t == Condition(n)
           g == G[t]
           d == IF to \in Users THEN [g EXCEPT ![to] = g[to] + v] ELSE g
<1>1. /\ n \in 1..maxConditionId
      /\ v \in Nat
      /\ balances' \in [Tokens -> [Addresses -> Nat]]
      /\ totals' = [totals EXCEPT ![t] = @ + v]
      /\ totals' \in [Tokens -> Nat]
      /\ UNCHANGED <<lockVars, chainVars>>
      /\ firstConditionInChain[n] = n
  BY MintStep
<1>2. /\ t \in Tokens /\ Users \subseteq Addresses /\ IsFiniteSet(Users)
      /\ balances \in [Tokens -> [Addresses -> Nat]] /\ totals \in [Tokens -> Nat]
      /\ G \in [Tokens -> [Users -> Nat]] /\ g \in [Users -> Nat]
  BY TokenKinds, FiniteAssumption DEF Inv, TypeOK, TokenTypeOK, Addresses, Entitled, FiniteAssumption
<1>3. \A y \in Tokens, a \in Addresses :
         balances'[y][a] = IF y = t /\ a = to THEN balances[y][a] + v ELSE balances[y][a]
  BY MintPoints
<1>4. /\ maxConditionId' = maxConditionId /\ firstConditionInChain' = firstConditionInChain
  BY <1>1 DEF lockVars, conditionVars, chainVars
<1>5. /\ \A u \in Users : balances[t][u] <= g[u]
      /\ SumFunctionOnSet(g, Users) <= totals[t]
  BY <1>1 DEF Entitled, Ledger
<1>6. Ledger \in LedgerType
  BY LedgerTyped DEF Inv
<1>7. \A m \in 1..maxConditionId : m \in ConditionIds /\ Condition(m) \in Tokens
  BY <1>6, CreatedTyped DEF Ledger
<1>8. totals'[t] = totals[t] + v /\ \A y \in Tokens \ {t} : totals'[y] = totals[y]
  BY <1>1, <1>2
<1> HIDE DEF v, t, g
<1>9. /\ d \in [Users -> Nat]
      /\ \A u \in Users : d[u] = IF u = to THEN g[u] + v ELSE g[u]
  <2>1. CASE to \in Users
    <3>1. g[to] + v \in Nat
      BY <1>1, <1>2, <2>1
    <3>2. QED BY <1>2, <2>1, <3>1
  <2>2. CASE to \notin Users
    BY <1>2, <2>2
  <2>3. QED BY <2>1, <2>2
<1> HIDE DEF d
<1>10. SumFunctionOnSet(d, Users) <= SumFunctionOnSet(g, Users) + v
  <2>1. \A u \in Users : g[u] \in Int /\ d[u] \in Int
    BY <1>2, <1>9
  <2>2. SumFunctionOnSet(g, Users) \in Int /\ SumFunctionOnSet(d, Users) \in Int
    BY <1>2, <2>1, SumIsInt
  <2>3. CASE to \in Users
    <3>1. \A u \in Users \ {to} : d[u] = g[u]
      BY <1>9
    <3>2. SumFunctionOnSet(d, Users) = SumFunctionOnSet(g, Users) - g[to] + d[to]
      BY ONLY <2>1, <2>3, <3>1, UserSumUpdate
    <3>3. d[to] = g[to] + v /\ g[to] \in Int /\ d[to] \in Int
      BY <1>9, <2>1, <2>3
    <3>4. QED BY <1>1, <2>2, <3>2, <3>3
  <2>4. CASE to \notin Users
    <3>1. \A u \in Users : d[u] = g[u]
      BY <1>9, <2>4
    <3>2. SumFunctionOnSet(d, Users) = SumFunctionOnSet(g, Users)
      BY <1>2, <2>1, <3>1, SumEqual
    <3>3. QED BY <1>1, <2>2, <3>2
  <2>5. QED BY <2>3, <2>4
<1>11. PICK H \in [Tokens -> [Users -> Nat]] : H[t] = d /\ \A x \in Tokens \ {t} : H[x] = G[x]
  <2> DEFINE K == [G EXCEPT ![t] = d]
  <2>1. K \in [Tokens -> [Users -> Nat]] /\ K[t] = d /\ \A x \in Tokens \ {t} : K[x] = G[x]
    BY <1>2, <1>9
  <2> HIDE DEF K
  <2>2. QED BY <2>1
<1>12. ASSUME NEW m \in 1..maxConditionId, firstConditionInChain[m] = m
       PROVE  /\ \A u \in Users : balances'[Condition(m)][u] <= H[Condition(m)][u]
              /\ SumFunctionOnSet(H[Condition(m)], Users) <= totals'[Condition(m)]
  <2>1. CASE Condition(m) = t
    <3>1. SumFunctionOnSet(d, Users) <= totals'[t]
      <4>1. SumFunctionOnSet(g, Users) \in Nat /\ SumFunctionOnSet(d, Users) \in Nat
            /\ totals[t] \in Nat
        BY <1>2, <1>9, SumIsNat
      <4>2. QED BY <1>1, <1>5, <1>8, <1>10, <4>1
    <3>2. ASSUME NEW u \in Users PROVE balances'[t][u] <= d[u]
      <4>1. balances'[t][u] = IF u = to THEN balances[t][u] + v ELSE balances[t][u]
        BY <1>2, <1>3
      <4>2. balances[t][u] \in Nat /\ g[u] \in Nat /\ balances[t][u] <= g[u]
        BY <1>2, <1>5
      <4>3. QED BY <1>1, <1>9, <4>1, <4>2
    <3>3. QED BY <1>11, <2>1, <3>1, <3>2
  <2>2. CASE Condition(m) # t
    <3>1. Condition(m) \in Tokens /\ H[Condition(m)] = G[Condition(m)]
      BY <1>7, <1>11, <2>2
    <3>2. \A u \in Users : balances'[Condition(m)][u] = balances[Condition(m)][u]
      BY <1>2, <1>3, <2>2, <3>1
    <3>3. totals'[Condition(m)] = totals[Condition(m)]
      BY <1>8, <2>2, <3>1
    <3>4. QED BY <1>12, <3>1, <3>2, <3>3 DEF Entitled, Ledger
  <2>3. QED BY <2>1, <2>2
<1>13. Entitled(Ledger, totals, H)'
  <2>1. /\ Ledger'.maxConditionId = maxConditionId
        /\ Ledger'.firstConditionInChain = firstConditionInChain
        /\ Ledger'.balances = balances'
    BY <1>4 DEF Ledger
  <2>2. QED BY <1>12, <2>1 DEF Entitled
<1>14. ASSUME NEW x \in Tokens, NEW u \in Users PROVE G[x][u] <= H[x][u]
  <2>1. CASE x = t
    <3>1. g[u] \in Nat /\ (d[u] = g[u] \/ d[u] = g[u] + v)
      BY <1>2, <1>9
    <3>2. g[u] <= d[u]
      BY <1>1, <3>1
    <3>3. QED BY <1>11, <2>1, <3>2 DEF g
  <2>2. CASE x # t
    BY <1>2, <1>11, <2>2
  <2>3. QED BY <2>1, <2>2
<1>15. QED BY <1>13, <1>14
-----------------------------------------------------------------------------
(* Payments stay covered. *)

\* Somehow the tokens count so that all payments were due.
Covered == \E G : Entitled(Ledger, totals, G) /\ PaymentsDue(G)

\* Only users approve operators.
UsersApprove == operatorApprovals \subseteq Users \X Addresses

\* A call that pays nothing and lets no redeemed token count for less.
LEMMA QuietCovers ==
    ASSUME Inv, Next, NoLateMint, UNCHANGED <<paid, lastFirstRound, userUsedRedeem>>,
           NEW G, Entitled(Ledger, totals, G), PaymentsDue(G), NEW H, Entitled(Ledger, totals, H)',
           \A u \in Users, t \in Tokens : Counted(u, t) => G[t][u] <= H[t][u]
    PROVE  Covered'
<1>1. G \in [Tokens -> [Users -> Nat]] /\ H \in [Tokens -> [Users -> Nat]]
  BY DEF Entitled
<1>2. PaymentsDue(H)'
  BY <1>1, QuietPayments
<1>3. QED BY <1>2 DEF Covered

\* A call that gives users no more of a condition.
LEMMA NoGainCovers ==
    ASSUME Inv, TypeOK', Next, NoLateMint, UNCHANGED <<paid, lastFirstRound, userUsedRedeem>>, Covered,
           UNCHANGED <<maxConditionId, firstConditionInChain>>,
           \A n \in ConditionIds :
              /\ totals'[Condition(n)] = totals[Condition(n)]
              /\ \A u \in Users : balances'[Condition(n)][u] <= balances[Condition(n)][u]
    PROVE  Covered'
<1>1. PICK G : Entitled(Ledger, totals, G) /\ PaymentsDue(G)
  BY DEF Covered
<1>2. Entitled(Ledger, totals, G)'
  BY <1>1, NoGainEntitles
<1>3. \A u \in Users, t \in Tokens : Counted(u, t) => G[t][u] <= G[t][u]
  BY <1>1 DEF Entitled
<1>4. QED BY <1>1, <1>2, <1>3, QuietCovers

\* A call that leaves the tokens alone.
LEMMA SameTokensCover ==
    ASSUME Inv, TypeOK', Next, NoLateMint, UNCHANGED <<paid, lastFirstRound, userUsedRedeem>>, Covered,
           UNCHANGED <<maxConditionId, firstConditionInChain, balances, totals>>
    PROVE  Covered'
<1>1. ASSUME NEW n \in ConditionIds
      PROVE  /\ totals'[Condition(n)] = totals[Condition(n)]
             /\ \A u \in Users : balances'[Condition(n)][u] <= balances[Condition(n)][u]
  <2>1. \A u \in Users : balances[Condition(n)][u] \in Nat
    BY TokenKinds DEF Inv, TypeOK, TokenTypeOK, Addresses
  <2>2. QED BY <2>1
<1>2. QED BY <1>1, NoGainCovers

\* Transfers take along what counts, of tokens that were not redeemed.
LEMMA TokenCallsCover ==
    ASSUME Inv, TypeOK', Next, NoLateMint, UsersApprove, Covered, TokenCalls
    PROVE  Covered'
<1>1. /\ Ledger \in LedgerType /\ totals \in [Tokens -> Nat]
      /\ now \in Nat /\ now >= 1 /\ Chains(Ledger, totals, now) /\ Users \subseteq Addresses
  BY LedgerTyped DEF Inv, TypeOK, LockTypeOK, TokenTypeOK, Addresses
<1>2. PICK sender \in Users :
         \/ \E operator \in Users, approved \in BOOLEAN :
               /\ SetApprovalForAll(sender, operator, approved)
               /\ UNCHANGED <<lockVars, bidVars, salaryVars>>
         \/ \E from, to \in Addresses, t \in Tokens, v \in Amounts :
               SafeTransferFrom(sender, from, to, t, v)
         \/ \E from, to \in Addresses, t1, t2 \in Tokens, v1, v2 \in Amounts :
               SafeBatchTransferFrom(sender, from, to, t1, v1, t2, v2)
  BY DEF TokenCalls
<1>3. PICK G : Entitled(Ledger, totals, G) /\ PaymentsDue(G)
  BY DEF Covered
<1>4. G \in [Tokens -> [Users -> Nat]]
  BY <1>3 DEF Entitled
<1>5. ASSUME NEW from \in Addresses, IsApproved(from, sender) PROVE from \in Users
  BY <1>5 DEF IsApproved, UsersApprove
<1>6. ASSUME NEW r, Install(r), NEW H, Entitled(r, totals, H),
             \A u \in Users, x \in Tokens : Counted(u, x) => G[x][u] <= H[x][u]
      PROVE  Covered'
  <2>1. Entitled(Ledger, totals, H)'
    BY <1>6, InstallEntitles
  <2>2. UNCHANGED <<paid, lastFirstRound, userUsedRedeem>>
    BY <1>6 DEF Install, payoutVars
  <2>3. QED BY <1>3, <1>6, <2>1, <2>2, QuietCovers
<1>7. ASSUME NEW operator \in Users, NEW approved \in BOOLEAN,
             SetApprovalForAll(sender, operator, approved),
             UNCHANGED <<lockVars, bidVars, salaryVars>>
      PROVE  Covered'
  BY <1>7, SameTokensCover
     DEF SetApprovalForAll, lockVars, payoutVars, conditionVars, salaryVars, chainVars
<1>8. ASSUME NEW from \in Addresses, NEW to \in Addresses, NEW t \in Tokens, NEW v \in Amounts,
             SafeTransferFrom(sender, from, to, t, v)
      PROVE  Covered'
  <2> DEFINE r == Transfer(Ledger, sender, t, from, to, v)
  <2>1. /\ v \in Nat /\ CanTransfer(Ledger, sender, t, from, v) /\ Install(r)
        /\ from \in Users /\ <<from, t>> \notin userUsedRedeem
    BY <1>5, <1>8, BoundAssumption
       DEF BoundAssumption, SafeTransferFrom, BaseSafeTransferFrom, IsUnlocked
  <2>2. PICK H : Entitled(r, totals, H) /\ LessOnlyAt(G, H, from, {t})
    BY <1>1, <1>3, <2>1, TransferEntitles
  <2> HIDE DEF r
  <2>3. \A u \in Users, x \in Tokens : Counted(u, x) => G[x][u] <= H[x][u]
    BY <2>1, <2>2 DEF Counted, LessOnlyAt
  <2>4. QED BY <1>6, <2>1, <2>2, <2>3
<1>9. ASSUME NEW from \in Addresses, NEW to \in Addresses, NEW t1 \in Tokens, NEW t2 \in Tokens,
             NEW v1 \in Amounts, NEW v2 \in Amounts,
             SafeBatchTransferFrom(sender, from, to, t1, v1, t2, v2)
      PROVE  Covered'
  <2> DEFINE first == Transfer(Ledger, sender, t1, from, to, v1)
             r == Transfer(first, sender, t2, from, to, v2)
  <2>1. /\ v1 \in Nat /\ v2 \in Nat
        /\ CanTransfer(Ledger, sender, t1, from, v1)
        /\ CanTransfer(first, sender, t2, from, v2)
        /\ Install(r)
        /\ from \in Users /\ <<from, t1>> \notin userUsedRedeem /\ <<from, t2>> \notin userUsedRedeem
    BY <1>5, <1>9, BoundAssumption
       DEF BoundAssumption, SafeBatchTransferFrom, BaseSafeBatchTransferFrom, IsUnlocked
  <2>2. /\ first \in LedgerType
        /\ SameChains(Ledger, first) \/ \E n \in ConditionIds : Recreated(Ledger, first, n)
    BY <1>1, <2>1, TransferCases
  <2>3. PICK H : Entitled(first, totals, H) /\ LessOnlyAt(G, H, from, {t1})
    BY <1>1, <1>3, <2>1, TransferEntitles
  <2> HIDE DEF first
  <2>4. Chains(first, totals, now)
    BY <1>1, <2>2, SameChainsKept, RecreatedKeepsChains
  <2>5. PICK K : Entitled(r, totals, K) /\ LessOnlyAt(H, K, from, {t2})
    BY <1>1, <2>1, <2>2, <2>3, <2>4, TransferEntitles
  <2> HIDE DEF r
  <2>6. ASSUME NEW u \in Users, NEW x \in Tokens, Counted(u, x) PROVE G[x][u] <= K[x][u]
    <3>1. G[x][u] <= H[x][u] /\ H[x][u] <= K[x][u]
      BY <2>1, <2>3, <2>5, <2>6 DEF Counted, LessOnlyAt
    <3>2. G[x][u] \in Nat /\ H[x][u] \in Nat /\ K[x][u] \in Nat
      BY <1>4, <2>3, <2>5 DEF Entitled
    <3>3. QED BY <3>1, <3>2
  <2>7. QED BY <1>6, <2>1, <2>5, <2>6
<1>10. QED BY <1>2, <1>7, <1>8, <1>9

\* Salaries are minted before any payment, or nothing is minted.
LEMMA SalaryCallsCover ==
    ASSUME Inv, TypeOK', Next, NoLateMint, Covered, SalaryCalls
    PROVE  Covered'
<1>1. /\ Ledger \in LedgerType /\ totals \in [Tokens -> Nat]
      /\ now \in Nat /\ Chains(Ledger, totals, now)
  BY LedgerTyped DEF Inv, TypeOK, LockTypeOK, TokenTypeOK
<1>2. PICK G : Entitled(Ledger, totals, G) /\ PaymentsDue(G)
  BY DEF Covered
<1>3. ASSUME NEW n \in ConditionIds, RecreateCondition(n) PROVE Covered'
  <2> DEFINE r == Recreate(Ledger, n)
  <2>1. CanRecreate(Ledger, n) /\ Install(r)
    BY <1>3 DEF RecreateCondition
  <2>2. Entitled(r, totals, G)
    BY <1>1, <1>2, <2>1, RecreateEntitles
  <2> HIDE DEF r
  <2>3. Entitled(Ledger, totals, G)'
    BY <2>1, <2>2, InstallEntitles
  <2>4. UNCHANGED <<paid, lastFirstRound, userUsedRedeem>>
    BY <2>1 DEF Install, payoutVars
  <2>5. \A u \in Users, t \in Tokens : Counted(u, t) => G[t][u] <= G[t][u]
    BY <1>2 DEF Entitled
  <2>6. QED BY <1>2, <2>3, <2>4, <2>5, QuietCovers
<1>4. ASSUME NEW sender \in Users, NEW n \in ConditionIds,
             MintSalary(sender, n, CurrentAddress(sender))
      PROVE  Covered'
  <2> DEFINE to == CurrentAddress(sender)
  <2>1. to \in Addresses
    BY DEF Inv, TypeOK, AccountTypeOK, CurrentAddress, Addresses
  <2>2. UNCHANGED <<paid, lastFirstRound, userUsedRedeem>>
    BY <1>4 DEF MintSalary, lockVars, payoutVars
  <2>3. PICK a \in Addresses : a = to
    BY <2>1
  <2>4. MintSalary(sender, n, a)
    BY <1>4, <2>3
  <2> HIDE DEF to
  <2>5. PICK H : /\ Entitled(Ledger, totals, H)'
                 /\ \A x \in Tokens, u \in Users : G[x][u] <= H[x][u]
    BY <1>2, <2>4, MintEntitles
  <2>6. QED BY <1>2, <2>2, <2>5, QuietCovers
<1>5. ASSUME NEW n \in ConditionIds, MintReturns(n) PROVE Covered'
  BY <1>5, SameTokensCover
     DEF MintReturns, tokenVars, lockVars, payoutVars, conditionVars, chainVars
<1>6. QED BY <1>3, <1>4, <1>5 DEF SalaryCalls

\* Donations mint counters only, and withdrawals are due.
LEMMA CollateralCallsCover ==
    ASSUME Inv, TypeOK', Next, NoLateMint, FirstRoundOnly, ConditionsScored, Covered,
           CollateralCalls, UNCHANGED salaryVars
    PROVE  Covered'
<1>1. ASSUME NEW c \in Collaterals, NEW o \in Oracles, NEW v \in Nat, NEW from \in Addresses,
             NEW to \in Addresses, Donate(c, o, v, from, to)
      PROVE  Covered'
  <2>1. UNCHANGED <<paid, lastFirstRound, userUsedRedeem, maxConditionId, firstConditionInChain>>
    BY <1>1 DEF Donate, payoutVars, conditionVars, salaryVars, chainVars
  <2>2. ASSUME NEW n \in ConditionIds
        PROVE  /\ totals'[Condition(n)] = totals[Condition(n)]
               /\ \A u \in Users : balances'[Condition(n)][u] <= balances[Condition(n)][u]
    <3>1. \A u \in Users : balances[Condition(n)][u] \in Nat
      BY TokenKinds DEF Inv, TypeOK, TokenTypeOK, Addresses
    <3>2. /\ totals'[Condition(n)] = totals[Condition(n)]
          /\ balances'[Condition(n)] = balances[Condition(n)]
      BY <1>1, DonateQuiet
    <3>3. QED BY <3>1, <3>2
  <2>3. QED BY <2>1, <2>2, NoGainCovers
<1>2. ASSUME NEW c, NEW from, NEW to, NEW v, CollateralTransfer(c, from, to, v)
      PROVE  Covered'
  BY <1>2, SameTokensCover
     DEF CollateralTransfer, tokenVars, payoutVars, conditionVars, salaryVars, chainVars
<1>3. ASSUME NEW c \in Collaterals, NEW sender \in Users, NEW o \in Oracles, NEW t \in Tokens,
             Withdraw(sender, c, o, t)
      PROVE  Covered'
  <2>1. PICK G : Entitled(Ledger, totals, G) /\ PaymentsDue(G)
    BY DEF Covered
  <2>2. PaymentsDue(G)'
    BY <1>3, <2>1, WithdrawDue
  <2>3. /\ Ledger' = Ledger /\ totals' = totals
    BY <1>3 DEF Withdraw, WithdrawCollateral, Ledger, tokenVars, conditionVars, salaryVars, chainVars
  <2>4. Entitled(Ledger, totals, G)'
    BY <2>1, <2>3 DEF Entitled
  <2>5. QED BY <2>2, <2>4 DEF Covered
<1>4. ASSUME NEW c \in Collaterals, NEW o \in Oracles, GatherDeFiProfit(c, o)
      PROVE  Covered'
  BY <1>1, <1>4, GatherDonates DEF Inv, Addresses
<1>5. Amounts \subseteq Nat /\ Users \cup {This} \subseteq Addresses
  BY BoundAssumption DEF BoundAssumption, Addresses
<1>6. QED BY <1>1, <1>2, <1>3, <1>4, <1>5 DEF CollateralCalls
\* Restorations, refused or not, take tokens from users or leave them.
LEMMA AccountCallsCover ==
    ASSUME Inv, TypeOK', Next, NoLateMint, LinksBlank, Covered, AccountCalls
    PROVE  Covered'
<1>1. PICK sender \in Users, old \in Addresses, new \in Addresses, allowed \in BOOLEAN :
         \/ PermitRestoreAccount(sender, old, new, allowed)
         \/ DispermitRestoreAccount(old, new, allowed)
         \/ \E t \in Tokens : RestoreFunds(sender, old, new, t, allowed)
         \/ \E t1, t2 \in Tokens : RestoreFundsBatch(sender, old, new, t1, t2, allowed)
  BY DEF AccountCalls
<1>2. balances \in [Tokens -> [Addresses -> Nat]] /\ \A u \in Users : u \in Addresses \ {Zero}
  BY AddressAssumption DEF AddressAssumption, Inv, TypeOK, TokenTypeOK, Addresses
<1>3. ASSUME UNCHANGED <<totals, lockVars, salaryVars>>,
             \A x \in Tokens, a \in Addresses \ {Zero} : balances'[x][a] <= balances[x][a]
      PROVE  Covered'
  <2>1. /\ UNCHANGED <<paid, lastFirstRound, userUsedRedeem>>
        /\ UNCHANGED <<maxConditionId, firstConditionInChain>>
    BY <1>3 DEF lockVars, payoutVars, conditionVars, salaryVars, chainVars
  <2>2. ASSUME NEW n \in ConditionIds
        PROVE  /\ totals'[Condition(n)] = totals[Condition(n)]
               /\ \A u \in Users : balances'[Condition(n)][u] <= balances[Condition(n)][u]
    BY <1>2, <1>3, TokenKinds
  <2>3. QED BY <2>1, <2>2, NoGainCovers
<1>4. ASSUME UNCHANGED baseVars PROVE Covered'
  BY <1>4, SameTokensCover
     DEF baseVars, tokenVars, lockVars, payoutVars, conditionVars, salaryVars, chainVars
<1>5. ASSUME NEW t \in Tokens, RestoreFunds(sender, old, new, t, allowed)
      PROVE  Covered'
  <2>1. /\ new = old \/ new = Zero
        /\ balances' = RestoreToken(balances, old, new, t)
        /\ UNCHANGED <<totals, lockVars, salaryVars>>
    BY <1>5, BlankMovedOwner DEF RestoreFunds
  <2>2. \A x \in Tokens, a \in Addresses :
           balances'[x][a] = IF x = t /\ a = old THEN 0
                             ELSE IF x = t /\ a = new THEN balances[t][old] ELSE balances[x][a]
    <3>1. IsRestored(balances', balances, old, new, t)
      BY <1>2, <2>1, RestoreRelates
    <3>2. QED BY <3>1 DEF IsRestored
  <2>3. \A x \in Tokens, a \in Addresses \ {Zero} : balances'[x][a] <= balances[x][a]
    BY <1>2, <2>1, <2>2
  <2>4. QED BY <1>3, <2>1, <2>3
<1>6. ASSUME NEW t1 \in Tokens, NEW t2 \in Tokens,
             RestoreFundsBatch(sender, old, new, t1, t2, allowed)
      PROVE  Covered'
  <2> DEFINE b == RestoreToken(balances, old, new, t1)
  <2>1. /\ new = old \/ new = Zero
        /\ balances' = RestoreToken(b, old, new, t2)
        /\ UNCHANGED <<totals, lockVars, salaryVars>>
    BY <1>6, BlankMovedOwner DEF RestoreFundsBatch
  <2>2. /\ b \in [Tokens -> [Addresses -> Nat]]
        /\ \A x \in Tokens, a \in Addresses :
              b[x][a] = IF x = t1 /\ a = old THEN 0
                        ELSE IF x = t1 /\ a = new THEN balances[t1][old] ELSE balances[x][a]
    <3>1. b \in [Tokens -> [Addresses -> Nat]] /\ IsRestored(b, balances, old, new, t1)
      BY <1>2, RestoreRelates
    <3>2. QED BY <3>1 DEF IsRestored
  <2> HIDE DEF b
  <2>3. \A x \in Tokens, a \in Addresses :
           balances'[x][a] = IF x = t2 /\ a = old THEN 0
                             ELSE IF x = t2 /\ a = new THEN b[t2][old] ELSE b[x][a]
    <3>1. IsRestored(balances', b, old, new, t2)
      BY <2>1, <2>2, RestoreRelates
    <3>2. QED BY <3>1 DEF IsRestored
  <2>4. \A x \in Tokens, a \in Addresses \ {Zero} : b[x][a] <= balances[x][a]
    BY <1>2, <2>1, <2>2
  <2>5. \A x \in Tokens, a \in Addresses \ {Zero} : balances'[x][a] <= b[x][a]
    BY <2>1, <2>2, <2>3
  <2>6. ASSUME NEW x \in Tokens, NEW a \in Addresses \ {Zero}
        PROVE  balances'[x][a] <= balances[x][a]
    <3>1. /\ balances'[x][a] \in Nat /\ b[x][a] \in Nat /\ balances[x][a] \in Nat
          /\ balances'[x][a] <= b[x][a] /\ b[x][a] <= balances[x][a]
      BY <1>2, <2>2, <2>4, <2>5 DEF TypeOK, TokenTypeOK
    <3>2. QED BY <3>1
  <2>7. QED BY <1>3, <2>1, <2>6
<1>7. QED BY <1>1, <1>4, <1>5, <1>6 DEF PermitRestoreAccount, DispermitRestoreAccount

\* Registrations.
LEMMA DAOCallsCover ==
    ASSUME Inv, TypeOK', Next, NoLateMint, Conserved(Ledger, totals), Covered, DAOCalls
    PROVE  Covered'
<1>1. \A a \in Addresses : OriginalAddress(a) \in Addresses
  BY DEF Inv, TypeOK, AccountTypeOK, OriginalAddress
<1>2. ASSUME NEW customer \in Customers, NEW control, RegisterCustomer(customer, control)
      PROVE  Covered'
  <2> DEFINE original == OriginalAddress(customer)
  <2>1. PICK a \in Addresses : a = original
    BY <1>1, DAOAssumption DEF DAOAssumption
  <2>2. RegisterSalary(a)
    BY <1>2, <2>1 DEF RegisterCustomer
  <2> HIDE DEF original
  <2>3. PICK G : Entitled(Ledger, totals, G) /\ PaymentsDue(G)
    BY DEF Covered
  <2>4. PICK H : /\ Entitled(Ledger, totals, H)'
                 /\ \A x \in Tokens, u \in Users : totals[x] # 0 => H[x] = G[x]
    BY <2>2, <2>3, RegisterEntitles
  <2>5. UNCHANGED <<paid, lastFirstRound, userUsedRedeem>>
    BY <2>2 DEF RegisterSalary, Install, payoutVars
  <2>6. \A u \in Users, x \in Tokens : Counted(u, x) => G[x][u] <= H[x][u]
    BY <2>3, <2>4 DEF Counted, Entitled
  <2>7. QED BY <2>3, <2>4, <2>5, <2>6, QuietCovers
<1>3. ASSUME UNCHANGED baseVars PROVE Covered'
  BY <1>3, SameTokensCover
     DEF baseVars, tokenVars, lockVars, payoutVars, conditionVars, salaryVars, chainVars
<1>4. QED BY <1>2, <1>3 DEF DAOCalls, SetDAOControl, SetDAO

\* No step of Next lets payments outgrow what is due, when nothing is minted late.
LEMMA StepCovers ==
    ASSUME Inv, Inv', Conserved(Ledger, totals), LinksBlank, UsersApprove, FirstRoundOnly,
           ConditionsScored, Covered, Next, NoLateMint
    PROVE  Covered'
<1>1. TypeOK'
  BY DEF Inv
<1>2. ASSUME UNCHANGED <<tokenVars, payoutVars, conditionVars, salaryVars>> PROVE Covered'
  BY <1>1, <1>2, SameTokensCover DEF tokenVars, payoutVars, conditionVars, salaryVars, chainVars
<1>3. CASE Tick /\ UNCHANGED <<bidVars, salaryVars, accountVars, daoVars>>
  BY <1>2, <1>3 DEF Tick
<1>4. CASE TokenCalls
  BY <1>1, <1>4, TokenCallsCover
<1>5. CASE SalaryCalls
  BY <1>1, <1>5, SalaryCallsCover
<1>6. CASE OracleCalls /\ UNCHANGED salaryVars
  BY <1>2, <1>6 DEF OracleCalls, CreateOracle, ChangeOracleOwner, UpdateGracePeriodEnds,
     ReportNumerator, ReportNumeratorsBatch, FinishOracle, Publish, lockVars
<1>7. CASE CollateralCalls /\ UNCHANGED salaryVars
  BY <1>1, <1>7, CollateralCallsCover
<1>8. CASE AccountCalls
  BY <1>1, <1>8, AccountCallsCover
<1>9. CASE DAOCalls
  BY <1>1, <1>9, DAOCallsCover
<1>10. QED BY <1>3, <1>4, <1>5, <1>6, <1>7, <1>8, <1>9 DEF Next
-----------------------------------------------------------------------------
(* The theorems. *)

\* A withdrawal after the grace period is divided by what was recorded of
\* withdrawals after it, nothing: it reverts.
LEMMA StepKeepsFirstRound ==
    FirstRoundOnly /\ [Next]_vars => FirstRoundOnly'
<1> SUFFICES ASSUME FirstRoundOnly, [Next]_vars PROVE FirstRoundOnly'
  OBVIOUS
<1>1. ASSUME UNCHANGED usersWithdrewInFirstRound PROVE FirstRoundOnly'
  BY <1>1 DEF FirstRoundOnly
<1>2. CASE Tick
  BY <1>1, <1>2 DEF Tick, payoutVars
<1>3. CASE TokenCalls
  BY <1>1, <1>3 DEF TokenCalls, SetApprovalForAll, SafeTransferFrom, BaseSafeTransferFrom,
     SafeBatchTransferFrom, BaseSafeBatchTransferFrom, Install, lockVars, payoutVars
<1>4. CASE SalaryCalls
  BY <1>1, <1>4 DEF SalaryCalls, MintSalary, MintReturns, RecreateCondition, Install, lockVars, payoutVars
<1>5. CASE OracleCalls
  BY <1>1, <1>5 DEF OracleCalls, CreateOracle, ChangeOracleOwner, UpdateGracePeriodEnds,
     ReportNumerator, ReportNumeratorsBatch, FinishOracle, Publish, lockVars, payoutVars
<1>6. CASE CollateralCalls
  <2>1. ASSUME NEW c \in Collaterals, NEW sender \in Users, NEW o \in Oracles, NEW t \in Tokens,
               Withdraw(sender, c, o, t)
        PROVE  FirstRoundOnly'
    <3>1. IsInFirstRound(o)
      BY <2>1 DEF Withdraw, WithdrawCollateral, SupplyOf, FirstRoundOnly
    <3>2. UNCHANGED usersWithdrewInFirstRound
      BY <2>1, <3>1 DEF Withdraw, WithdrawCollateral
    <3>3. QED BY <1>1, <3>2
  <2>2. ASSUME NEW c, NEW o, NEW v, NEW from, NEW to,
               Donate(c, o, v, from, to) \/ CollateralTransfer(c, from, to, v)
        PROVE  FirstRoundOnly'
    BY <1>1, <2>2 DEF Donate, CollateralTransfer, payoutVars
  <2>3. ASSUME NEW c, NEW o, GatherDeFiProfit(c, o) PROVE FirstRoundOnly'
    BY <2>2, <2>3 DEF GatherDeFiProfit
  <2>4. QED BY <1>6, <2>1, <2>2, <2>3 DEF CollateralCalls
<1>7. CASE AccountCalls
  BY <1>1, <1>7 DEF AccountCalls, PermitRestoreAccount, DispermitRestoreAccount, RestoreFunds,
     RestoreFundsBatch, baseVars, lockVars, payoutVars
<1>8. CASE DAOCalls
  BY <1>1, <1>8 DEF DAOCalls, RegisterCustomer, RegisterSalary, SetDAOControl, SetDAO, Install,
     baseVars, lockVars, payoutVars
<1>9. CASE UNCHANGED vars
  BY <1>1, <1>9 DEF vars, baseVars, lockVars, payoutVars
<1>10. QED BY <1>2, <1>3, <1>4, <1>5, <1>6, <1>7, <1>8, <1>9 DEF Next

\* Only SetApprovalForAll adds an approval, of the user who calls it.
LEMMA StepKeepsApprovals ==
    UsersApprove /\ [Next]_vars => UsersApprove'
<1> SUFFICES ASSUME UsersApprove, [Next]_vars PROVE UsersApprove'
  OBVIOUS
<1>1. ASSUME UNCHANGED operatorApprovals PROVE UsersApprove'
  BY <1>1 DEF UsersApprove
<1>2. CASE Tick
  BY <1>1, <1>2 DEF Tick, tokenVars
<1>3. CASE TokenCalls
  <2>1. ASSUME NEW sender \in Users, NEW operator \in Users, NEW approved \in BOOLEAN,
               SetApprovalForAll(sender, operator, approved)
        PROVE  UsersApprove'
    BY <2>1 DEF SetApprovalForAll, UsersApprove, Addresses
  <2>2. QED BY <1>1, <1>3, <2>1 DEF TokenCalls, SafeTransferFrom, BaseSafeTransferFrom,
            SafeBatchTransferFrom, BaseSafeBatchTransferFrom, Install
<1>4. CASE SalaryCalls
  BY <1>1, <1>4 DEF SalaryCalls, MintSalary, MintReturns, RecreateCondition, Install, tokenVars
<1>5. CASE OracleCalls
  BY <1>1, <1>5 DEF OracleCalls, CreateOracle, ChangeOracleOwner, UpdateGracePeriodEnds,
     ReportNumerator, ReportNumeratorsBatch, FinishOracle, Publish, tokenVars
<1>6. CASE CollateralCalls
  <2>1. ASSUME NEW c, NEW o, NEW v, NEW from, NEW to,
               Donate(c, o, v, from, to) \/ CollateralTransfer(c, from, to, v)
        PROVE  UsersApprove'
    BY <1>1, <2>1 DEF Donate, CollateralTransfer, tokenVars
  <2>2. ASSUME NEW c, NEW o, GatherDeFiProfit(c, o) PROVE UsersApprove'
    BY <2>1, <2>2 DEF GatherDeFiProfit
  <2>3. ASSUME NEW sender, NEW c, NEW o, NEW t, Withdraw(sender, c, o, t) PROVE UsersApprove'
    BY <1>1, <2>3 DEF Withdraw, WithdrawCollateral, tokenVars
  <2>4. QED BY <1>6, <2>1, <2>2, <2>3 DEF CollateralCalls
<1>7. CASE AccountCalls
  BY <1>1, <1>7 DEF AccountCalls, PermitRestoreAccount, DispermitRestoreAccount, RestoreFunds,
     RestoreFundsBatch, baseVars, tokenVars
<1>8. CASE DAOCalls
  BY <1>1, <1>8 DEF DAOCalls, RegisterCustomer, RegisterSalary, SetDAOControl, SetDAO, Install,
     baseVars, tokenVars
<1>9. CASE UNCHANGED vars
  BY <1>1, <1>9 DEF vars, baseVars, tokenVars
<1>10. QED BY <1>2, <1>3, <1>4, <1>5, <1>6, <1>7, <1>8, <1>9 DEF Next

\* Where scores are reported for conditions only, nothing else has one.
LEMMA StepKeepsScored ==
    Inv /\ (Scored \subseteq Conditions) /\ ConditionsScored /\ [Next]_vars => ConditionsScored'
<1> SUFFICES ASSUME Inv, Scored \subseteq Conditions, ConditionsScored, [Next]_vars
             PROVE  ConditionsScored'
  OBVIOUS
<1>1. ASSUME UNCHANGED payoutNumerators PROVE ConditionsScored'
  BY <1>1 DEF ConditionsScored
<1>2. payoutNumerators \in [Oracles -> [Tokens -> Nat]]
  BY DEF Inv, TypeOK, BidTypeOK
<1>3. ASSUME NEW o \in Oracles, NEW row, payoutNumerators' = [payoutNumerators EXCEPT ![o] = row],
             \A t \in Tokens \ Conditions : row[t] = 0
      PROVE  ConditionsScored'
  BY <1>2, <1>3 DEF ConditionsScored
<1>4. CASE Tick /\ UNCHANGED bidVars
  BY <1>1, <1>4 DEF bidVars
<1>5. CASE TokenCalls
  BY <1>1, <1>5 DEF TokenCalls, SafeTransferFrom, BaseSafeTransferFrom,
     SafeBatchTransferFrom, BaseSafeBatchTransferFrom, Install, bidVars
<1>6. CASE SalaryCalls
  BY <1>1, <1>6 DEF SalaryCalls, MintSalary, MintReturns, RecreateCondition, Install, bidVars
<1>7. CASE OracleCalls
  <2>1. ASSUME NEW sender \in Users, NEW o \in Oracles, NEW t \in Scored, NEW m \in Scores,
               ReportNumerator(sender, o, t, m)
        PROVE  ConditionsScored'
    <3> DEFINE row == [payoutNumerators[o] EXCEPT ![t] = m]
    <3>1. payoutNumerators' = [payoutNumerators EXCEPT ![o] = row]
      BY <2>1 DEF ReportNumerator, Publish, UpdateNumerator, Market
    <3>2. \A x \in Tokens \ Conditions : row[x] = 0
      BY <1>2, <2>1 DEF ConditionsScored
    <3> HIDE DEF row
    <3>3. QED BY <1>3, <3>1, <3>2
  <2>2. ASSUME NEW sender \in Users, NEW o \in Oracles, NEW t1 \in Scored, NEW t2 \in Scored,
               NEW m1 \in Scores, NEW m2 \in Scores,
               ReportNumeratorsBatch(sender, o, t1, m1, t2, m2)
        PROVE  ConditionsScored'
    <3> DEFINE row == [[payoutNumerators[o] EXCEPT ![t1] = m1] EXCEPT ![t2] = m2]
    <3>1. payoutNumerators' = [payoutNumerators EXCEPT ![o] = row]
      BY <2>2 DEF ReportNumeratorsBatch, Publish, UpdateNumerator, Market
    <3>2. \A x \in Tokens \ Conditions : row[x] = 0
      BY <1>2, <2>2 DEF ConditionsScored
    <3> HIDE DEF row
    <3>3. QED BY <1>3, <3>1, <3>2
  <2>3. QED BY <1>1, <1>7, <2>1, <2>2 DEF OracleCalls, FinishOracle, bidVars
<1>8. CASE CollateralCalls
  BY <1>1, <1>8 DEF CollateralCalls, Withdraw, bidVars
<1>9. CASE AccountCalls
  BY <1>1, <1>9 DEF AccountCalls, PermitRestoreAccount, DispermitRestoreAccount, RestoreFunds,
     RestoreFundsBatch, baseVars, bidVars
<1>10. CASE DAOCalls
  BY <1>1, <1>10 DEF DAOCalls, RegisterCustomer, RegisterSalary, SetDAOControl, SetDAO, Install,
     baseVars, bidVars
<1>11. CASE UNCHANGED vars
  BY <1>1, <1>11 DEF vars, baseVars, bidVars
<1>12. QED BY <1>4, <1>5, <1>6, <1>7, <1>8, <1>9, <1>10, <1>11 DEF Next

\* After the grace period nothing is paid, and nothing recorded: withdrawCollateral
\* divides by usersWithdrewInFirstRound, which only a withdrawal after the grace
\* period would change.
THEOREM SecondRoundNeverStarts == Spec => []FirstRoundOnly
<1>1. Init => FirstRoundOnly
  BY DEF Init, LockInit, FirstRoundOnly
<1>2. QED BY <1>1, StepKeepsFirstRound, PTL DEF Spec

\* What holds with the payments covered, where scores are of conditions.
PayoutInv ==
    /\ Inv
    /\ DenominatorIsSum
    /\ Conserved(Ledger, totals)
    /\ LinksBlank
    /\ UsersApprove
    /\ FirstRoundOnly
    /\ ConditionsScored
    /\ Covered

\* At first nothing was paid.
LEMMA InitCovered == Init => PayoutInv
<1> SUFFICES ASSUME Init PROVE PayoutInv
  OBVIOUS
<1>1. Inv /\ Conserved(Ledger, totals) /\ LinksBlank
  BY InitKeeps, InitConserved, InitBlank
<1>2. DenominatorIsSum
  BY InitSums
<1>3. UsersApprove /\ FirstRoundOnly /\ ConditionsScored
  BY DEF Init, TokenInit, LockInit, BidInit, UsersApprove, FirstRoundOnly, ConditionsScored
<1>4. Covered
  <2> DEFINE G == [t \in Tokens |-> [u \in Users |-> 0]]
  <2>1. G \in [Tokens -> [Users -> Nat]]
    OBVIOUS
  <2>2. Ledger.maxConditionId = 0
    BY DEF Init, LockInit, Ledger
  <2> HIDE DEF G
  <2>3. Entitled(Ledger, totals, G)
    BY <2>1, <2>2 DEF Entitled
  <2>4. PaymentsDue(G)
    BY DEF Init, LockInit, PaymentsDue
  <2>5. QED BY <2>3, <2>4 DEF Covered
<1>5. QED BY <1>1, <1>2, <1>3, <1>4 DEF PayoutInv

\* Payments stay covered by every call of the contract, when nothing is minted late.
LEMMA PayoutStep ==
    ASSUME Scored \subseteq Conditions
    PROVE  PayoutInv /\ [Next /\ NoLateMint]_vars => PayoutInv'
<1> SUFFICES ASSUME PayoutInv, [Next /\ NoLateMint]_vars PROVE PayoutInv'
  OBVIOUS
<1>1. Inv'
  BY NextKeeps DEF PayoutInv
<1>2. /\ DenominatorIsSum' /\ Conserved(Ledger, totals)' /\ LinksBlank'
  BY <1>1, StepKeepsSums, StepConserves, StepKeepsBlank DEF PayoutInv
<1>3. UsersApprove' /\ FirstRoundOnly' /\ ConditionsScored'
  BY StepKeepsApprovals, StepKeepsFirstRound, StepKeepsScored DEF PayoutInv
<1>4. Covered'
  <2>1. CASE Next /\ NoLateMint
    BY <1>1, <2>1, StepCovers DEF PayoutInv
  <2>2. CASE UNCHANGED vars
    <3>1. UNCHANGED <<baseVars>>
      BY <2>2 DEF vars
    <3>2. Ledger' = Ledger /\ totals' = totals
      BY <3>1 DEF Ledger, baseVars, tokenVars, lockVars, conditionVars, salaryVars, chainVars
    <3>3. PICK G : Entitled(Ledger, totals, G) /\ PaymentsDue(G)
      BY DEF PayoutInv, Covered
    <3>4. Entitled(Ledger, totals, G)'
      BY <3>2, <3>3 DEF Entitled
    <3>5. ASSUME NEW o \in Oracles, NEW u \in Users PROVE WeightOf(G, o, u)' = WeightOf(G, o, u)
      BY <3>1 DEF WeightOf, Weight, Counted, RewardShare, baseVars, tokenVars, lockVars, payoutVars,
                  bidVars
    <3>6. PaymentsDue(G)'
      BY <3>1, <3>3, <3>5 DEF PaymentsDue, Due, baseVars, lockVars, payoutVars, bidVars
    <3>7. QED BY <3>4, <3>6 DEF Covered
  <2>3. QED BY <2>1, <2>2
<1>5. QED BY <1>1, <1>2, <1>3, <1>4 DEF PayoutInv

\* The calls of a market are calls of the contract.
LEMMA MarketIsNext == [MarketNext /\ NoLateMint]_vars => [Next /\ NoLateMint]_vars
<1> SUFFICES ASSUME MarketNext, NoLateMint PROVE [Next /\ NoLateMint]_vars
  OBVIOUS
<1>1. ASSUME DonatedToContractNext PROVE [Next]_vars
  BY <1>1, DonatedToContractIsNext
<1>2. ASSUME ConditionalTransfers PROVE Next
  <2>1. PICK sender \in Users, to \in Addresses, n \in ConditionIds, v \in Amounts :
           SafeTransferFrom(sender, sender, to, Condition(n), v) /\ Rest(<<>>)
    BY <1>2 DEF ConditionalTransfers
  <2>2. sender \in Addresses /\ Condition(n) \in Tokens
    BY TokenKinds DEF Addresses
  <2>3. TokenCalls /\ UNCHANGED <<accountVars, daoVars>>
    BY <2>1, <2>2 DEF TokenCalls, Rest
  <2>4. QED BY <2>3 DEF Next
<1>3. QED BY <1>1, <1>2 DEF MarketNext, DonatedToContractNext

\* What an oracle's ecosystem pays was donated to it, by any calls and however often
\* the grace period is moved, where scores are of conditions and no salary is minted
\* once an oracle has finished (withdrawCollateral, _collateralOwingBase).
THEOREM PaymentsWithinDonations ==
    ASSUME Scored \subseteq Conditions
    PROVE  Init /\ [][Next /\ NoLateMint]_vars => []PaidWithinDonations
<1>1. PayoutInv => PaidWithinDonations
  BY DueIsDonated DEF PayoutInv, Covered
<1>2. QED BY <1>1, InitCovered, PayoutStep, PTL

\* The same of the life of a market.
THEOREM MarketPaysWithinDonations ==
    ASSUME Scored \subseteq Conditions
    PROVE  FixedSupplySpec => []PaidWithinDonations
BY PaymentsWithinDonations, MarketIsNext, PTL DEF FixedSupplySpec
=============================================================================
