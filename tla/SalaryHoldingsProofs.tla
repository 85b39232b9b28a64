------------------------ MODULE SalaryHoldingsProofs ------------------------
(***************************************************************************)
(* Theorems about SalaryWithDAO that speak of sums: the scores of an oracle,  *)
(* what all accounts hold of the tokens of a chain, and what was paid out of  *)
(* a collateral; and of steps: who gains tokens from whom, and who loses      *)
(* holdings.                                                                  *)
(***************************************************************************)
EXTENDS SalaryProofs, MCSalary, FiniteSums

\* There are finitely many addresses and tokens.
LEMMA AddressesFinite == IsFiniteSet(Addresses)
<1>1. IsFiniteSet({This, Zero})
  <2>1. IsFiniteSet({This}) /\ {This} \cup {Zero} = {This, Zero}
    BY FS_Singleton
  <2>2. QED BY <2>1, FS_AddElement
<1>2. QED BY <1>1, FiniteAssumption, FS_Union DEF FiniteAssumption, Addresses

\* There are finitely many tokens, so that a sum over them is defined.
LEMMA TokensFinite == IsFiniteSet(Tokens)
<1> DEFINE Conditions == {Condition(n) : n \in ConditionIds}
           Shared == {PerOracle(c, o) : c \in Collaterals, o \in Oracles}
           Counted == {Donated(c) : c \in Collaterals}
<1>1. IsFiniteSet(ConditionIds) /\ IsFiniteSet(Oracles) /\ IsFiniteSet(Collaterals)
  BY FS_Interval, BoundAssumption, FiniteAssumption
  DEF BoundAssumption, FiniteAssumption, ConditionIds, Oracles
<1>2. IsFiniteSet(Conditions)
  <2> DEFINE f == [n \in ConditionIds |-> Condition(n)]
  <2>1. f \in Surjection(ConditionIds, Conditions)
    BY DEF Surjection
  <2>2. QED BY <1>1, <2>1, FS_Surjection
<1>3. IsFiniteSet(Counted)
  <2> DEFINE f == [c \in Collaterals |-> Donated(c)]
  <2>1. f \in Surjection(Collaterals, Counted)
    BY DEF Surjection
  <2>2. QED BY <1>1, <2>1, FS_Surjection
<1>4. IsFiniteSet(Shared)
  <2> DEFINE Pairs == Collaterals \X Oracles
             f == [p \in Pairs |-> PerOracle(p[1], p[2])]
  <2>1. IsFiniteSet(Pairs)
    BY <1>1, FS_Product
  <2>2. \A p \in Pairs : f[p] \in Shared
    OBVIOUS
  <2>3. \A t \in Shared : \E p \in Pairs : f[p] = t
    <3>1. SUFFICES ASSUME NEW c \in Collaterals, NEW o \in Oracles
                   PROVE  \E p \in Pairs : f[p] = PerOracle(c, o)
      OBVIOUS
    <3>2. <<c, o>> \in Pairs /\ f[<<c, o>>] = PerOracle(c, o)
      OBVIOUS
    <3>3. QED BY <3>2
  <2>4. f \in Surjection(Pairs, Shared)
    <3>1. f \in [Pairs -> Shared]
      OBVIOUS
    <3> HIDE DEF f, Pairs, Shared
    <3>2. QED BY <2>3, <3>1 DEF Surjection
  <2> HIDE DEF f, Pairs, Shared
  <2>5. QED BY <2>1, <2>4, FS_Surjection
<1>5. Tokens = (Conditions \cup Shared) \cup Counted
  BY DEF Tokens
<1> HIDE DEF Conditions, Shared, Counted
<1>6. IsFiniteSet(Conditions \cup Shared)
  BY <1>2, <1>4, FS_Union
<1>7. QED BY <1>3, <1>5, <1>6, FS_Union

-----------------------------------------------------------------------------
(* The scores of an oracle. *)

MarketType == [sum : Nat, score : [Tokens -> Nat]]

\* A score that SafeMath lets through keeps the denominator the sum of the
\* numerators.
LEMMA UpdateKeepsSum ==
    ASSUME NEW m \in MarketType, NEW t \in Tokens, NEW v \in Nat,
           m.sum = SumFunction(m.score), CanUpdate(m, t, v)
    PROVE  /\ UpdateNumerator(m, t, v) \in MarketType
           /\ UpdateNumerator(m, t, v).sum = SumFunction(UpdateNumerator(m, t, v).score)
<1> DEFINE score == [m.score EXCEPT ![t] = v]
           r == UpdateNumerator(m, t, v)
<1>1. m.sum \in Nat /\ m.score \in [Tokens -> Nat] /\ m.score[t] \in Nat
  BY DEF MarketType
<1>2. r = [m EXCEPT !.sum = m.sum + v - m.score[t], !.score = score]
  BY DEF MarketType, UpdateNumerator
<1>3. m.sum + v - m.score[t] \in Nat
  BY <1>1 DEF CanUpdate
<1>4. score \in [Tokens -> Nat] /\ score[t] = v /\ \A x \in Tokens \ {t} : score[x] = m.score[x]
  BY <1>1
<1> HIDE DEF score
<1>5. r \in MarketType /\ r.sum = m.sum + v - m.score[t] /\ r.score = score
  BY <1>2, <1>3, <1>4 DEF MarketType
<1>6. /\ SumFunction(m.score) = SumFunctionOnSet(m.score, Tokens)
      /\ SumFunction(score) = SumFunctionOnSet(score, Tokens)
  BY <1>1, <1>4 DEF SumFunction
<1>7. SumFunctionOnSet(score, Tokens) = SumFunctionOnSet(m.score, Tokens) - m.score[t] + score[t]
  <2> DEFINE f == m.score
  <2>1. \A x \in Tokens : f[x] \in Int /\ score[x] \in Int
    BY <1>1, <1>4
  <2>2. \A x \in Tokens \ {t} : score[x] = f[x]
    BY <1>4
  <2> HIDE DEF f
  <2>3. SumFunctionOnSet(score, Tokens) = SumFunctionOnSet(f, Tokens) - f[t] + score[t]
    BY <2>1, <2>2, TokensFinite, SumUpdate
  <2>4. QED BY <2>3 DEF f
<1> HIDE DEF r
<1>8. r.sum = SumFunction(r.score)
  BY <1>1, <1>4, <1>5, <1>6, <1>7
<1>9. QED BY <1>5, <1>8 DEF r

\* Publishing a market with the right sum.
LEMMA PublishKeepsSums ==
    ASSUME Inv, DenominatorIsSum, NEW o \in Oracles, NEW m \in MarketType,
           m.sum = SumFunction(m.score), Publish(o, m)
    PROVE  DenominatorIsSum'
<1>1. /\ payoutNumerators \in [Oracles -> [Tokens -> Nat]]
      /\ payoutDenominators \in [Oracles -> Nat]
  BY DEF Inv, TypeOK, BidTypeOK
<1>2. \A p \in Oracles : /\ payoutDenominators'[p] = IF p = o THEN m.sum ELSE payoutDenominators[p]
                         /\ payoutNumerators'[p] = IF p = o THEN m.score ELSE payoutNumerators[p]
  BY <1>1 DEF Publish
<1>3. SUFFICES ASSUME NEW p \in Oracles
               PROVE  payoutDenominators'[p] = SumFunction(payoutNumerators'[p])
  BY DEF DenominatorIsSum
<1>4. CASE p = o
  BY <1>2, <1>4
<1>5. CASE p # o
  BY <1>2, <1>5 DEF DenominatorIsSum
<1>6. QED BY <1>4, <1>5

\* No call breaks the sum of an oracle.
LEMMA StepKeepsSums == Inv /\ DenominatorIsSum /\ [Next]_vars => DenominatorIsSum'
<1> SUFFICES ASSUME Inv, DenominatorIsSum, [Next]_vars PROVE DenominatorIsSum'
  OBVIOUS
<1>1. ASSUME NEW o \in Oracles PROVE Market(o) \in MarketType /\ Market(o).sum = SumFunction(Market(o).score)
  BY DEF Inv, TypeOK, BidTypeOK, Market, MarketType, DenominatorIsSum
<1>2. Scores \subseteq Nat /\ Scored \subseteq Tokens
  BY ScoreAssumption DEF ScoreAssumption
<1>3. CASE UNCHANGED <<payoutNumerators, payoutDenominators>>
  BY <1>3 DEF DenominatorIsSum
<1>4. ASSUME NEW sender \in Users, NEW o \in Oracles, NEW t \in Scored, NEW m \in Scores,
             ReportNumerator(sender, o, t, m)
      PROVE  DenominatorIsSum'
  <2> DEFINE r == UpdateNumerator(Market(o), t, m)
  <2>1. CanUpdate(Market(o), t, m) /\ Publish(o, r)
    BY <1>4 DEF ReportNumerator
  <2>2. r \in MarketType /\ r.sum = SumFunction(r.score)
    BY <1>1, <1>2, <2>1, UpdateKeepsSum
  <2> HIDE DEF r
  <2>3. QED BY <2>1, <2>2, PublishKeepsSums
<1>5. ASSUME NEW sender \in Users, NEW o \in Oracles, NEW t1 \in Scored, NEW t2 \in Scored,
             NEW m1 \in Scores, NEW m2 \in Scores,
             ReportNumeratorsBatch(sender, o, t1, m1, t2, m2)
      PROVE  DenominatorIsSum'
  <2> DEFINE first == UpdateNumerator(Market(o), t1, m1)
             r == UpdateNumerator(first, t2, m2)
  <2>1. CanUpdate(Market(o), t1, m1) /\ CanUpdate(first, t2, m2) /\ Publish(o, r)
    BY <1>5 DEF ReportNumeratorsBatch
  <2>2. first \in MarketType /\ first.sum = SumFunction(first.score)
    BY <1>1, <1>2, <2>1, UpdateKeepsSum
  <2> HIDE DEF first
  <2>3. r \in MarketType /\ r.sum = SumFunction(r.score)
    BY <1>2, <2>1, <2>2, UpdateKeepsSum
  <2> HIDE DEF r
  <2>4. QED BY <2>1, <2>3, PublishKeepsSums
<1>6. CASE OracleCalls
  <2>1. ASSUME NEW sender \in Users, NEW o \in Oracles, FinishOracle(sender, o)
        PROVE  UNCHANGED <<payoutNumerators, payoutDenominators>>
    BY <2>1 DEF FinishOracle
  <2>2. QED BY <1>3, <1>4, <1>5, <1>6, <2>1 DEF OracleCalls, bidVars
<1>7. CASE UNCHANGED bidVars
  BY <1>3, <1>7 DEF bidVars
<1>8. CASE Next /\ ~OracleCalls
  <2>1. ASSUME TokenCalls PROVE UNCHANGED bidVars
    BY <2>1 DEF TokenCalls, SafeTransferFrom, BaseSafeTransferFrom, SafeBatchTransferFrom,
       BaseSafeBatchTransferFrom, Install
  <2>2. ASSUME SalaryCalls PROVE UNCHANGED bidVars
    BY <2>2 DEF SalaryCalls, MintSalary, MintReturns, RecreateCondition, Install
  <2>3. ASSUME CollateralCalls PROVE UNCHANGED bidVars
    BY <2>3 DEF CollateralCalls, Withdraw
  <2>4. ASSUME AccountCalls PROVE UNCHANGED bidVars
    BY <2>4 DEF AccountCalls, PermitRestoreAccount, DispermitRestoreAccount, RestoreFunds,
       RestoreFundsBatch, baseVars
  <2>5. ASSUME DAOCalls PROVE UNCHANGED bidVars
    BY <2>5 DEF DAOCalls, RegisterCustomer, RegisterSalary, Install, SetDAOControl, SetDAO, baseVars
  <2>6. QED BY <1>7, <1>8, <2>1, <2>2, <2>3, <2>4, <2>5 DEF Next
<1>9. CASE UNCHANGED vars
  BY <1>7, <1>9 DEF vars, baseVars
<1>10. QED BY <1>6, <1>8, <1>9

\* At first nothing is scored, and the denominators are 0.
LEMMA InitSums == Init => DenominatorIsSum
<1> SUFFICES ASSUME Init PROVE DenominatorIsSum
  OBVIOUS
<1> DEFINE z == [t \in Tokens |-> 0]
<1>1. SumFunction(z) = 0
  <2>1. SumFunction(z) = SumFunctionOnSet(z, Tokens)
    BY DEF SumFunction
  <2>2. QED BY <2>1, TokensFinite, SumZero
<1> HIDE DEF z
<1>2. \A o \in Oracles : payoutDenominators[o] = 0 /\ payoutNumerators[o] = z
  BY DEF Init, BidInit, z
<1>3. QED BY <1>1, <1>2 DEF DenominatorIsSum

\* The denominator of an oracle is the sum of its numerators, whatever is scored
\* again and again, alone or twice in a batch (_updateNumerator).
THEOREM DenominatorsAreSums == Spec => []DenominatorIsSum
BY InitSums, StepKeepsSums, Invariance, PTL DEF Spec

-----------------------------------------------------------------------------
(* What the ledger operators do to each balance. *)

\* A transfer takes from one balance and adds to another, or to the same one.
LEMMA MoveBalances ==
    ASSUME NEW s \in LedgerType, NEW t \in Tokens, NEW from \in Addresses,
           NEW to \in Addresses, NEW v \in Nat, CanMove(s, t, from, v),
           NEW x \in Tokens, NEW a \in Addresses
    PROVE  Move(s, t, from, to, v).balances[x][a] =
             IF x = t /\ from # to /\ a = from THEN s.balances[x][a] - v
             ELSE IF x = t /\ from # to /\ a = to THEN s.balances[x][a] + v
             ELSE s.balances[x][a]
<1> DEFINE b == s.balances
           row1 == [b[t] EXCEPT ![from] = b[t][from] - v]
           row2 == [row1 EXCEPT ![to] = row1[to] + v]
<1>1. b \in [Tokens -> [Addresses -> Nat]] /\ b[t] \in [Addresses -> Nat] /\ b[t][from] \in Nat
  BY DEF LedgerType
<1>2. Move(s, t, from, to, v).balances = [b EXCEPT ![t] = row2]
  BY <1>1 DEF Move, LedgerType
<1>3. Move(s, t, from, to, v).balances[x][a] = IF x = t THEN row2[a] ELSE b[x][a]
  BY <1>1, <1>2
<1>4. row1 = [y \in Addresses |-> IF y = from THEN b[t][from] - v ELSE b[t][y]]
  BY <1>1
<1>5. row2 = [y \in Addresses |-> IF y = to THEN row1[to] + v ELSE row1[y]]
  BY <1>4
<1>6. row2[a] = IF from # to /\ a = from THEN b[t][a] - v
                ELSE IF from # to /\ a = to THEN b[t][a] + v ELSE b[t][a]
  <2>1. row2[a] = IF a = to THEN row1[to] + v ELSE row1[a]
    BY <1>5
  <2>2. row1[a] = IF a = from THEN b[t][from] - v ELSE b[t][a]
    BY <1>4
  <2>3. row1[to] = IF to = from THEN b[t][from] - v ELSE b[t][to]
    BY <1>4
  <2> HIDE DEF row1, row2
  <2>4. QED BY <1>1, <2>1, <2>2, <2>3
<1> HIDE DEF row1, row2
<1>7. QED BY <1>3, <1>6

\* A recreation moves the balance of the receiver from the first condition of the
\* chain to the new one.
LEMMA RecreateBalances ==
    ASSUME NEW s \in LedgerType, NEW n \in ConditionIds, now \in Nat,
           CanRecreate(s, n), s.firstToLastConditionInChain[n] = n, n # s.maxConditionId + 1,
           NEW x \in Tokens, NEW a \in Addresses
    PROVE  Recreate(s, n).balances[x][a] =
             IF a = s.salaryReceivers[n] /\ x = Condition(n) THEN 0
             ELSE IF a = s.salaryReceivers[n] /\ x = Condition(s.maxConditionId + 1)
               THEN s.balances[Condition(n)][a]
             ELSE s.balances[x][a]
<1> DEFINE customer == s.salaryReceivers[n]
           new == s.maxConditionId + 1
           N == NewCondition(s, customer)
           b == s.balances
           b1 == [b EXCEPT ![Condition(new)] =
                     [b[Condition(new)] EXCEPT ![customer] = b[Condition(n)][customer]]]
           b2 == [b1 EXCEPT ![Condition(n)] = [b1[Condition(n)] EXCEPT ![customer] = 0]]
<1>1. customer \in Addresses /\ new \in ConditionIds
  BY RoomForCondition DEF LedgerType, CanRecreate
<1>2. /\ Condition(n) \in Tokens /\ Condition(new) \in Tokens
      /\ Condition(n) # Condition(new)
  BY <1>1, TokenKinds, TokensDistinct
<1>3. N \in LedgerType /\ N.balances = b
  BY <1>1, NewConditionAdds DEF CanRecreate
<1>4. Recreate(s, n).balances = b2
  <2> DEFINE r1 == [N EXCEPT !.firstConditionInChain[new] = n,
                             !.balances[Condition(new)][customer] = b[Condition(n)][customer]]
  <2>1. Recreate(s, n) = [r1 EXCEPT !.balances[Condition(n)][customer] = 0,
                                    !.lastSalaryDates[new] = s.lastSalaryDates[n]]
    BY DEF Recreate
  <2> HIDE DEF N
  <2>2. r1 = [N EXCEPT !.firstConditionInChain = [@ EXCEPT ![new] = n], !.balances = b1]
    BY <1>3 DEF LedgerType
  <2> HIDE DEF r1, b1
  <2>3. QED BY <1>3, <2>1, <2>2 DEF LedgerType
<1>5. b \in [Tokens -> [Addresses -> Nat]]
  BY DEF LedgerType
<1> HIDE DEF b, customer, new
<1>6. b1[x][a] = IF a = customer /\ x = Condition(new) THEN b[Condition(n)][a] ELSE b[x][a]
  BY <1>1, <1>2, <1>5
<1>7. b1 \in [Tokens -> [Addresses -> Nat]]
  BY <1>1, <1>2, <1>5
<1> HIDE DEF b1
<1>8. b2[x][a] = IF a = customer /\ x = Condition(n) THEN 0 ELSE b1[x][a]
  BY <1>1, <1>2, <1>7
<1>9. QED BY <1>2, <1>4, <1>6, <1>8 DEF b, customer, new

\* A mint adds to one balance.
LEMMA MintBalances ==
    ASSUME NEW s \in AccountsType, NEW to \in Addresses, NEW t \in Tokens, NEW v \in Nat,
           NEW x \in Tokens, NEW a \in Addresses
    PROVE  Mint(s, to, t, v).balances[x][a] =
             IF x = t /\ a = to THEN s.balances[x][a] + v ELSE s.balances[x][a]
<1> DEFINE b == s.balances
           row == [b[t] EXCEPT ![to] = b[t][to] + v]
<1>1. b \in [Tokens -> [Addresses -> Nat]]
  BY DEF AccountsType
<1>2. Mint(s, to, t, v).balances = [b EXCEPT ![t] = row]
  BY <1>1 DEF Mint, AccountsType
<1>3. QED BY <1>1, <1>2

\* A restoration empties the old account, in favour of the new one if it differs.
LEMMA RestoreBalances ==
    ASSUME NEW b \in [Tokens -> [Addresses -> Nat]], NEW old \in Addresses,
           NEW new \in Addresses, NEW t \in Tokens
    PROVE  /\ RestoreToken(b, old, new, t) \in [Tokens -> [Addresses -> Nat]]
           /\ \A x \in Tokens, a \in Addresses :
                 RestoreToken(b, old, new, t)[x][a] =
                   IF x = t /\ a = old THEN 0
                   ELSE IF x = t /\ a = new THEN b[t][old]
                   ELSE b[x][a]
<1> DEFINE b1 == [b EXCEPT ![t] = [b[t] EXCEPT ![new] = b[t][old]]]
           b2 == [b1 EXCEPT ![t] = [b1[t] EXCEPT ![old] = 0]]
<1>1. RestoreToken(b, old, new, t) = b2
  BY DEF RestoreToken
<1>2. b1 \in [Tokens -> [Addresses -> Nat]]
  OBVIOUS
<1>3. \A x \in Tokens, a \in Addresses :
         b1[x][a] = IF x = t /\ a = new THEN b[t][old] ELSE b[x][a]
  OBVIOUS
<1> HIDE DEF b1
<1>4. b2 \in [Tokens -> [Addresses -> Nat]]
  BY <1>2
<1>5. \A x \in Tokens, a \in Addresses :
         b2[x][a] = IF x = t /\ a = old THEN 0 ELSE b1[x][a]
  BY <1>2
<1> HIDE DEF b2
<1>6. QED BY <1>1, <1>3, <1>4, <1>5

\* The same as a relation of the balances after and before.
IsRestored(d, b, old, new, t) ==
    \A x \in Tokens, a \in Addresses :
        d[x][a] = IF x = t /\ a = old THEN 0
                  ELSE IF x = t /\ a = new THEN b[t][old] ELSE b[x][a]

LEMMA RestoreRelates ==
    ASSUME NEW b \in [Tokens -> [Addresses -> Nat]], NEW old \in Addresses,
           NEW new \in Addresses, NEW t \in Tokens
    PROVE  /\ RestoreToken(b, old, new, t) \in [Tokens -> [Addresses -> Nat]]
           /\ IsRestored(RestoreToken(b, old, new, t), b, old, new, t)
BY RestoreBalances DEF IsRestored

-----------------------------------------------------------------------------
(* What all accounts hold of a chain. *)

ChainOf(s, n) == {m \in 1..s.maxConditionId : s.firstConditionInChain[m] = n}

HeldBy(b) == [m \in ConditionIds |-> SumFunction(b[Condition(m)])]

MintedBy(tot) == [m \in ConditionIds |-> tot[Condition(m)]]

\* Nobody holds a condition that was not created.
Unheld(s) ==
    \A n \in ConditionIds, a \in Addresses :
        n \notin 1..s.maxConditionId => s.balances[Condition(n)][a] = 0

\* No more is held of a chain than was minted for it.
Conserved(s, tot) ==
    /\ Unheld(s)
    /\ \A n \in ConditionIds :
          SumFunctionOnSet(HeldBy(s.balances), ChainOf(s, n))
             <= SumFunctionOnSet(MintedBy(tot), ChainOf(s, n))

\* The chains are finite sets of conditions.
LEMMA ChainOfTyped ==
    ASSUME NEW s, s.maxConditionId \in ConditionIds, NEW n
    PROVE  IsFiniteSet(ChainOf(s, n)) /\ ChainOf(s, n) \subseteq ConditionIds
<1>1. MaxCondition \in Nat /\ s.maxConditionId \in 0..MaxCondition
  BY BoundAssumption DEF BoundAssumption, ConditionIds
<1>2. 1..s.maxConditionId \subseteq ConditionIds
  BY <1>1 DEF ConditionIds
<1>3. IsFiniteSet(1..s.maxConditionId)
  BY <1>1, FS_Interval
<1>4. ChainOf(s, n) \in SUBSET (1..s.maxConditionId)
  BY DEF ChainOf
<1>5. QED BY <1>2, <1>3, <1>4, FS_Subset

\* A holding is the sum of the balances, a natural number.
LEMMA HeldTyped ==
    ASSUME NEW b \in [Tokens -> [Addresses -> Nat]], NEW m \in ConditionIds
    PROVE  /\ HeldBy(b)[m] = SumFunctionOnSet(b[Condition(m)], Addresses)
           /\ HeldBy(b)[m] \in Nat
           /\ b[Condition(m)] \in [Addresses -> Nat]
<1>1. b[Condition(m)] \in [Addresses -> Nat]
  BY TokenKinds
<1>2. HeldBy(b)[m] = SumFunctionOnSet(b[Condition(m)], Addresses)
  BY <1>1 DEF HeldBy, SumFunction
<1>3. SumFunctionOnSet(b[Condition(m)], Addresses) \in Nat
  BY <1>1, AddressesFinite, SumIsNat
<1>4. QED BY <1>1, <1>2, <1>3

\* So is what was minted of a condition.
LEMMA MintedTyped ==
    ASSUME NEW tot \in [Tokens -> Nat], NEW m \in ConditionIds
    PROVE  MintedBy(tot)[m] = tot[Condition(m)] /\ MintedBy(tot)[m] \in Nat
BY TokenKinds DEF MintedBy

\* Accounts of equal balances hold the same.
LEMMA HeldKept ==
    ASSUME NEW b \in [Tokens -> [Addresses -> Nat]], NEW d \in [Tokens -> [Addresses -> Nat]],
           NEW n \in ConditionIds,
           \A a \in Addresses : d[Condition(n)][a] = b[Condition(n)][a]
    PROVE  HeldBy(d)[n] = HeldBy(b)[n]
<1>1. b[Condition(n)] = d[Condition(n)]
  BY TokenKinds
<1>2. QED BY <1>1, HeldTyped

\* A holding changes by what the balance of one account does.
LEMMA HeldChangesAt ==
    ASSUME NEW b \in [Tokens -> [Addresses -> Nat]], NEW d \in [Tokens -> [Addresses -> Nat]],
           NEW n \in ConditionIds, NEW c \in Addresses,
           \A a \in Addresses \ {c} : d[Condition(n)][a] = b[Condition(n)][a]
    PROVE  HeldBy(d)[n] = HeldBy(b)[n] - b[Condition(n)][c] + d[Condition(n)][c]
<1> DEFINE f == b[Condition(n)]
           g == d[Condition(n)]
<1>1. /\ HeldBy(b)[n] = SumFunctionOnSet(f, Addresses)
      /\ HeldBy(d)[n] = SumFunctionOnSet(g, Addresses)
  BY HeldTyped
<1>2. f \in [Addresses -> Nat] /\ g \in [Addresses -> Nat]
  BY HeldTyped
<1>3. \A a \in Addresses \ {c} : g[a] = f[a]
  OBVIOUS
<1> HIDE DEF f, g
<1>4. \A a \in Addresses : f[a] \in Int /\ g[a] \in Int
  BY <1>2
<1>5. SumFunctionOnSet(g, Addresses) = SumFunctionOnSet(f, Addresses) - f[c] + g[c]
  BY <1>3, <1>4, AddressesFinite, SumUpdate
<1>6. QED BY <1>1, <1>5 DEF f, g

\* Nothing is held where no account has a balance.
LEMMA HeldNothing ==
    ASSUME NEW b \in [Tokens -> [Addresses -> Nat]], NEW n \in ConditionIds,
           \A a \in Addresses : b[Condition(n)][a] = 0
    PROVE  HeldBy(b)[n] = 0
<1> DEFINE f == b[Condition(n)]
<1>1. HeldBy(b)[n] = SumFunctionOnSet(f, Addresses)
  BY HeldTyped
<1>2. \A a \in Addresses : f[a] = 0
  OBVIOUS
<1> HIDE DEF f
<1>3. QED BY <1>1, <1>2, AddressesFinite, SumZero

\* A ledger of the same chains, of which no token is held more than was minted
\* since, is conserved too.
LEMMA GrowthConserves ==
    ASSUME NEW s \in LedgerType, NEW r \in LedgerType,
           NEW tot \in [Tokens -> Nat], NEW more \in [Tokens -> Nat],
           r.maxConditionId = s.maxConditionId,
           r.firstConditionInChain = s.firstConditionInChain,
           Conserved(s, tot),
           \A n \in ConditionIds : HeldBy(r.balances)[n] - HeldBy(s.balances)[n]
                                     <= MintedBy(more)[n] - MintedBy(tot)[n],
           Unheld(r)
    PROVE  Conserved(r, more)
<1>1. /\ s.balances \in [Tokens -> [Addresses -> Nat]] /\ s.maxConditionId \in ConditionIds
      /\ r.balances \in [Tokens -> [Addresses -> Nat]]
  BY DEF LedgerType
<1>2. \A n : ChainOf(r, n) = ChainOf(s, n)
  BY DEF ChainOf
<1>3. ASSUME NEW n \in ConditionIds
      PROVE  SumFunctionOnSet(HeldBy(r.balances), ChainOf(s, n))
               <= SumFunctionOnSet(MintedBy(more), ChainOf(s, n))
  <2> DEFINE C == ChainOf(s, n)
             f == HeldBy(s.balances)
             g == HeldBy(r.balances)
             h == MintedBy(tot)
             k == MintedBy(more)
  <2>1. IsFiniteSet(C) /\ C \subseteq ConditionIds
    BY <1>1, ChainOfTyped
  <2>2. \A m \in ConditionIds : f[m] \in Nat /\ g[m] \in Nat /\ h[m] \in Nat /\ k[m] \in Nat
    BY <1>1, HeldTyped, MintedTyped
  <2>3. \A m \in ConditionIds : g[m] - f[m] <= k[m] - h[m]
    OBVIOUS
  <2>4. SumFunctionOnSet(f, C) <= SumFunctionOnSet(h, C)
    BY DEF Conserved
  <2> HIDE DEF C, f, g, h, k
  <2>5. /\ \A m \in C : f[m] \in Int /\ g[m] \in Int /\ h[m] \in Int /\ k[m] \in Int
        /\ \A m \in C : g[m] - f[m] <= k[m] - h[m]
    BY <2>1, <2>2, <2>3
  <2>6. SumFunctionOnSet(g, C) - SumFunctionOnSet(f, C)
          <= SumFunctionOnSet(k, C) - SumFunctionOnSet(h, C)
    BY <2>1, <2>5, SumGrowth
  <2>7. /\ SumFunctionOnSet(f, C) \in Int /\ SumFunctionOnSet(g, C) \in Int
        /\ SumFunctionOnSet(h, C) \in Int /\ SumFunctionOnSet(k, C) \in Int
    BY <2>1, <2>5, SumIsInt
  <2>8. SumFunctionOnSet(g, C) <= SumFunctionOnSet(k, C)
    BY <2>4, <2>6, <2>7
  <2>9. QED BY <2>8 DEF g, C, k
<1>4. QED BY <1>2, <1>3 DEF Conserved

\* A transfer changes no sum.
LEMMA MoveConserves ==
    ASSUME NEW s \in LedgerType, NEW tot \in [Tokens -> Nat], Conserved(s, tot),
           NEW t \in Tokens, NEW from \in Addresses, NEW to \in Addresses, NEW v \in Nat, CanMove(s, t, from, v)
    PROVE  Conserved(Move(s, t, from, to, v), tot)
<1> DEFINE r == Move(s, t, from, to, v)
<1>1. r \in LedgerType /\ SameChains(s, r)
  BY MoveTyped
<1>2. /\ s.balances \in [Tokens -> [Addresses -> Nat]]
      /\ r.balances \in [Tokens -> [Addresses -> Nat]]
      /\ s.balances[t][from] >= v
  BY <1>1 DEF LedgerType, CanMove
<1>3. \A x \in Tokens, a \in Addresses :
         r.balances[x][a] = IF x = t /\ from # to /\ a = from THEN s.balances[x][a] - v
                            ELSE IF x = t /\ from # to /\ a = to THEN s.balances[x][a] + v
                            ELSE s.balances[x][a]
  BY MoveBalances
<1> HIDE DEF r
<1>4. ASSUME NEW n \in ConditionIds PROVE HeldBy(r.balances)[n] <= HeldBy(s.balances)[n]
  <2> DEFINE x == Condition(n)
             b == s.balances
             d == r.balances
             mid == [b EXCEPT ![x] = [b[x] EXCEPT ![from] = b[x][from] - v]]
  <2>1. x \in Tokens /\ b[x][from] \in Nat /\ b[x][to] \in Nat /\ HeldBy(b)[n] \in Nat
    BY <1>2, TokenKinds, HeldTyped
  <2>2. CASE ~(x = t /\ from # to)
    <3>1. \A a \in Addresses : d[x][a] = b[x][a]
      BY <1>3, <2>1, <2>2
    <3> HIDE DEF x, b, d
    <3>2. HeldBy(d)[n] = HeldBy(b)[n]
      BY <1>2, <3>1, HeldKept DEF b, d, x
    <3>3. QED BY <2>1, <3>2 DEF b, d
  <2>3. CASE x = t /\ from # to
    <3>1. /\ mid \in [Tokens -> [Addresses -> Nat]]
          /\ mid[x][from] = b[x][from] - v
          /\ mid[x][to] = b[x][to]
          /\ \A a \in Addresses \ {from} : mid[x][a] = b[x][a]
      BY <1>2, <2>1, <2>3
    <3> HIDE DEF mid
    <3>2. d[x][to] = b[x][to] + v /\ \A a \in Addresses \ {to} : d[x][a] = mid[x][a]
      BY <1>3, <2>1, <2>3, <3>1
    <3>3. HeldBy(mid)[n] = HeldBy(b)[n] - b[x][from] + mid[x][from]
      BY <1>2, <3>1, HeldChangesAt
    <3>4. HeldBy(d)[n] = HeldBy(mid)[n] - mid[x][to] + d[x][to]
      BY <1>2, <3>1, <3>2, HeldChangesAt
    <3>5. HeldBy(mid)[n] \in Nat
      BY <3>1, HeldTyped
    <3> HIDE DEF x, b, d
    <3>6. QED BY <2>1, <3>1, <3>2, <3>3, <3>4, <3>5 DEF b, d
  <2>4. QED BY <2>2, <2>3
<1>5. Unheld(r)
  <2>1. SUFFICES ASSUME NEW n \in ConditionIds, NEW a \in Addresses, n \notin 1..s.maxConditionId
                 PROVE  r.balances[Condition(n)][a] = 0
    BY <1>1 DEF SameChains, Unheld
  <2>2. Condition(n) \in Tokens
    BY TokenKinds
  <2>3. \A c \in Addresses : s.balances[Condition(n)][c] = 0
    BY <2>1 DEF Conserved, Unheld
  <2>4. Condition(n) = t => v = 0
    BY <1>2, <2>3
  <2>5. QED BY <1>3, <2>2, <2>3, <2>4
<1>6. Conserved(r, tot)
  <2>1. \A n \in ConditionIds : HeldBy(r.balances)[n] - HeldBy(s.balances)[n]
                                  <= MintedBy(tot)[n] - MintedBy(tot)[n]
    <3>1. SUFFICES ASSUME NEW n \in ConditionIds
                   PROVE  HeldBy(r.balances)[n] - HeldBy(s.balances)[n]
                            <= MintedBy(tot)[n] - MintedBy(tot)[n]
      OBVIOUS
    <3>2. /\ HeldBy(r.balances)[n] \in Nat /\ HeldBy(s.balances)[n] \in Nat
          /\ MintedBy(tot)[n] \in Nat
      BY <1>2, HeldTyped, MintedTyped
    <3>3. QED BY <1>4, <3>2
  <2>2. QED BY <1>1, <1>5, <2>1, GrowthConserves DEF SameChains
<1>7. QED BY <1>6 DEF r

\* From s to r, the new condition of the chain of `first` got nothing, or what the
\* first condition lost; other holdings are the same.
NewHeld(s, r, first) ==
    LET new == s.maxConditionId + 1
        h == HeldBy(s.balances)
        k == HeldBy(r.balances)
    IN  /\ \A m \in ConditionIds \ {first, new} : k[m] = h[m]
        /\ \/ first = new /\ k[new] = 0
           \/ first \in ChainOf(s, first) /\ k[new] + k[first] = h[first]

\* One more condition keeps a ledger conserved.
LEMMA OneMoreConserves ==
    ASSUME NEW s \in LedgerType, NEW r \in LedgerType, NEW tot \in [Tokens -> Nat],
           NEW customer, NEW first \in ConditionIds, NEW date,
           OneMore(s, r, customer, first, date), Conserved(s, tot), Blank(s, tot),
           NewHeld(s, r, first), Unheld(r)
    PROVE  Conserved(r, tot)
<1> DEFINE new == s.maxConditionId + 1
           h == HeldBy(s.balances)
           k == HeldBy(r.balances)
           w == MintedBy(tot)
           C(n) == ChainOf(s, n)
           D(n) == ChainOf(r, n)
<1>1. /\ s.maxConditionId \in ConditionIds /\ new \in ConditionIds
      /\ r.maxConditionId = new /\ r.maxConditionId \in ConditionIds
      /\ s.balances \in [Tokens -> [Addresses -> Nat]]
      /\ r.balances \in [Tokens -> [Addresses -> Nat]]
      /\ s.firstConditionInChain \in [ConditionIds -> ConditionIds]
  BY DEF LedgerType, OneMore
<1>2. /\ 1..r.maxConditionId = (1..s.maxConditionId) \cup {new}
      /\ new \notin 1..s.maxConditionId
      /\ 1..s.maxConditionId \subseteq ConditionIds
  <2>1. s.maxConditionId \in 0..MaxCondition /\ MaxCondition \in Nat
    BY <1>1, BoundAssumption DEF BoundAssumption, ConditionIds
  <2>2. r.maxConditionId = s.maxConditionId + 1
    BY <1>1
  <2>3. QED BY <2>1, <2>2 DEF ConditionIds
<1>3. \A n \in ConditionIds : ChainOf(s, n) \subseteq 1..s.maxConditionId
  BY DEF ChainOf
<1>4. \A m \in ConditionIds : r.firstConditionInChain[m] =
         IF m = new THEN first ELSE s.firstConditionInChain[m]
  BY <1>1 DEF OneMore
<1>5. \A n \in ConditionIds : /\ D(n) = IF n = first THEN C(n) \cup {new} ELSE C(n)
                              /\ new \notin C(n)
                              /\ C(n) \subseteq ConditionIds
                              /\ IsFiniteSet(C(n)) /\ IsFiniteSet(D(n))
  <2>1. ASSUME NEW n \in ConditionIds
        PROVE  D(n) = IF n = first THEN C(n) \cup {new} ELSE C(n)
    <3> HIDE DEF new
    <3>1. QED BY <1>1, <1>2, <1>4 DEF ChainOf
  <2>2. \A n \in ConditionIds : new \notin C(n)
    BY <1>2, <1>3
  <2>3. \A n \in ConditionIds : C(n) \subseteq ConditionIds /\ IsFiniteSet(C(n)) /\ IsFiniteSet(D(n))
    BY <1>1, ChainOfTyped
  <2> HIDE DEF C, D
  <2>4. QED BY <2>1, <2>2, <2>3
<1>6. \A m \in ConditionIds : h[m] \in Nat /\ k[m] \in Nat /\ w[m] \in Nat
  BY <1>1, HeldTyped, MintedTyped
<1>7. w[new] = 0
  BY <1>1, <1>2, MintedTyped DEF Blank
<1>8. \A n \in ConditionIds : SumFunctionOnSet(h, C(n)) <= SumFunctionOnSet(w, C(n))
  BY DEF Conserved
<1>9. /\ \A m \in ConditionIds \ {first, new} : k[m] = h[m]
      /\ \/ first = new /\ k[new] = 0
         \/ first \in C(first) /\ k[new] + k[first] = h[first]
  BY DEF NewHeld
<1> HIDE DEF new, h, k, w, C, D
<1>10. ASSUME NEW n \in ConditionIds
       PROVE  SumFunctionOnSet(k, D(n)) <= SumFunctionOnSet(w, D(n))
  <2> DEFINE S == C(n)
  <2>1. IsFiniteSet(S) /\ S \subseteq ConditionIds /\ new \notin S
    BY <1>5
  <2>2. \A m \in S : h[m] \in Int /\ k[m] \in Int /\ w[m] \in Int
    BY <1>6, <2>1
  <2>3. SumFunctionOnSet(k, S) \in Int /\ SumFunctionOnSet(h, S) \in Int /\ SumFunctionOnSet(w, S) \in Int
    BY <2>1, <2>2, SumIsInt
  <2>4. SumFunctionOnSet(h, S) <= SumFunctionOnSet(w, S)
    BY <1>8
  <2>5. CASE n # first
    <3>1. first \notin S
      BY <1>9, <2>1, <2>5 DEF C, ChainOf
    <3>2. \A m \in S : h[m] = k[m]
      BY <1>9, <2>1, <3>1
    <3>3. SumFunctionOnSet(h, S) = SumFunctionOnSet(k, S)
      BY <2>1, <2>2, <3>2, SumEqual
    <3>4. D(n) = S
      BY <1>5, <2>5
    <3>5. QED BY <2>4, <3>3, <3>4
  <2>6. CASE n = first
    <3>1. D(n) = S \cup {new} /\ D(n) \ {new} = S /\ new \in D(n) /\ IsFiniteSet(D(n))
      BY <1>5, <2>1, <2>6
    <3>2. \A m \in D(n) : k[m] \in Int /\ w[m] \in Int
      BY <1>1, <1>6, <2>1, <3>1
    <3>3. SumFunctionOnSet(k, D(n)) = k[new] + SumFunctionOnSet(k, S)
      BY <3>1, <3>2, SumSplit
    <3>4. SumFunctionOnSet(w, D(n)) = w[new] + SumFunctionOnSet(w, S)
      BY <3>1, <3>2, SumSplit
    <3>5. k[new] + SumFunctionOnSet(k, S) = SumFunctionOnSet(h, S)
      <4>1. CASE first = new /\ k[new] = 0
        <5>1. \A m \in S : h[m] = k[m]
          BY <1>9, <2>1, <4>1
        <5>2. SumFunctionOnSet(h, S) = SumFunctionOnSet(k, S)
          BY <2>1, <2>2, <5>1, SumEqual
        <5>3. QED BY <2>3, <4>1, <5>2
      <4>2. CASE first \in S /\ k[new] + k[first] = h[first]
        <5>1. \A m \in S \ {first} : k[m] = h[m]
          BY <1>9, <2>1
        <5> HIDE DEF S
        <5>2. SumFunctionOnSet(k, S) = SumFunctionOnSet(h, S) - h[first] + k[first]
          <6>1. IsFiniteSet(S) /\ first \in S /\ \A m \in S : h[m] \in Int /\ k[m] \in Int
            BY <2>1, <2>2, <4>2
          <6>2. QED BY <5>1, <6>1, SumUpdate
        <5>3. k[new] \in Int /\ k[first] \in Int
          BY <1>1, <1>6
        <5>4. QED BY <2>3, <4>2, <5>2, <5>3
      <4>3. QED BY <1>9, <2>6, <4>1, <4>2
    <3>6. QED BY <1>7, <2>3, <2>4, <3>3, <3>4, <3>5
  <2>7. QED BY <2>5, <2>6
<1>11. QED BY <1>10 DEF Conserved, D, k, w

\* A recreation conserves what is held: the new condition is nobody's before.
LEMMA RecreateConserves ==
    ASSUME NEW s \in LedgerType, NEW tot \in [Tokens -> Nat], NEW n \in ConditionIds,
           now \in Nat, Chains(s, tot, now), Conserved(s, tot), CanRecreate(s, n)
    PROVE  Conserved(Recreate(s, n), tot)
<1> DEFINE r == Recreate(s, n)
           new == s.maxConditionId + 1
           c == s.salaryReceivers[n]
           b == s.balances
           d == r.balances
<1>1. r \in LedgerType /\ OneMore(s, r, c, n, s.lastSalaryDates[n])
  BY RecreateAdds DEF Recreated
<1>2. n \in 1..s.maxConditionId /\ s.firstConditionInChain[n] = n
  BY FirstWasCreated DEF Chains, CanRecreate, EnsureFirst, IsFirstInChain
<1>3. s.firstToLastConditionInChain[n] = n
  BY <1>2 DEF Chains, Rooted
<1>4. /\ c \in Addresses /\ new \in ConditionIds /\ new # n /\ new \notin 1..s.maxConditionId
      /\ b \in [Tokens -> [Addresses -> Nat]] /\ d \in [Tokens -> [Addresses -> Nat]]
      /\ 1..r.maxConditionId = (1..s.maxConditionId) \cup {new}
  <2>1. s.maxConditionId \in 0..MaxCondition /\ MaxCondition \in Nat
    BY BoundAssumption DEF BoundAssumption, ConditionIds, LedgerType
  <2>2. new \in ConditionIds /\ r.maxConditionId = new
    BY <1>1 DEF OneMore
  <2>3. s.balances \in [Tokens -> [Addresses -> Nat]] /\ s.salaryReceivers[n] \in Addresses
    BY DEF LedgerType
  <2> HIDE DEF r
  <2>4. r.balances \in [Tokens -> [Addresses -> Nat]]
    BY <1>1 DEF LedgerType
  <2>5. /\ new # n /\ new \notin 1..s.maxConditionId
        /\ 1..r.maxConditionId = (1..s.maxConditionId) \cup {new}
    BY <1>2, <2>1, <2>2
  <2> HIDE DEF new
  <2>6. QED BY <2>2, <2>3, <2>4, <2>5
<1>5. /\ Condition(n) \in Tokens /\ Condition(new) \in Tokens /\ Condition(n) # Condition(new)
      /\ \A m \in ConditionIds : Condition(m) \in Tokens
  BY <1>4, TokenKinds, TokensDistinct
<1>6. \A x \in Tokens, a \in Addresses :
         d[x][a] = IF a = c /\ x = Condition(n) THEN 0
                   ELSE IF a = c /\ x = Condition(new) THEN b[Condition(n)][a]
                   ELSE b[x][a]
  BY <1>3, <1>4, RecreateBalances
<1> HIDE DEF r, new, c, b, d
<1>7. \A a \in Addresses : b[Condition(new)][a] = 0
  BY <1>4 DEF Conserved, Unheld, b
<1>8. HeldBy(d)[n] = HeldBy(b)[n] - b[Condition(n)][c]
  <2>1. /\ d[Condition(n)][c] = 0
        /\ \A a \in Addresses \ {c} : d[Condition(n)][a] = b[Condition(n)][a]
    BY <1>4, <1>5, <1>6
  <2>2. HeldBy(d)[n] = HeldBy(b)[n] - b[Condition(n)][c] + d[Condition(n)][c]
    BY <1>4, <2>1, HeldChangesAt
  <2>3. HeldBy(b)[n] \in Nat /\ b[Condition(n)][c] \in Nat
    BY <1>4, <1>5, HeldTyped
  <2>4. QED BY <2>1, <2>2, <2>3
<1>9. HeldBy(d)[new] = b[Condition(n)][c]
  <2>1. /\ d[Condition(new)][c] = b[Condition(n)][c]
        /\ \A a \in Addresses \ {c} : d[Condition(new)][a] = b[Condition(new)][a]
    BY <1>4, <1>5, <1>6
  <2>2. HeldBy(d)[new] = HeldBy(b)[new] - b[Condition(new)][c] + d[Condition(new)][c]
    BY <1>4, <2>1, HeldChangesAt
  <2>3. HeldBy(b)[new] = 0 /\ b[Condition(new)][c] = 0
    BY <1>4, <1>7, HeldNothing
  <2>4. b[Condition(n)][c] \in Nat
    BY <1>4, <1>5
  <2>5. QED BY <2>1, <2>2, <2>3, <2>4
<1>10. ASSUME NEW m \in ConditionIds \ {n, new} PROVE HeldBy(d)[m] = HeldBy(b)[m]
  <2>1. Condition(m) \in Tokens /\ Condition(m) # Condition(n) /\ Condition(m) # Condition(new)
    BY <1>5, <1>10, TokensDistinct
  <2>2. \A a \in Addresses : d[Condition(m)][a] = b[Condition(m)][a]
    BY <1>6, <2>1
  <2>3. QED BY <1>4, <2>2, HeldKept
<1>11. NewHeld(s, r, n)
  <2>1. n \in ChainOf(s, n)
    BY <1>2 DEF ChainOf
  <2>2. HeldBy(b)[n] \in Nat /\ b[Condition(n)][c] \in Nat
    BY <1>4, <1>5, HeldTyped
  <2>3. HeldBy(d)[new] + HeldBy(d)[n] = HeldBy(b)[n]
    BY <1>8, <1>9, <2>2
  <2>4. QED BY <1>10, <2>1, <2>3 DEF NewHeld, new, b, d
<1>12. Unheld(r)
  <2>1. SUFFICES ASSUME NEW m \in ConditionIds, NEW a \in Addresses, m \notin 1..r.maxConditionId
                 PROVE  d[Condition(m)][a] = 0
    BY DEF Unheld, d
  <2>2. m # n /\ m # new /\ m \notin 1..s.maxConditionId
    BY <1>2, <1>4, <2>1
  <2>3. Condition(m) \in Tokens /\ Condition(m) # Condition(n) /\ Condition(m) # Condition(new)
    BY <1>5, <2>2, TokensDistinct
  <2>4. b[Condition(m)][a] = 0
    BY <2>2 DEF Conserved, Unheld, b
  <2>5. QED BY <1>6, <2>3, <2>4
<1>13. Conserved(r, tot)
  BY <1>1, <1>11, <1>12, OneMoreConserves DEF Chains
<1>14. QED BY <1>13 DEF r

\* A transfer conserves what is held, with the recreation it may cause.
LEMMA TransferConserves ==
    ASSUME NEW s \in LedgerType, NEW tot \in [Tokens -> Nat], NEW t \in Tokens,
           NEW from \in Addresses, NEW to \in Addresses, NEW v \in Nat, NEW sender,
           now \in Nat, Chains(s, tot, now), Conserved(s, tot),
           CanTransfer(s, sender, t, from, v)
    PROVE  Conserved(Transfer(s, sender, t, from, to, v), tot)
<1> DEFINE moved == Move(s, t, from, to, v)
<1>1. moved \in LedgerType /\ SameChains(s, moved) /\ Conserved(moved, tot)
  BY MoveTyped, MoveConserves DEF CanTransfer
<1> HIDE DEF moved
<1>2. CASE ~Recreates(s, sender, t)
  BY <1>1, <1>2 DEF Transfer, moved
<1>3. CASE Recreates(s, sender, t)
  <2>1. PICK n \in ConditionIds : t = Condition(n)
    BY <1>3 DEF Recreates
  <2>2. t[2] = n
    BY <2>1 DEF Condition
  <2>3. CanRecreate(s, n)
    BY <1>3, <2>2 DEF CanTransfer
  <2>4. CanRecreate(moved, n)
    BY <1>1, <2>3 DEF CanRecreate, EnsureFirst, IsFirstInChain, CanCreateCondition, SameChains
  <2>5. Chains(moved, tot, now)
    BY <1>1, SameChainsKept
  <2>6. Conserved(Recreate(moved, n), tot)
    BY <1>1, <2>4, <2>5, RecreateConserves
  <2>7. QED BY <1>3, <2>2, <2>6 DEF Transfer, moved
<1>4. QED BY <1>2, <1>3

\* A registration, whatever its date, adds a condition nobody holds.
LEMMA NewConditionConserves ==
    ASSUME NEW s \in LedgerType, NEW tot \in [Tokens -> Nat], NEW customer \in Addresses,
           now \in Nat, Chains(s, tot, now), Conserved(s, tot), CanCreateCondition(s)
    PROVE  Conserved(NewCondition(s, customer), tot)
<1> DEFINE r == NewCondition(s, customer)
           new == s.maxConditionId + 1
<1>1. /\ r \in LedgerType /\ r.balances = s.balances
      /\ OneMore(s, r, customer, new, s.lastSalaryDates[new])
  BY NewConditionAdds
<1>2. /\ new \in ConditionIds /\ new \notin 1..s.maxConditionId
      /\ 1..s.maxConditionId \subseteq 1..r.maxConditionId
      /\ s.balances \in [Tokens -> [Addresses -> Nat]]
  <2>1. s.maxConditionId \in 0..MaxCondition /\ MaxCondition \in Nat
    BY BoundAssumption DEF BoundAssumption, ConditionIds, LedgerType
  <2>2. new \in ConditionIds /\ r.maxConditionId = new
    BY <1>1 DEF OneMore
  <2> HIDE DEF r
  <2>3. QED BY <2>1, <2>2 DEF LedgerType
<1> HIDE DEF r, new
<1>3. HeldBy(s.balances)[new] = 0
  <2> DEFINE f == s.balances[Condition(new)]
  <2>1. HeldBy(s.balances)[new] = SumFunctionOnSet(f, Addresses)
    BY <1>2, HeldTyped
  <2>2. \A a \in Addresses : f[a] = 0
    BY <1>2 DEF Conserved, Unheld
  <2> HIDE DEF f
  <2>3. QED BY <2>1, <2>2, AddressesFinite, SumZero
<1>4. NewHeld(s, r, new)
  BY <1>1, <1>3 DEF NewHeld, new
<1>5. Unheld(r)
  BY <1>1, <1>2 DEF Conserved, Unheld
<1>6. Conserved(r, tot)
  BY <1>1, <1>2, <1>4, <1>5, OneMoreConserves DEF Chains
<1>7. QED BY <1>6 DEF r

\* A restoration moves the tokens, or loses some.
LEMMA RestoreHeld ==
    ASSUME NEW b \in [Tokens -> [Addresses -> Nat]], NEW old \in Addresses,
           NEW new \in Addresses, NEW t \in Tokens, NEW n \in ConditionIds
    PROVE  /\ HeldBy(RestoreToken(b, old, new, t))[n] <= HeldBy(b)[n]
           /\ (\A a \in Addresses : b[Condition(n)][a] = 0) =>
                 \A a \in Addresses : RestoreToken(b, old, new, t)[Condition(n)][a] = 0
<1> DEFINE d == RestoreToken(b, old, new, t)
           x == Condition(n)
<1>1. /\ d \in [Tokens -> [Addresses -> Nat]]
      /\ \A y \in Tokens, a \in Addresses :
            d[y][a] = IF y = t /\ a = old THEN 0
                      ELSE IF y = t /\ a = new THEN b[t][old]
                      ELSE b[y][a]
  BY RestoreBalances
<1> HIDE DEF d
<1>2. x \in Tokens
  BY TokenKinds
<1>3. \A a \in Addresses : d[x][a] = IF x = t /\ a = old THEN 0
                                     ELSE IF x = t /\ a = new THEN b[x][old]
                                     ELSE b[x][a]
  BY <1>1, <1>2
<1>4. HeldBy(d)[n] <= HeldBy(b)[n]
  <2> DEFINE mid == [b EXCEPT ![x] = [b[x] EXCEPT ![old] = 0]]
  <2>1. /\ mid \in [Tokens -> [Addresses -> Nat]]
        /\ \A a \in Addresses : mid[x][a] = IF a = old THEN 0 ELSE b[x][a]
    BY <1>2
  <2> HIDE DEF mid
  <2>2. HeldBy(mid)[n] = HeldBy(b)[n] - b[x][old]
    <3>1. HeldBy(mid)[n] = HeldBy(b)[n] - b[x][old] + mid[x][old]
      BY <2>1, HeldChangesAt
    <3>2. HeldBy(b)[n] \in Nat /\ b[x][old] \in Nat
      BY <1>2, HeldTyped
    <3>3. QED BY <2>1, <3>1, <3>2
  <2>3. HeldBy(b)[n] \in Nat /\ HeldBy(mid)[n] \in Nat /\ b[x][old] \in Nat /\ b[x][new] \in Nat
    BY <1>2, <2>1, HeldTyped
  <2>4. CASE x # t
    <3>1. \A a \in Addresses : d[x][a] = b[x][a]
      BY <1>3, <2>4
    <3>2. HeldBy(d)[n] = HeldBy(b)[n]
      BY <1>1, <3>1, HeldKept
    <3>3. QED BY <2>3, <3>2
  <2>5. CASE x = t /\ old = new
    <3>1. \A a \in Addresses : d[x][a] = mid[x][a]
      BY <1>3, <2>1, <2>5
    <3>2. HeldBy(d)[n] = HeldBy(mid)[n]
      BY <1>1, <2>1, <3>1, HeldKept
    <3>3. QED BY <2>2, <2>3, <3>2
  <2>6. CASE x = t /\ old # new
    <3>1. /\ d[x][new] = b[x][old] /\ mid[x][new] = b[x][new]
          /\ \A a \in Addresses \ {new} : d[x][a] = mid[x][a]
      BY <1>3, <2>1, <2>6
    <3>2. HeldBy(d)[n] = HeldBy(mid)[n] - mid[x][new] + d[x][new]
      BY <1>1, <2>1, <3>1, HeldChangesAt
    <3>3. QED BY <2>2, <2>3, <3>1, <3>2
  <2>7. QED BY <2>4, <2>5, <2>6
<1>5. (\A a \in Addresses : b[x][a] = 0) => \A a \in Addresses : d[x][a] = 0
  BY <1>3
<1>6. QED BY <1>4, <1>5 DEF d

-----------------------------------------------------------------------------
(* What the calls do to the holdings. *)

\* A transfer, a recreation or a registration installs a conserved ledger.
LEMMA InstallConserves ==
    ASSUME NEW r, Install(r), Conserved(r, totals)
    PROVE  Conserved(Ledger, totals)'
<1>1. /\ Ledger'.maxConditionId = r.maxConditionId
      /\ Ledger'.firstConditionInChain = r.firstConditionInChain
      /\ Ledger'.balances = r.balances
      /\ totals' = totals
  BY DEF Install, Ledger
<1>2. Unheld(Ledger')
  BY <1>1 DEF Conserved, Unheld
<1>3. \A n : ChainOf(Ledger', n) = ChainOf(r, n)
  BY <1>1 DEF ChainOf
<1>4. QED BY <1>1, <1>2, <1>3 DEF Conserved

\* A call that leaves conditions alone.
LEMMA QuietConserves ==
    ASSUME Conserved(Ledger, totals), UNCHANGED <<maxConditionId, firstConditionInChain>>,
           \A n \in ConditionIds : /\ totals'[Condition(n)] = totals[Condition(n)]
                                   /\ balances'[Condition(n)] = balances[Condition(n)]
    PROVE  Conserved(Ledger, totals)'
<1>1. /\ Ledger'.maxConditionId = Ledger.maxConditionId
      /\ Ledger'.firstConditionInChain = Ledger.firstConditionInChain
      /\ Ledger'.balances = balances' /\ Ledger.balances = balances
  BY DEF Ledger
<1>2. HeldBy(balances') = HeldBy(balances) /\ MintedBy(totals') = MintedBy(totals)
  BY DEF HeldBy, MintedBy
<1>3. Unheld(Ledger')
  BY <1>1 DEF Conserved, Unheld
<1>4. \A n : ChainOf(Ledger', n) = ChainOf(Ledger, n)
  BY <1>1 DEF ChainOf
<1>5. QED BY <1>1, <1>2, <1>3, <1>4 DEF Conserved

\* What a mint does to each balance.
LEMMA MintPoints ==
    ASSUME Inv, NEW sender \in Users, NEW n \in ConditionIds, NEW to \in Addresses,
           MintSalary(sender, n, to), NEW x \in Tokens, NEW a \in Addresses
    PROVE  balances'[x][a] = IF x = Condition(n) /\ a = to
                               THEN balances[x][a] + (now - lastSalaryDates[n])
                               ELSE balances[x][a]
<1> DEFINE s == [balances |-> balances, totals |-> totals]
           v == now - lastSalaryDates[n]
<1>1. v \in Nat
  BY MintStep
<1>2. s \in AccountsType /\ Condition(n) \in Tokens
  BY TokenKinds DEF Inv, TypeOK, TokenTypeOK, AccountsType
<1>3. balances' = Mint(s, to, Condition(n), v).balances
  BY MintedIsFirst DEF MintSalary
<1> HIDE DEF v, s
<1>4. Mint(s, to, Condition(n), v).balances[x][a] =
         IF x = Condition(n) /\ a = to THEN s.balances[x][a] + v ELSE s.balances[x][a]
  BY <1>1, <1>2, MintBalances
<1>5. QED BY <1>3, <1>4 DEF s, v

\* A mint hands out what it adds to the total.
LEMMA MintConserves ==
    ASSUME Inv, TypeOK', Conserved(Ledger, totals), NEW sender \in Users,
           NEW n \in ConditionIds, NEW to \in Addresses, MintSalary(sender, n, to)
    PROVE  Conserved(Ledger, totals)'
<1> DEFINE v == now - lastSalaryDates[n]
           x == Condition(n)
<1>1. /\ n \in 1..maxConditionId
      /\ v \in Nat
      /\ balances' \in [Tokens -> [Addresses -> Nat]]
      /\ totals' = [totals EXCEPT ![x] = @ + v]
      /\ totals' \in [Tokens -> Nat]
      /\ UNCHANGED <<lockVars, chainVars>>
  BY MintStep
<1>2. /\ x \in Tokens
      /\ balances \in [Tokens -> [Addresses -> Nat]] /\ totals \in [Tokens -> Nat]
  BY TokenKinds DEF Inv, TypeOK, TokenTypeOK
<1>3. \A y \in Tokens, a \in Addresses :
         balances'[y][a] = IF y = x /\ a = to THEN balances[y][a] + v ELSE balances[y][a]
  BY MintPoints
<1> HIDE DEF v
<1>4. ASSUME NEW m \in ConditionIds
      PROVE  HeldBy(balances')[m] - HeldBy(balances)[m]
               <= MintedBy(totals')[m] - MintedBy(totals)[m]
  <2>1. /\ HeldBy(balances)[m] \in Nat /\ MintedBy(totals)[m] \in Nat
        /\ MintedBy(totals)[m] = totals[Condition(m)]
        /\ MintedBy(totals')[m] = totals'[Condition(m)]
        /\ Condition(m) \in Tokens
    BY <1>1, <1>2, TokenKinds, HeldTyped, MintedTyped
  <2>2. CASE m = n
    <3>1. /\ balances'[x][to] = balances[x][to] + v
          /\ \A a \in Addresses \ {to} : balances'[x][a] = balances[x][a]
      BY <1>2, <1>3
    <3>2. HeldBy(balances')[n] = HeldBy(balances)[n] - balances[x][to] + balances'[x][to]
      <4>1. /\ balances \in [Tokens -> [Addresses -> Nat]]
            /\ balances' \in [Tokens -> [Addresses -> Nat]]
        BY <1>1, <1>2
      <4>2. \A a \in Addresses \ {to} : balances'[Condition(n)][a] = balances[Condition(n)][a]
        BY <3>1
      <4>3. QED BY <4>1, <4>2, HeldChangesAt
    <3>3. totals'[x] = totals[x] + v
      BY <1>1, <1>2
    <3>4. balances[x][to] \in Nat
      BY <1>2
    <3>5. QED BY <1>1, <2>1, <2>2, <3>1, <3>2, <3>3, <3>4
  <2>3. CASE m # n
    <3>1. Condition(m) # x
      BY <2>3, TokensDistinct
    <3>2. \A a \in Addresses : balances'[Condition(m)][a] = balances[Condition(m)][a]
      BY <1>3, <2>1, <3>1
    <3>3. HeldBy(balances')[m] = HeldBy(balances)[m]
      BY <1>1, <1>2, <3>2, HeldKept
    <3>4. totals'[Condition(m)] = totals[Condition(m)]
      BY <1>1, <1>2, <2>1, <3>1
    <3>5. QED BY <2>1, <3>3, <3>4
  <2>4. QED BY <2>2, <2>3
<1>5. /\ Ledger \in LedgerType /\ Ledger' \in LedgerType
      /\ Ledger.balances = balances /\ Ledger'.balances = balances'
      /\ Ledger.maxConditionId = maxConditionId
      /\ Ledger'.maxConditionId = Ledger.maxConditionId
      /\ Ledger'.firstConditionInChain = Ledger.firstConditionInChain
  <2>1. Ledger \in LedgerType
    BY LedgerTyped DEF Inv
  <2>2. Ledger' \in LedgerType
    BY DEF TypeOK, TokenTypeOK, LockTypeOK, SalaryTypeOK, Ledger, LedgerType
  <2>3. QED BY <1>1, <2>1, <2>2 DEF Ledger, lockVars, conditionVars, chainVars
<1>6. Unheld(Ledger')
  <2>1. SUFFICES ASSUME NEW m \in ConditionIds, NEW a \in Addresses, m \notin 1..maxConditionId
                 PROVE  balances'[Condition(m)][a] = 0
    BY <1>5 DEF Unheld
  <2>2. m # n /\ Condition(m) \in Tokens /\ Condition(m) # x
    BY <1>1, <2>1, TokenKinds, TokensDistinct
  <2>3. balances[Condition(m)][a] = 0
    BY <1>5, <2>1 DEF Conserved, Unheld
  <2>4. QED BY <1>3, <2>2, <2>3
<1>7. Conserved(Ledger', totals')
  BY <1>1, <1>2, <1>4, <1>5, <1>6, GrowthConserves
<1>8. QED BY <1>7

\* What a donation does to each balance and each total.
LEMMA DonatePoints ==
    ASSUME Inv, NEW c \in Collaterals, NEW o \in Oracles, NEW v \in Nat,
           NEW from \in Addresses, NEW to \in Addresses, Donate(c, o, v, from, to),
           NEW x \in Tokens
    PROVE  /\ totals'[x] = IF x \in {PerOracle(c, o), Donated(c)} THEN totals[x] + v ELSE totals[x]
           /\ \A a \in Addresses :
                 balances'[x][a] = IF x \in {PerOracle(c, o), Donated(c)} /\ a = to
                                     THEN balances[x][a] + v ELSE balances[x][a]
<1> DEFINE s == [balances |-> balances, totals |-> totals]
           t1 == PerOracle(c, o)
           t2 == Donated(c)
           p == Mint(s, to, t1, v)
           r == Mint(p, to, t2, v)
<1>1. s \in AccountsType /\ t1 \in Tokens /\ t2 \in Tokens /\ t1 # t2
  BY TokenKinds, PerOracleDistinct DEF Inv, TypeOK, TokenTypeOK, AccountsType
<1>2. balances' = r.balances /\ totals' = r.totals
  BY DEF Donate
<1> HIDE DEF s, t1, t2
<1>3. /\ p \in AccountsType
      /\ p.totals = [s.totals EXCEPT ![t1] = s.totals[t1] + v]
  <2>1. p = Mint(s, to, t1, v)
    OBVIOUS
  <2> HIDE DEF p
  <2>2. QED BY <1>1, <2>1, MintTyped
<1>4. \A a \in Addresses : p.balances[x][a] = IF x = t1 /\ a = to THEN s.balances[x][a] + v
                                              ELSE s.balances[x][a]
  BY <1>1, MintBalances
<1> HIDE DEF p
<1>5. r.totals = [p.totals EXCEPT ![t2] = p.totals[t2] + v]
  BY <1>1, <1>3, MintTyped
<1>6. \A a \in Addresses : r.balances[x][a] = IF x = t2 /\ a = to THEN p.balances[x][a] + v
                                              ELSE p.balances[x][a]
  BY <1>1, <1>3, MintBalances
<1> HIDE DEF r
<1>7. s.totals \in [Tokens -> Nat] /\ p.totals \in [Tokens -> Nat]
  BY <1>1, <1>3 DEF AccountsType
<1>8. r.totals[x] = IF x \in {t1, t2} THEN s.totals[x] + v ELSE s.totals[x]
  BY <1>1, <1>3, <1>5, <1>7
<1>9. \A a \in Addresses : r.balances[x][a] = IF x \in {t1, t2} /\ a = to THEN s.balances[x][a] + v
                                              ELSE s.balances[x][a]
  BY <1>1, <1>4, <1>6
<1>10. QED BY <1>2, <1>8, <1>9 DEF s, t1, t2

\* A donation mints no condition.
LEMMA DonateQuiet ==
    ASSUME Inv, NEW c \in Collaterals, NEW o \in Oracles, NEW v \in Nat,
           NEW from \in Addresses, NEW to \in Addresses, Donate(c, o, v, from, to)
    PROVE  \A n \in ConditionIds : /\ totals'[Condition(n)] = totals[Condition(n)]
                                   /\ balances'[Condition(n)] = balances[Condition(n)]
<1>1. SUFFICES ASSUME NEW n \in ConditionIds
               PROVE  /\ totals'[Condition(n)] = totals[Condition(n)]
                      /\ balances'[Condition(n)] = balances[Condition(n)]
  OBVIOUS
<1> DEFINE x == Condition(n)
<1>2. x \in Tokens /\ x \notin {PerOracle(c, o), Donated(c)}
  BY TokenKinds, TokensDistinct
<1>3. /\ balances \in [Tokens -> [Addresses -> Nat]]
      /\ balances' \in [Tokens -> [Addresses -> Nat]]
  BY DonateTotals DEF Inv, TypeOK, TokenTypeOK
<1> HIDE DEF x
<1>4. totals'[x] = totals[x] /\ \A a \in Addresses : balances'[x][a] = balances[x][a]
  BY <1>2, DonatePoints
<1>5. balances'[x] = balances[x]
  BY <1>2, <1>3, <1>4
<1>6. QED BY <1>4, <1>5 DEF x

\* A restoration conserves what is held: with overwritten tokens, less is.
LEMMA RestoreConserves ==
    ASSUME NEW s \in LedgerType, NEW tot \in [Tokens -> Nat], Conserved(s, tot),
           NEW old \in Addresses, NEW new \in Addresses, NEW t \in Tokens
    PROVE  LET r == [s EXCEPT !.balances = RestoreToken(s.balances, old, new, t)]
           IN  r \in LedgerType /\ Conserved(r, tot)
<1> DEFINE b == s.balances
           d == RestoreToken(b, old, new, t)
           r == [s EXCEPT !.balances = d]
<1>1. b \in [Tokens -> [Addresses -> Nat]] /\ d \in [Tokens -> [Addresses -> Nat]]
  BY RestoreBalances DEF LedgerType
<1> HIDE DEF d
<1>2. /\ r \in LedgerType /\ r.balances = d
      /\ r.maxConditionId = s.maxConditionId
      /\ r.firstConditionInChain = s.firstConditionInChain
  BY <1>1 DEF LedgerType
<1> HIDE DEF r
<1>3. ASSUME NEW n \in ConditionIds
      PROVE  HeldBy(d)[n] - HeldBy(b)[n] <= MintedBy(tot)[n] - MintedBy(tot)[n]
  <2>1. HeldBy(d)[n] <= HeldBy(b)[n]
    BY <1>1, RestoreHeld DEF d
  <2>2. HeldBy(d)[n] \in Nat /\ HeldBy(b)[n] \in Nat /\ MintedBy(tot)[n] \in Nat
    BY <1>1, HeldTyped, MintedTyped
  <2> HIDE DEF b
  <2>3. QED BY <2>1, <2>2
<1>4. Unheld(r)
  <2>1. \A n \in ConditionIds : n \notin 1..s.maxConditionId =>
           \A a \in Addresses : b[Condition(n)][a] = 0
    BY DEF Conserved, Unheld
  <2>2. ASSUME NEW n \in ConditionIds, n \notin 1..s.maxConditionId
        PROVE  \A a \in Addresses : d[Condition(n)][a] = 0
    <3>1. \A a \in Addresses : b[Condition(n)][a] = 0
      BY <2>1, <2>2
    <3> HIDE DEF b
    <3>2. QED BY <1>1, <3>1, RestoreHeld DEF d
  <2>3. QED BY <1>2, <2>2 DEF Unheld
<1>5. Conserved(r, tot)
  BY <1>2, <1>3, <1>4, GrowthConserves
<1>6. QED BY <1>2, <1>5 DEF r, d

\* Transfers, alone and in a batch of two.
LEMMA TokenCallsConserve ==
    ASSUME Inv, Conserved(Ledger, totals), TokenCalls
    PROVE  Conserved(Ledger, totals)'
<1>1. /\ Ledger \in LedgerType /\ totals \in [Tokens -> Nat]
      /\ now \in Nat /\ now >= 1
      /\ Chains(Ledger, totals, now)
  BY LedgerTyped DEF Inv, TypeOK, LockTypeOK, TokenTypeOK
<1>2. PICK sender \in Users :
         \/ \E operator \in Users, approved \in BOOLEAN :
               /\ SetApprovalForAll(sender, operator, approved)
               /\ UNCHANGED <<lockVars, bidVars, salaryVars>>
         \/ \E from, to \in Addresses, t \in Tokens, v \in Amounts :
               SafeTransferFrom(sender, from, to, t, v)
         \/ \E from, to \in Addresses, t1, t2 \in Tokens, v1, v2 \in Amounts :
               SafeBatchTransferFrom(sender, from, to, t1, v1, t2, v2)
  BY DEF TokenCalls
<1>3. ASSUME NEW operator \in Users, NEW approved \in BOOLEAN,
             SetApprovalForAll(sender, operator, approved),
             UNCHANGED <<lockVars, bidVars, salaryVars>>
      PROVE  Conserved(Ledger, totals)'
  BY <1>3, QuietConserves DEF SetApprovalForAll, lockVars, conditionVars, salaryVars, chainVars
<1>4. ASSUME NEW from \in Addresses, NEW to \in Addresses, NEW t \in Tokens, NEW v \in Amounts,
             SafeTransferFrom(sender, from, to, t, v)
      PROVE  Conserved(Ledger, totals)'
  <2> DEFINE r == Transfer(Ledger, sender, t, from, to, v)
  <2>1. v \in Nat /\ CanTransfer(Ledger, sender, t, from, v) /\ Install(r)
    BY <1>4, BoundAssumption DEF BoundAssumption, SafeTransferFrom, BaseSafeTransferFrom
  <2>2. Conserved(r, totals)
    BY <1>1, <2>1, TransferConserves
  <2> HIDE DEF r
  <2>3. QED BY <2>1, <2>2, InstallConserves
<1>5. ASSUME NEW from \in Addresses, NEW to \in Addresses, NEW t1 \in Tokens, NEW t2 \in Tokens,
             NEW v1 \in Amounts, NEW v2 \in Amounts,
             SafeBatchTransferFrom(sender, from, to, t1, v1, t2, v2)
      PROVE  Conserved(Ledger, totals)'
  <2> DEFINE first == Transfer(Ledger, sender, t1, from, to, v1)
             r == Transfer(first, sender, t2, from, to, v2)
  <2>1. /\ v1 \in Nat /\ v2 \in Nat
        /\ CanTransfer(Ledger, sender, t1, from, v1)
        /\ CanTransfer(first, sender, t2, from, v2)
        /\ Install(r)
    BY <1>5, BoundAssumption DEF BoundAssumption, SafeBatchTransferFrom, BaseSafeBatchTransferFrom
  <2>2. /\ first \in LedgerType
        /\ SameChains(Ledger, first) \/ \E n \in ConditionIds : Recreated(Ledger, first, n)
    BY <1>1, <2>1, TransferCases
  <2>3. Conserved(first, totals)
    BY <1>1, <2>1, TransferConserves
  <2> HIDE DEF first
  <2>4. Chains(first, totals, now)
    BY <1>1, <2>2, SameChainsKept, RecreatedKeepsChains
  <2>5. Conserved(r, totals)
    BY <1>1, <2>1, <2>2, <2>3, <2>4, TransferConserves
  <2> HIDE DEF r
  <2>6. QED BY <2>1, <2>5, InstallConserves
<1>6. QED BY <1>2, <1>3, <1>4, <1>5

\* Registrations.
LEMMA RegisterConserves ==
    ASSUME Inv, Conserved(Ledger, totals), NEW customer \in Addresses, RegisterSalary(customer)
    PROVE  Conserved(Ledger, totals)'
<1> DEFINE N == NewCondition(Ledger, customer)
           r == [N EXCEPT !.lastSalaryDates[maxConditionId + 1] = now]
<1>1. /\ Ledger \in LedgerType /\ totals \in [Tokens -> Nat]
      /\ now \in Nat /\ Chains(Ledger, totals, now)
  BY LedgerTyped DEF Inv, TypeOK, LockTypeOK, TokenTypeOK
<1>2. CanCreateCondition(Ledger) /\ Install(r)
  BY DEF RegisterSalary
<1>3. N \in LedgerType /\ Conserved(N, totals)
  BY <1>1, <1>2, NewConditionAdds, NewConditionConserves
<1> HIDE DEF N
<1>4. /\ r.maxConditionId = N.maxConditionId
      /\ r.firstConditionInChain = N.firstConditionInChain
      /\ r.balances = N.balances
  BY <1>3 DEF LedgerType
<1> HIDE DEF r
<1>5. Unheld(r) /\ \A n : ChainOf(r, n) = ChainOf(N, n)
  BY <1>3, <1>4 DEF Conserved, Unheld, ChainOf
<1>6. Conserved(r, totals)
  BY <1>3, <1>4, <1>5 DEF Conserved
<1>7. QED BY <1>2, <1>6, InstallConserves

\* Donations and withdrawals.
LEMMA CollateralCallsConserve ==
    ASSUME Inv, Conserved(Ledger, totals), CollateralCalls, UNCHANGED salaryVars
    PROVE  Conserved(Ledger, totals)'
<1>1. ASSUME NEW c \in Collaterals, NEW o \in Oracles, NEW v \in Nat, NEW from \in Addresses,
             NEW to \in Addresses, Donate(c, o, v, from, to)
      PROVE  Conserved(Ledger, totals)'
  BY <1>1, DonateQuiet, QuietConserves DEF Donate, conditionVars, salaryVars, chainVars
<1>2. ASSUME NEW c, NEW from, NEW to, NEW v, CollateralTransfer(c, from, to, v)
      PROVE  Conserved(Ledger, totals)'
  BY <1>2, QuietConserves DEF CollateralTransfer, tokenVars, conditionVars, salaryVars, chainVars
<1>3. ASSUME NEW c, NEW sender, NEW o, NEW t, Withdraw(sender, c, o, t)
      PROVE  Conserved(Ledger, totals)'
  BY <1>3, QuietConserves
  DEF Withdraw, WithdrawCollateral, tokenVars, conditionVars, salaryVars, chainVars
<1>4. ASSUME NEW c \in Collaterals, NEW o \in Oracles, GatherDeFiProfit(c, o)
      PROVE  Conserved(Ledger, totals)'
  BY <1>1, <1>4, GatherDonates DEF Inv, Addresses
<1>5. Amounts \subseteq Nat /\ Users \cup {This} \subseteq Addresses
  BY BoundAssumption DEF BoundAssumption, Addresses
<1>6. QED BY <1>1, <1>2, <1>3, <1>4, <1>5 DEF CollateralCalls

\* Restorations.
LEMMA AccountCallsConserve ==
    ASSUME Inv, Conserved(Ledger, totals), AccountCalls
    PROVE  Conserved(Ledger, totals)'
<1>1. Ledger \in LedgerType /\ totals \in [Tokens -> Nat]
  BY LedgerTyped DEF Inv, TypeOK, TokenTypeOK
<1>2. ASSUME UNCHANGED <<maxConditionId, firstConditionInChain, totals>>,
             NEW r \in LedgerType, Conserved(r, totals),
             r.maxConditionId = maxConditionId, r.firstConditionInChain = firstConditionInChain,
             balances' = r.balances
      PROVE  Conserved(Ledger, totals)'
  <2>1. /\ Ledger'.maxConditionId = r.maxConditionId
        /\ Ledger'.firstConditionInChain = r.firstConditionInChain
        /\ Ledger'.balances = r.balances
        /\ totals' = totals
    BY <1>2 DEF Ledger
  <2>2. Unheld(Ledger') /\ \A n : ChainOf(Ledger', n) = ChainOf(r, n)
    BY <1>2, <2>1 DEF Conserved, Unheld, ChainOf
  <2>3. QED BY <1>2, <2>1, <2>2 DEF Conserved
<1>3. ASSUME NEW sender \in Users, NEW old \in Addresses, NEW new \in Addresses, NEW allowed,
             NEW t \in Tokens, RestoreFunds(sender, old, new, t, allowed)
      PROVE  Conserved(Ledger, totals)'
  <2> DEFINE r == [Ledger EXCEPT !.balances = RestoreToken(Ledger.balances, old, new, t)]
  <2>1. r \in LedgerType /\ Conserved(r, totals)
    BY <1>1, RestoreConserves
  <2>2. /\ r.maxConditionId = maxConditionId /\ r.firstConditionInChain = firstConditionInChain
        /\ balances' = r.balances
    BY <1>3 DEF RestoreFunds, Ledger
  <2>3. UNCHANGED <<maxConditionId, firstConditionInChain, totals>>
    BY <1>3 DEF RestoreFunds, lockVars, conditionVars, salaryVars, chainVars
  <2> HIDE DEF r
  <2>4. QED BY <1>2, <2>1, <2>2, <2>3
<1>4. ASSUME NEW sender \in Users, NEW old \in Addresses, NEW new \in Addresses, NEW allowed,
             NEW t1 \in Tokens, NEW t2 \in Tokens,
             RestoreFundsBatch(sender, old, new, t1, t2, allowed)
      PROVE  Conserved(Ledger, totals)'
  <2> DEFINE p == [Ledger EXCEPT !.balances = RestoreToken(Ledger.balances, old, new, t1)]
             r == [p EXCEPT !.balances = RestoreToken(p.balances, old, new, t2)]
  <2>1. p \in LedgerType /\ Conserved(p, totals)
    BY <1>1, RestoreConserves
  <2>2. /\ p.maxConditionId = maxConditionId /\ p.firstConditionInChain = firstConditionInChain
        /\ p.balances = RestoreToken(balances, old, new, t1)
    BY DEF Ledger
  <2> HIDE DEF p
  <2>3. r \in LedgerType /\ Conserved(r, totals)
    BY <1>1, <2>1, RestoreConserves
  <2>4. /\ r.maxConditionId = maxConditionId /\ r.firstConditionInChain = firstConditionInChain
        /\ balances' = r.balances
    BY <1>4, <2>1, <2>2 DEF RestoreFundsBatch, LedgerType
  <2>5. UNCHANGED <<maxConditionId, firstConditionInChain, totals>>
    BY <1>4 DEF RestoreFundsBatch, lockVars, conditionVars, salaryVars, chainVars
  <2> HIDE DEF r
  <2>6. QED BY <1>2, <2>3, <2>4, <2>5
<1>5. ASSUME UNCHANGED baseVars PROVE Conserved(Ledger, totals)'
  BY <1>5, QuietConserves DEF baseVars, tokenVars, lockVars, conditionVars, salaryVars, chainVars
<1>6. ASSUME NEW sender \in Users, NEW old \in Addresses, NEW new \in Addresses, NEW allowed,
             PermitRestoreAccount(sender, old, new, allowed)
                \/ DispermitRestoreAccount(old, new, allowed)
      PROVE  Conserved(Ledger, totals)'
  BY <1>5, <1>6 DEF PermitRestoreAccount, DispermitRestoreAccount
<1>7. PICK sender \in Users, old \in Addresses, new \in Addresses, allowed \in BOOLEAN :
         \/ PermitRestoreAccount(sender, old, new, allowed)
         \/ DispermitRestoreAccount(old, new, allowed)
         \/ \E t \in Tokens : RestoreFunds(sender, old, new, t, allowed)
         \/ \E t1, t2 \in Tokens : RestoreFundsBatch(sender, old, new, t1, t2, allowed)
  BY DEF AccountCalls
<1>8. QED BY <1>3, <1>4, <1>6, <1>7

\* No call leaves more of a chain in the accounts than was minted for it.
LEMMA StepConserves == Inv /\ Inv' /\ Conserved(Ledger, totals) /\ [Next]_vars
                          => Conserved(Ledger, totals)'
<1> SUFFICES ASSUME Inv, Inv', Conserved(Ledger, totals), [Next]_vars
             PROVE  Conserved(Ledger, totals)'
  OBVIOUS
<1>1. /\ Ledger \in LedgerType /\ totals \in [Tokens -> Nat]
      /\ now \in Nat /\ Chains(Ledger, totals, now)
      /\ \A a \in Addresses : OriginalAddress(a) \in Addresses /\ CurrentAddress(a) \in Addresses
  BY LedgerTyped DEF Inv, TypeOK, LockTypeOK, TokenTypeOK, AccountTypeOK, OriginalAddress,
                     CurrentAddress
<1>2. ASSUME UNCHANGED <<balances, totals, maxConditionId, firstConditionInChain>>
      PROVE  Conserved(Ledger, totals)'
  BY <1>2, QuietConserves
<1>3. CASE Tick /\ UNCHANGED <<bidVars, salaryVars, accountVars, daoVars>>
  BY <1>2, <1>3 DEF Tick, tokenVars, conditionVars, salaryVars, chainVars
<1>4. CASE TokenCalls
  BY <1>4, TokenCallsConserve
<1>5. CASE SalaryCalls
  <2>1. ASSUME NEW n \in ConditionIds, RecreateCondition(n) PROVE Conserved(Ledger, totals)'
    <3> DEFINE r == Recreate(Ledger, n)
    <3>1. CanRecreate(Ledger, n) /\ Install(r)
      BY <2>1 DEF RecreateCondition
    <3>2. Conserved(r, totals)
      BY <1>1, <3>1, RecreateConserves
    <3> HIDE DEF r
    <3>3. QED BY <3>1, <3>2, InstallConserves
  <2>2. ASSUME NEW sender \in Users, NEW n \in ConditionIds,
               MintSalary(sender, n, CurrentAddress(sender))
        PROVE  Conserved(Ledger, totals)'
    BY <1>1, <2>2, MintConserves DEF Inv, Addresses
  <2>3. ASSUME NEW n \in ConditionIds, MintReturns(n) PROVE Conserved(Ledger, totals)'
    BY <1>2, <2>3 DEF MintReturns, tokenVars, lockVars, conditionVars, chainVars
  <2>4. QED BY <1>5, <2>1, <2>2, <2>3 DEF SalaryCalls
<1>6. CASE OracleCalls /\ UNCHANGED salaryVars
  BY <1>2, <1>6 DEF OracleCalls, CreateOracle, ChangeOracleOwner, UpdateGracePeriodEnds,
     ReportNumerator, ReportNumeratorsBatch, FinishOracle, Publish, baseVars, lockVars,
     tokenVars, conditionVars, salaryVars, chainVars
<1>7. CASE CollateralCalls /\ UNCHANGED salaryVars
  BY <1>7, CollateralCallsConserve
<1>8. CASE AccountCalls
  BY <1>8, AccountCallsConserve
<1>9. CASE DAOCalls
  <2>1. ASSUME NEW customer \in Customers, NEW control, RegisterCustomer(customer, control)
        PROVE  Conserved(Ledger, totals)'
    BY <1>1, <2>1, RegisterConserves, DAOAssumption DEF DAOAssumption, RegisterCustomer
  <2>2. ASSUME UNCHANGED baseVars PROVE Conserved(Ledger, totals)'
    BY <1>2, <2>2 DEF baseVars, tokenVars, lockVars, conditionVars, salaryVars, chainVars
  <2>3. QED BY <1>9, <2>1, <2>2 DEF DAOCalls, SetDAOControl, SetDAO
<1>10. CASE UNCHANGED vars
  BY <1>2, <1>10 DEF vars, baseVars, tokenVars, lockVars, conditionVars, salaryVars, chainVars
<1>11. QED BY <1>3, <1>4, <1>5, <1>6, <1>7, <1>8, <1>9, <1>10 DEF Next

\* At first there are no conditions, and no balances.
LEMMA InitConserved == Init => Conserved(Ledger, totals)
<1> SUFFICES ASSUME Init PROVE Conserved(Ledger, totals)
  OBVIOUS
<1>1. Ledger.maxConditionId = 0 /\ Ledger.balances = balances
  BY DEF Init, LockInit, Ledger
<1>2. \A n \in ConditionIds, a \in Addresses : balances[Condition(n)][a] = 0
  BY TokenKinds DEF Init, TokenInit
<1>3. \A n : ChainOf(Ledger, n) = {}
  BY <1>1 DEF ChainOf
<1>4. QED BY <1>1, <1>2, <1>3, SumEmpty DEF Conserved, Unheld

\* Recreating and transferring never leave more tokens of a chain in the accounts
\* than were minted for it (_recreateCondition moves a balance to the new
\* condition before it clears the old one).
THEOREM ChainsConserved == Spec => []ChainConserved
<1>1. Inv /\ Conserved(Ledger, totals) => ChainConserved
  <2> SUFFICES ASSUME Inv, Conserved(Ledger, totals), NEW n \in Created
               PROVE  SumFunction([m \in Chain(n) |-> Held(Condition(m))])
                        <= SumFunction([m \in Chain(n) |-> totals[Condition(m)]])
    BY DEF ChainConserved
  <2> DEFINE C == ChainOf(Ledger, n)
             f == [m \in C |-> Held(Condition(m))]
             g == [m \in C |-> totals[Condition(m)]]
             h == HeldBy(balances)
             k == MintedBy(totals)
  <2>1. /\ maxConditionId \in ConditionIds /\ balances \in [Tokens -> [Addresses -> Nat]]
        /\ totals \in [Tokens -> Nat]
        /\ Ledger.maxConditionId = maxConditionId /\ Ledger.balances = balances
        /\ Ledger.firstConditionInChain = firstConditionInChain
    BY DEF Inv, TypeOK, LockTypeOK, TokenTypeOK, Ledger
  <2>2. n \in ConditionIds
    BY <2>1, BoundAssumption DEF BoundAssumption, ConditionIds, Created
  <2>3. C = Chain(n)
    BY <2>1 DEF ChainOf, Chain, Created
  <2>4. IsFiniteSet(C) /\ C \subseteq ConditionIds
    BY <2>1, ChainOfTyped
  <2>5. SumFunctionOnSet(h, C) <= SumFunctionOnSet(k, C)
    BY <2>1, <2>2 DEF Conserved
  <2>6. \A m \in C : h[m] \in Int /\ h[m] = f[m] /\ k[m] \in Int /\ k[m] = g[m]
    <3>1. \A m \in C : h[m] = Held(Condition(m)) /\ k[m] = totals[Condition(m)]
      BY <2>4 DEF HeldBy, MintedBy, Held
    <3>2. \A m \in C : h[m] \in Nat /\ k[m] \in Nat
      BY <2>1, <2>4, HeldTyped, MintedTyped
    <3> HIDE DEF h, k, C
    <3>3. QED BY <3>1, <3>2
  <2>7. SumFunction(f) = SumFunctionOnSet(f, C) /\ SumFunction(g) = SumFunctionOnSet(g, C)
    BY DEF SumFunction
  <2> HIDE DEF f, g, h, k, C
  <2>8. SumFunctionOnSet(h, C) = SumFunctionOnSet(f, C) /\ SumFunctionOnSet(k, C) = SumFunctionOnSet(g, C)
    BY <2>4, <2>6, SumEqual
  <2>9. SumFunction(f) <= SumFunction(g)
    BY <2>5, <2>7, <2>8
  <2>10. QED BY <2>3, <2>9 DEF f, g
<1>2. Spec => [](Inv /\ LinksBlank /\ Conserved(Ledger, totals))
  BY InitKeeps, NextKeeps, InitBlank, StepKeepsBlank, InitConserved, StepConserves, PTL DEF Spec
<1>3. QED BY <1>1, <1>2, PTL

-----------------------------------------------------------------------------
(* What backs the donations, where they are assigned to the contract. *)

\* The contract holds all that is counted of each collateral, and no counter of an
\* oracle exceeds that.
AssignedToContract ==
    \A c \in Collaterals :
        /\ balances[Donated(c)][This] = totals[Donated(c)]
        /\ \A o \in Oracles : balances[PerOracle(c, o)][This] <= totals[Donated(c)]

\* A counter as the sum it is compared with.
Backing(c) == collateral[c][This] + SumFunctionOnSet(paid[c], Oracles)

Backed == \A c \in Collaterals : totals[Donated(c)] <= Backing(c)

\* The premise takes away calls and adds none.
LEMMA DonatedToContractIsNext == [DonatedToContractNext]_vars => [Next]_vars
<1> SUFFICES ASSUME DonatedToContractNext PROVE Next
  OBVIOUS
<1>1. CASE MarketCalls
  <2>1. ASSUME Answered /\ Tick /\ Rest(<<bidVars, salaryVars>>) PROVE Next
    BY <2>1 DEF Rest, Next
  <2>2. ASSUME NEW sender \in Users, CreateOracle(sender), Rest(<<bidVars, salaryVars>>)
        PROVE  Next
    BY <2>2 DEF Rest, Next, OracleCalls
  <2>3. ASSUME NEW sender \in Users, NEW o \in Oracles, NEW time \in Deadlines,
               UpdateGracePeriodEnds(sender, o, time), Rest(<<bidVars, salaryVars>>)
        PROVE  Next
    BY <2>3 DEF Rest, Next, OracleCalls
  <2>4. ASSUME NEW sender \in Users, NEW o \in Oracles, NEW t \in Scored, NEW m \in Scores,
               ReportNumerator(sender, o, t, m), Rest(salaryVars)
        PROVE  Next
    BY <2>4 DEF Rest, Next, OracleCalls
  <2>5. ASSUME NEW sender \in Users, NEW o \in Oracles, FinishOracle(sender, o), Rest(salaryVars)
        PROVE  Next
    BY <2>5 DEF Rest, Next, OracleCalls
  <2>6. ASSUME NEW sender \in Users, NEW o \in Oracles, NEW c \in Collaterals, NEW t \in Tokens,
               Withdraw(sender, c, o, t), Rest(salaryVars)
        PROVE  Next
    BY <2>6 DEF Rest, Next, CollateralCalls
  <2>7. ASSUME DAOCalls PROVE Next
    BY <2>7 DEF Next
  <2>8. QED BY <1>1, <2>1, <2>2, <2>3, <2>4, <2>5, <2>6, <2>7 DEF MarketCalls
<1>2. CASE SalaryCalls /\ Rest(<<>>)
  BY <1>2 DEF Rest, Next
<1>3. CASE DonationsToContract
  <2>1. PICK c \in Collaterals, o \in Oracles, v \in Amounts, from \in Users :
           /\ \/ Donate(c, o, v, from, This)
              \/ CollateralTransfer(c, from, This, v)
              \/ GatherDeFiProfit(c, o)
           /\ Rest(<<bidVars, salaryVars>>)
    BY <1>3 DEF DonationsToContract
  <2>2. This \in Users \cup {This} /\ from \in Users \cup {This} /\ This \in Addresses
    BY DEF Addresses
  <2>3. UNCHANGED <<salaryVars, accountVars, daoVars>> /\ UNCHANGED bidVars
    BY <2>1 DEF Rest
  <2>4. CollateralCalls
    BY <2>1, <2>2, <2>3 DEF CollateralCalls
  <2>5. QED BY <2>3, <2>4 DEF Next
<1>4. QED BY <1>1, <1>2, <1>3 DEF DonatedToContractNext

\* A collateral transfer moves what it says, on one account nothing.
LEMMA SpendPoints ==
    ASSUME TypeOK, NEW c \in Collaterals, NEW from \in Addresses, NEW to \in Addresses,
           NEW v \in Nat, Spend(c, from, to, v), NEW d \in Collaterals, NEW a \in Addresses
    PROVE  collateral'[d][a] =
             IF d = c /\ from # to /\ a = from THEN collateral[d][a] - v
             ELSE IF d = c /\ from # to /\ a = to THEN collateral[d][a] + v
             ELSE collateral[d][a]
<1> DEFINE k == collateral
           row1 == [k[c] EXCEPT ![from] = k[c][from] - v]
           row2 == [row1 EXCEPT ![to] = row1[to] + v]
<1>1. k \in [Collaterals -> [Addresses -> Nat]] /\ k[c] \in [Addresses -> Nat]
  BY DEF TypeOK, LockTypeOK
<1>2. collateral' = [k EXCEPT ![c] = row2]
  BY <1>1 DEF Spend
<1>3. collateral'[d][a] = IF d = c THEN row2[a] ELSE k[d][a]
  BY <1>1, <1>2
<1>4. row1 = [y \in Addresses |-> IF y = from THEN k[c][from] - v ELSE k[c][y]]
  BY <1>1
<1>5. row2 = [y \in Addresses |-> IF y = to THEN row1[to] + v ELSE row1[y]]
  BY <1>4
<1>6. row2[a] = IF from # to /\ a = from THEN k[c][a] - v
                ELSE IF from # to /\ a = to THEN k[c][a] + v ELSE k[c][a]
  <2>1. row2[a] = IF a = to THEN row1[to] + v ELSE row1[a]
    BY <1>5
  <2>2. row1[a] = IF a = from THEN k[c][from] - v ELSE k[c][a]
    BY <1>4
  <2>3. row1[to] = IF to = from THEN k[c][from] - v ELSE k[c][to]
    BY <1>4
  <2>4. k[c][from] \in Nat /\ k[c][to] \in Nat
    BY <1>1
  <2> HIDE DEF row1, row2, k
  <2>5. QED BY <2>1, <2>2, <2>3, <2>4
<1> HIDE DEF row1, row2
<1>7. QED BY <1>3, <1>6

\* What was paid out of a collateral is a natural number.
LEMMA PaidTotal ==
    ASSUME TypeOK, NEW c \in Collaterals
    PROVE  SumFunctionOnSet(paid[c], Oracles) \in Nat
<1>1. IsFiniteSet(Oracles) /\ \A o \in Oracles : paid[c][o] \in Nat
  BY BoundAssumption, FS_Interval DEF BoundAssumption, Oracles, TypeOK, LockTypeOK
<1>2. QED BY <1>1, SumIsNat

\* A donation, of collateral that was there or that comes, that collateral can back.
LEMMA DonationBacked ==
    ASSUME Inv, AssignedToContract, Backed, NEW c \in Collaterals, NEW o \in Oracles,
           NEW v \in Nat, NEW from \in Users \cup {This}, Donate(c, o, v, from, This),
           from = This => totals[Donated(c)] + v <= Backing(c)
    PROVE  AssignedToContract' /\ Backed'
<1>1. /\ TypeOK /\ from \in Addresses /\ This \in Addresses
      /\ totals \in [Tokens -> Nat] /\ balances \in [Tokens -> [Addresses -> Nat]]
      /\ collateral \in [Collaterals -> [Addresses -> Nat]]
  BY DEF Inv, TypeOK, TokenTypeOK, LockTypeOK, Addresses
<1>2. \A x \in Tokens :
        /\ totals'[x] = IF x \in {PerOracle(c, o), Donated(c)} THEN totals[x] + v ELSE totals[x]
        /\ balances'[x][This] = IF x \in {PerOracle(c, o), Donated(c)}
                                  THEN balances[x][This] + v ELSE balances[x][This]
  BY <1>1, DonatePoints
<1>3. Spend(c, from, This, v) /\ paid' = paid
  BY DEF Donate, payoutVars
<1>4. ASSUME NEW d \in Collaterals
      PROVE  /\ balances'[Donated(d)][This] = totals'[Donated(d)]
             /\ \A p \in Oracles : balances'[PerOracle(d, p)][This] <= totals'[Donated(d)]
             /\ totals'[Donated(d)] <= Backing(d)'
  <2> DEFINE x == Donated(d)
             k == SumFunctionOnSet(paid[d], Oracles)
  <2>1. x \in Tokens /\ (x \in {PerOracle(c, o), Donated(c)} <=> d = c)
    BY TokenKinds, PerOracleDistinct DEF Donated
  <2>2. /\ balances[x][This] = totals[x]
        /\ totals[x] <= collateral[d][This] + k
        /\ totals[x] \in Nat /\ collateral[d][This] \in Nat
        /\ Backing(d)' = collateral'[d][This] + k
        /\ (d = c /\ from = This) => totals[x] + v <= collateral[d][This] + k
    BY <1>1, <1>3, <2>1 DEF AssignedToContract, Backed, Backing
  <2>3. collateral'[d][This] = IF d = c /\ from # This THEN collateral[d][This] + v
                               ELSE collateral[d][This]
    BY <1>1, <1>3, SpendPoints
  <2>4. k \in Nat
    BY PaidTotal DEF Inv
  <2>5. totals'[x] = IF d = c THEN totals[x] + v ELSE totals[x]
    BY <1>2, <2>1
  <2>6. balances'[x][This] = IF d = c THEN balances[x][This] + v ELSE balances[x][This]
    BY <1>2, <2>1
  <2>7. ASSUME NEW p \in Oracles PROVE balances'[PerOracle(d, p)][This] <= totals'[x]
    <3> DEFINE y == PerOracle(d, p)
    <3>1. y \in Tokens /\ (y \in {PerOracle(c, o), Donated(c)} <=> (d = c /\ p = o))
      BY TokenKinds, PerOracleDistinct
    <3>2. balances[y][This] <= totals[x] /\ balances[y][This] \in Nat
      BY <1>1, <3>1 DEF AssignedToContract
    <3>3. balances'[y][This] = IF d = c /\ p = o THEN balances[y][This] + v
                               ELSE balances[y][This]
      BY <1>2, <3>1
    <3> HIDE DEF x, y
    <3>4. balances'[y][This] <= totals'[x]
      BY <2>2, <2>5, <3>2, <3>3
    <3>5. QED BY <3>4 DEF y, x
  <2> HIDE DEF x, k
  <2>8. balances'[x][This] = totals'[x] /\ totals'[x] <= Backing(d)'
    BY <2>2, <2>3, <2>4, <2>5, <2>6
  <2>9. QED BY <2>7, <2>8 DEF x
<1>5. QED BY <1>4 DEF AssignedToContract, Backed

\* A part of something, rounded down, is no more than it.
LEMMA PartOfIt ==
    ASSUME NEW d \in Nat, NEW s \in Nat, NEW k \in Nat, s <= k, k # 0
    PROVE  (d * s) \div k \in Nat /\ (d * s) \div k <= d
<1> DEFINE p == d * s
           q == d * k
<1>1. p \in Nat /\ q \in Nat /\ p <= q
  <2>1. PICK e \in Nat : k = s + e
    <3>1. k - s \in Nat /\ k = s + (k - s)
      OBVIOUS
    <3>2. QED BY <3>1
  <2>2. d * k = d * s + d * e /\ d * e \in Nat /\ d * s \in Nat
    BY <2>1
  <2>3. QED BY <2>2
<1>2. q < (d + 1) * k
  OBVIOUS
<1> DEFINE r == p \div k
<1>3. r \in Nat /\ k * r <= p
  <2> HIDE DEF p
  <2>1. QED BY <1>1
<1> HIDE DEF p, q, r
<1>4. ~(r >= d + 1)
  <2>1. SUFFICES ASSUME r >= d + 1 PROVE FALSE
    OBVIOUS
  <2>2. PICK e \in Nat : r = d + 1 + e
    <3>1. r - (d + 1) \in Nat /\ r = d + 1 + (r - (d + 1))
      BY <1>3, <2>1
    <3>2. QED BY <3>1
  <2>3. k * r = k * (d + 1) + k * e /\ k * e \in Nat /\ k * (d + 1) \in Nat
    BY <2>2
  <2>4. (d + 1) * k = k * (d + 1)
    OBVIOUS
  <2>5. QED BY <1>1, <1>2, <1>3, <2>3, <2>4
<1>5. QED BY <1>3, <1>4 DEF r, p

\* The profit that is gathered is there: a part of the difference between what the
\* contract holds of the collateral and what is counted.
LEMMA GatherBacked ==
    ASSUME Inv, AssignedToContract, Backed, NEW c \in Collaterals, NEW o \in Oracles,
           GatherDeFiProfit(c, o)
    PROVE  AssignedToContract' /\ Backed'
<1> DEFINE counted == balances[Donated(c)][This]
           difference == collateral[c][This] - counted
           share == balances[PerOracle(c, o)][This]
           v == (difference * share) \div counted
<1>1. /\ collateral[c][This] >= counted /\ counted # 0
      /\ Donate(c, o, v, This, This)
  BY DEF GatherDeFiProfit
<1>2. /\ counted \in Nat /\ share \in Nat /\ collateral[c][This] \in Nat
      /\ counted = totals[Donated(c)] /\ share <= counted
  BY TokenKinds DEF Addresses, Inv, TypeOK, TokenTypeOK, LockTypeOK, AssignedToContract
<1>3. difference \in Nat
  BY <1>1, <1>2
<1> HIDE DEF counted, share
<1>4. v \in Nat /\ v <= difference
  <2> HIDE DEF difference
  <2>1. QED BY <1>1, <1>2, <1>3, PartOfIt
<1>5. totals[Donated(c)] + v <= Backing(c)
  <2> HIDE DEF v
  <2>1. SumFunctionOnSet(paid[c], Oracles) \in Nat
    BY PaidTotal DEF Inv
  <2>2. QED BY <1>1, <1>2, <1>3, <1>4, <2>1 DEF Backing
<1> HIDE DEF v
<1>6. QED BY <1>1, <1>4, <1>5, DonationBacked

\* What is paid out is still accounted for.
LEMMA WithdrawBacked ==
    ASSUME Inv, AssignedToContract, Backed, NEW sender \in Users, NEW c \in Collaterals,
           NEW o \in Oracles, NEW t \in Tokens, Withdraw(sender, c, o, t)
    PROVE  AssignedToContract' /\ Backed'
<1> DEFINE owing == Owing(c, o, t, sender, RewardShare(o, t))
<1>1. /\ SupplyOf(t, o) # 0 /\ HasRewardShare(o)
      /\ CanSpend(c, This, owing)
      /\ Spend(c, This, sender, owing)
      /\ paid' = [paid EXCEPT ![c] = [paid[c] EXCEPT ![o] = paid[c][o] + owing]]
      /\ balances' = balances /\ totals' = totals
  BY DEF Withdraw, WithdrawCollateral, tokenVars
<1>2. /\ TypeOK /\ This \in Addresses /\ sender \in Addresses /\ sender # This
      /\ totals \in [Tokens -> Nat]
      /\ collateral \in [Collaterals -> [Addresses -> Nat]]
      /\ paid \in [Collaterals -> [Oracles -> Nat]]
  BY AddressAssumption DEF AddressAssumption, Inv, TypeOK, TokenTypeOK, LockTypeOK, Addresses
<1>3. owing \in Nat
  BY <1>1, OwingNat
<1> HIDE DEF owing
<1>4. ASSUME NEW d \in Collaterals PROVE Backing(d)' = Backing(d)
  <2> DEFINE f == paid[d]
             g == paid'[d]
  <2>1. collateral'[d][This] = IF d = c THEN collateral[d][This] - owing
                               ELSE collateral[d][This]
    BY <1>1, <1>2, <1>3, SpendPoints
  <2>2. collateral[d][This] \in Nat /\ IsFiniteSet(Oracles)
    BY <1>2, BoundAssumption, FS_Interval DEF BoundAssumption, Oracles
  <2>3. SumFunctionOnSet(f, Oracles) \in Nat
    BY <1>2, PaidTotal
  <2>4. CASE d = c
    <3>1. \A p \in Oracles : f[p] \in Int /\ g[p] \in Int
      BY <1>1, <1>2, <1>3
    <3>2. \A p \in Oracles \ {o} : g[p] = f[p]
      BY <1>1, <1>2
    <3>3. g[o] = f[o] + owing /\ f[o] \in Nat
      BY <1>1, <1>2, <2>4
    <3> HIDE DEF f, g
    <3>4. SumFunctionOnSet(g, Oracles) = SumFunctionOnSet(f, Oracles) - f[o] + g[o]
      BY <2>2, <3>1, <3>2, SumUpdate
    <3>5. collateral'[d][This] + SumFunctionOnSet(g, Oracles)
            = collateral[d][This] + SumFunctionOnSet(f, Oracles)
      BY <1>3, <2>1, <2>2, <2>3, <2>4, <3>3, <3>4
    <3>6. QED BY <3>5 DEF f, g, Backing
  <2>5. CASE d # c
    BY <1>1, <1>2, <2>1, <2>5 DEF Backing
  <2>6. QED BY <2>4, <2>5
<1>5. QED BY <1>1, <1>4 DEF AssignedToContract, Backed

\* Only conditions change.
LEMMA CountersUntouched ==
    ASSUME AssignedToContract, Backed, UNCHANGED <<collateral, paid>>,
           \A c \in Collaterals :
              /\ totals'[Donated(c)] = totals[Donated(c)]
              /\ balances'[Donated(c)][This] = balances[Donated(c)][This]
              /\ \A o \in Oracles : balances'[PerOracle(c, o)][This] = balances[PerOracle(c, o)][This]
    PROVE  AssignedToContract' /\ Backed'
BY DEF AssignedToContract, Backed, Backing

\* A recreation or a registration changes balances of conditions at most.
LEMMA SalaryCallsBacked ==
    ASSUME Inv, AssignedToContract, Backed, SalaryCalls
    PROVE  AssignedToContract' /\ Backed'
<1>1. /\ This \in Addresses /\ Ledger \in LedgerType /\ now \in Nat
      /\ Chains(Ledger, totals, now) /\ Ledger.balances = balances
      /\ \A sender \in Users : CurrentAddress(sender) \in Addresses
      /\ totals \in [Tokens -> Nat]
  BY LedgerTyped DEF Inv, TypeOK, TokenTypeOK, LockTypeOK, AccountTypeOK, CurrentAddress, Addresses,
                     Ledger
<1>2. ASSUME NEW n \in ConditionIds, RecreateCondition(n) PROVE AssignedToContract' /\ Backed'
  <2> DEFINE r == Recreate(Ledger, n)
             new == Ledger.maxConditionId + 1
  <2>1. CanRecreate(Ledger, n) /\ Install(r)
    BY <1>2 DEF RecreateCondition
  <2>2. n \in 1..Ledger.maxConditionId /\ Ledger.firstConditionInChain[n] = n
    BY <1>1, <2>1, FirstWasCreated DEF Chains, CanRecreate, EnsureFirst, IsFirstInChain
  <2>3. Ledger.firstToLastConditionInChain[n] = n
    BY <1>1, <2>2 DEF Chains, Rooted
  <2>4. n # new
    <3>1. Ledger.maxConditionId \in 0..MaxCondition /\ MaxCondition \in Nat
      BY <1>1, BoundAssumption DEF BoundAssumption, ConditionIds, LedgerType
    <3>2. QED BY <2>2, <3>1
  <2>5. \A x \in Tokens :
           r.balances[x][This] =
             IF This = Ledger.salaryReceivers[n] /\ x = Condition(n) THEN 0
             ELSE IF This = Ledger.salaryReceivers[n] /\ x = Condition(new)
               THEN Ledger.balances[Condition(n)][This]
             ELSE Ledger.balances[x][This]
    BY <1>1, <2>1, <2>3, <2>4, RecreateBalances
  <2>6. \A x \in Tokens : x[1] # "condition" => r.balances[x][This] = balances[x][This]
    BY <1>1, <2>5 DEF Condition
  <2>7. balances' = r.balances /\ UNCHANGED <<totals, collateral, paid>>
    BY <2>1 DEF Install, payoutVars
  <2> HIDE DEF r
  <2>8. \A x \in Tokens : x[1] # "condition" => balances'[x][This] = balances[x][This]
    BY <2>6, <2>7
  <2>9. QED BY <2>7, <2>8, TokenKinds, CountersUntouched DEF Donated, PerOracle
<1>3. ASSUME NEW sender \in Users, NEW n \in ConditionIds,
             MintSalary(sender, n, CurrentAddress(sender))
      PROVE  AssignedToContract' /\ Backed'
  <2> DEFINE to == CurrentAddress(sender)
  <2>1. MintSalary(sender, n, to) /\ to \in Addresses
    BY <1>1, <1>3
  <2> HIDE DEF to
  <2>2. /\ totals' = [totals EXCEPT ![Condition(n)] = @ + (now - lastSalaryDates[n])]
        /\ UNCHANGED <<collateral, paid>>
    BY <2>1, MintStep DEF lockVars, payoutVars
  <2>3. \A x \in Tokens : balances'[x][This] = IF x = Condition(n) /\ This = to
                             THEN balances[x][This] + (now - lastSalaryDates[n])
                             ELSE balances[x][This]
    BY <1>1, <2>1, MintPoints
  <2>4. \A x \in Tokens : x[1] # "condition" => /\ balances'[x][This] = balances[x][This]
                                                /\ totals'[x] = totals[x]
    BY <1>1, <2>2, <2>3 DEF Condition
  <2>5. QED BY <2>2, <2>4, TokenKinds, CountersUntouched DEF Donated, PerOracle
<1>4. ASSUME NEW n \in ConditionIds, MintReturns(n) PROVE AssignedToContract' /\ Backed'
  BY <1>4, CountersUntouched DEF MintReturns, tokenVars, lockVars, payoutVars
<1>5. QED BY <1>2, <1>3, <1>4 DEF SalaryCalls

\* Donations, profits, and collateral that is sent to the contract.
LEMMA DonationsBacked ==
    ASSUME Inv, AssignedToContract, Backed, DonationsToContract
    PROVE  AssignedToContract' /\ Backed'
<1>1. PICK c \in Collaterals, o \in Oracles, v \in Amounts, from \in Users :
         \/ Donate(c, o, v, from, This)
         \/ CollateralTransfer(c, from, This, v)
         \/ GatherDeFiProfit(c, o)
  BY DEF DonationsToContract
<1>2. /\ v \in Nat /\ from \in Addresses /\ This \in Addresses /\ from # This /\ TypeOK
      /\ totals \in [Tokens -> Nat]
      /\ collateral \in [Collaterals -> [Addresses -> Nat]]
  BY AddressAssumption, BoundAssumption
  DEF AddressAssumption, BoundAssumption, Addresses, Inv, TypeOK, TokenTypeOK, LockTypeOK
<1>3. CASE Donate(c, o, v, from, This)
  BY <1>2, <1>3, DonationBacked
<1>4. CASE CollateralTransfer(c, from, This, v)
  <2>1. Spend(c, from, This, v) /\ UNCHANGED <<balances, totals, paid>>
    BY <1>4 DEF CollateralTransfer, tokenVars, payoutVars
  <2>2. ASSUME NEW d \in Collaterals PROVE Backing(d)' >= Backing(d) /\ Backing(d) \in Nat
    <3>1. collateral'[d][This] = IF d = c THEN collateral[d][This] + v ELSE collateral[d][This]
      BY <1>2, <2>1, SpendPoints
    <3>2. SumFunctionOnSet(paid[d], Oracles) \in Nat /\ collateral[d][This] \in Nat
      BY <1>2, PaidTotal
    <3> DEFINE k == SumFunctionOnSet(paid[d], Oracles)
    <3>3. Backing(d)' = collateral'[d][This] + k /\ Backing(d) = collateral[d][This] + k
      BY <2>1 DEF Backing
    <3> HIDE DEF k
    <3>4. k \in Nat
      BY <3>2 DEF k
    <3>5. QED BY <1>2, <3>1, <3>2, <3>3, <3>4
  <2>3. Backed'
    <3>1. SUFFICES ASSUME NEW d \in Collaterals PROVE totals[Donated(d)] <= Backing(d)'
      BY <2>1 DEF Backed
    <3>2. totals[Donated(d)] <= Backing(d) /\ totals[Donated(d)] \in Nat
      BY <1>2, TokenKinds DEF Backed
    <3>3. Backing(d)' \in Int
      <4>1. SumFunctionOnSet(paid[d], Oracles) \in Nat
        BY <1>2, PaidTotal
      <4>2. collateral'[d][This] \in Int
        <5>1. collateral'[d][This] = IF d = c THEN collateral[d][This] + v ELSE collateral[d][This]
          BY <1>2, <2>1, SpendPoints
        <5>2. QED BY <1>2, <5>1
      <4>3. QED BY <2>1, <4>1, <4>2 DEF Backing
    <3>4. QED BY <2>2, <3>2, <3>3
  <2>4. QED BY <2>1, <2>3 DEF AssignedToContract
<1>5. CASE GatherDeFiProfit(c, o)
  BY <1>5, GatherBacked
<1>6. QED BY <1>1, <1>3, <1>4, <1>5

\* The calls of the life of a market.
LEMMA MarketCallsBacked ==
    ASSUME Inv, AssignedToContract, Backed, MarketCalls
    PROVE  AssignedToContract' /\ Backed'
<1>1. ASSUME UNCHANGED <<balances, totals, collateral, paid>>
      PROVE  AssignedToContract' /\ Backed'
  BY <1>1, CountersUntouched
<1>2. ASSUME DAOCalls PROVE AssignedToContract' /\ Backed'
  <2>1. ASSUME NEW customer \in Customers, NEW control, RegisterCustomer(customer, control)
        PROVE  UNCHANGED <<balances, totals, collateral, paid>>
    <3> DEFINE N == NewCondition(Ledger, OriginalAddress(customer))
               r == [N EXCEPT !.lastSalaryDates[maxConditionId + 1] = now]
    <3>1. /\ CanCreateCondition(Ledger) /\ OriginalAddress(customer) \in Addresses
          /\ Install(r) /\ Ledger \in LedgerType /\ now \in Nat
      BY <2>1, DAOAssumption, LedgerTyped
      DEF DAOAssumption, RegisterCustomer, RegisterSalary, Inv, TypeOK, LockTypeOK,
          AccountTypeOK, OriginalAddress
    <3>2. N \in LedgerType /\ N.balances = Ledger.balances
      BY <3>1, NewConditionAdds
    <3> HIDE DEF N
    <3>3. r.balances = balances
      BY <3>2 DEF LedgerType, Ledger
    <3> HIDE DEF r
    <3>4. QED BY <3>1, <3>3 DEF Install, payoutVars
  <2>2. ASSUME UNCHANGED baseVars PROVE UNCHANGED <<balances, totals, collateral, paid>>
    BY <2>2 DEF baseVars, tokenVars, lockVars, payoutVars
  <2>3. QED BY <1>1, <1>2, <2>1, <2>2 DEF DAOCalls, SetDAOControl, SetDAO
<1>3. ASSUME Tick PROVE AssignedToContract' /\ Backed'
  BY <1>1, <1>3 DEF Tick, tokenVars, payoutVars
<1>4. ASSUME NEW sender \in Users, NEW o \in Oracles, NEW time, NEW t, NEW m,
             \/ UpdateGracePeriodEnds(sender, o, time)
             \/ ReportNumerator(sender, o, t, m)
             \/ FinishOracle(sender, o)
      PROVE  UNCHANGED <<balances, totals, collateral, paid>>
  BY <1>4 DEF UpdateGracePeriodEnds, ReportNumerator, Publish, FinishOracle,
              tokenVars, lockVars, payoutVars
<1>5. ASSUME NEW sender \in Users, CreateOracle(sender)
      PROVE  UNCHANGED <<balances, totals, collateral, paid>>
  BY <1>5 DEF CreateOracle, tokenVars, payoutVars
<1>6. QED BY <1>1, <1>2, <1>3, <1>4, <1>5, WithdrawBacked DEF MarketCalls

\* The inductive invariant of the markets that assign donations to the contract.
LEMMA StepBacked ==
    Inv /\ AssignedToContract /\ Backed /\ [DonatedToContractNext]_vars
       => AssignedToContract' /\ Backed'
<1> SUFFICES ASSUME Inv, AssignedToContract, Backed, [DonatedToContractNext]_vars
             PROVE  AssignedToContract' /\ Backed'
  OBVIOUS
<1>1. CASE UNCHANGED vars
  BY <1>1, CountersUntouched DEF vars, baseVars, tokenVars, lockVars, payoutVars
<1>2. CASE DonatedToContractNext
  BY <1>2, MarketCallsBacked, SalaryCallsBacked, DonationsBacked DEF DonatedToContractNext
<1>3. QED BY <1>1, <1>2

\* Nothing is counted at the start.
LEMMA InitBacked == Init => AssignedToContract /\ Backed
<1> SUFFICES ASSUME Init PROVE AssignedToContract /\ Backed
  OBVIOUS
<1>1. /\ This \in Addresses /\ TypeOK
      /\ \A t \in Tokens : totals[t] = 0 /\ balances[t][This] = 0
      /\ collateral \in [Collaterals -> [Addresses -> Nat]]
  BY InitKeeps DEF Inv, Init, TokenInit, Addresses, TypeOK, LockTypeOK
<1>2. AssignedToContract
  BY <1>1, TokenKinds DEF AssignedToContract
<1>3. ASSUME NEW c \in Collaterals PROVE totals[Donated(c)] <= Backing(c)
  <2>1. SumFunctionOnSet(paid[c], Oracles) \in Nat
    BY <1>1, PaidTotal
  <2>2. totals[Donated(c)] = 0 /\ collateral[c][This] \in Nat
    BY <1>1, TokenKinds
  <2>3. QED BY <2>1, <2>2 DEF Backing
<1>4. QED BY <1>2, <1>3 DEF Backed

\* Where users donate and the donations are assigned to the contract, the
\* donations counted were received: the contract has them or has paid them out
\* (gatherDeFiProfit counts no more than the profit, whatever part it rounds down).
THEOREM DonationsWereReceived == DonatedToContractSpec => []CountersBacked
<1>1. Inv /\ Backed => CountersBacked
  <2> SUFFICES ASSUME Inv, Backed, NEW c \in Collaterals
               PROVE  totals[Donated(c)] <= collateral[c][This] + SumFunction(paid[c])
    BY DEF CountersBacked
  <2>1. DOMAIN paid[c] = Oracles
    BY DEF Inv, TypeOK, LockTypeOK
  <2>2. SumFunction(paid[c]) = SumFunctionOnSet(paid[c], Oracles)
    BY <2>1 DEF SumFunction
  <2>3. QED BY <2>2 DEF Backed, Backing
<1>2. DonatedToContractSpec => [](Inv /\ LinksBlank /\ AssignedToContract /\ Backed)
  BY InitKeeps, NextKeeps, InitBlank, StepKeepsBlank, InitBacked, StepBacked,
     DonatedToContractIsNext, PTL
  DEF DonatedToContractSpec
<1>3. QED BY <1>1, <1>2, PTL

-----------------------------------------------------------------------------
(* What checkMovedOwner says where no account is linked. *)

\* Where nothing is linked, the loop of checkMovedOwner meets the account itself
\* and then the zero address.
LEMMA BlankMovedOwner ==
    ASSUME LinksBlank, NEW old \in Addresses, NEW new \in Addresses, MovedOwner(old, new)
    PROVE  new = old \/ new = Zero
<1> DEFINE account[i \in Nat] == IF i = 0 THEN old ELSE newToOldAccount[account[i - 1]]
<1>1. PICK n \in 0..Cardinality(Addresses) :
            /\ account[n] = new
            /\ \A j \in 0..(n - 1) : account[j] # Zero
  BY DEF MovedOwner
<1>2. account = CHOOSE g : g = [i \in Nat |-> IF i = 0 THEN old ELSE newToOldAccount[g[i - 1]]]
  BY DEF account
<1> DEFINE F == [k \in Nat |-> IF k = 0 THEN old ELSE Zero]
<1>3. F = [k \in Nat |-> IF k = 0 THEN old ELSE newToOldAccount[F[k - 1]]]
  <2>1. \A k \in Nat \ {0} : k - 1 \in Nat
    OBVIOUS
  <2>2. Zero \in Addresses
    BY DEF Addresses
  <2>3. \A k \in Nat : F[k] \in Addresses
    BY <2>2
  <2>4. QED BY <2>1, <2>3 DEF LinksBlank
<1> HIDE DEF account
<1>4. account = [k \in Nat |-> IF k = 0 THEN old ELSE newToOldAccount[account[k - 1]]]
  BY <1>2, <1>3
<1>5. account[0] = old /\ account[1] = newToOldAccount[old]
  BY <1>4
<1>6. account[1] = Zero
  BY <1>5 DEF LinksBlank
<1>7. IsFiniteSet(Addresses) /\ Cardinality(Addresses) \in Nat
  BY AddressesFinite, FS_CardinalityType
<1>8. QED BY <1>1, <1>5, <1>6, <1>7

-----------------------------------------------------------------------------
(* Who gains from a transfer. *)

\* From balances b to balances d, no account gained of the token x.
NoGain(b, d, x) == \A a \in Addresses : d[x][a] <= b[x][a]

\* Only `to` may have gained, and no more than `from` lost.
Carried(b, d, from, to, x) ==
    \A a \in Addresses :
        \/ d[x][a] <= b[x][a]
        \/ a = to /\ from # to /\ d[x][a] - b[x][a] <= b[x][from] - d[x][from]

\* Two transfers in a row, with the same ends, are as good as one.
LEMMA CarriedTwice ==
    ASSUME NEW b \in [Tokens -> [Addresses -> Nat]], NEW d \in [Tokens -> [Addresses -> Nat]],
           NEW e \in [Tokens -> [Addresses -> Nat]],
           NEW from \in Addresses, NEW to \in Addresses, NEW x \in Tokens,
           Carried(b, d, from, to, x), Carried(d, e, from, to, x)
    PROVE  Carried(b, e, from, to, x)
<1>1. SUFFICES ASSUME NEW a \in Addresses
               PROVE  \/ e[x][a] <= b[x][a]
                      \/ a = to /\ from # to /\ e[x][a] - b[x][a] <= b[x][from] - e[x][from]
  BY DEF Carried
<1>2. /\ b[x][a] \in Nat /\ d[x][a] \in Nat /\ e[x][a] \in Nat
      /\ b[x][from] \in Nat /\ d[x][from] \in Nat /\ e[x][from] \in Nat
  OBVIOUS
<1>3. from # to => d[x][from] <= b[x][from] /\ e[x][from] <= d[x][from]
  BY DEF Carried
<1>4. /\ \/ d[x][a] <= b[x][a]
         \/ a = to /\ from # to /\ d[x][a] - b[x][a] <= b[x][from] - d[x][from]
      /\ \/ e[x][a] <= d[x][a]
         \/ a = to /\ from # to /\ e[x][a] - d[x][a] <= d[x][from] - e[x][from]
  BY DEF Carried
<1>5. QED BY <1>2, <1>3, <1>4

\* A recreation brings no account more of a token that was there before.
LEMMA RecreateNoGain ==
    ASSUME NEW s \in LedgerType, NEW tot, NEW n \in ConditionIds, now \in Nat,
           Chains(s, tot, now), CanRecreate(s, n),
           NEW x \in Tokens, x # Condition(s.maxConditionId + 1)
    PROVE  NoGain(s.balances, Recreate(s, n).balances, x)
<1>1. n \in 1..s.maxConditionId /\ s.firstConditionInChain[n] = n
  BY FirstWasCreated DEF Chains, CanRecreate, EnsureFirst, IsFirstInChain
<1>2. s.firstToLastConditionInChain[n] = n
  BY <1>1 DEF Chains, Rooted
<1>3. n # s.maxConditionId + 1
  <2>1. s.maxConditionId \in 0..MaxCondition /\ MaxCondition \in Nat
    BY BoundAssumption DEF BoundAssumption, ConditionIds, LedgerType
  <2>2. QED BY <1>1, <2>1
<1>4. \A a \in Addresses :
         Recreate(s, n).balances[x][a] =
             IF a = s.salaryReceivers[n] /\ x = Condition(n) THEN 0
             ELSE IF a = s.salaryReceivers[n] /\ x = Condition(s.maxConditionId + 1)
               THEN s.balances[Condition(n)][a]
             ELSE s.balances[x][a]
  BY <1>2, <1>3, RecreateBalances
<1>5. \A a \in Addresses : s.balances[x][a] \in Nat
  BY DEF LedgerType
<1>6. QED BY <1>4, <1>5 DEF NoGain

\* A transfer carries a token from one account to another, and recreates at most
\* a condition of the sender.
LEMMA TransferCarries ==
    ASSUME NEW s \in LedgerType, NEW tot, NEW t \in Tokens,
           NEW from \in Addresses, NEW to \in Addresses, NEW v \in Nat, NEW sender,
           now \in Nat, Chains(s, tot, now), CanTransfer(s, sender, t, from, v),
           NEW x \in Tokens,
           \A k \in (s.maxConditionId + 1)..Transfer(s, sender, t, from, to, v).maxConditionId :
              x # Condition(k)
    PROVE  /\ Carried(s.balances, Transfer(s, sender, t, from, to, v).balances, from, to, x)
           /\ x # t => NoGain(s.balances, Transfer(s, sender, t, from, to, v).balances, x)
<1> DEFINE moved == Move(s, t, from, to, v)
           r == Transfer(s, sender, t, from, to, v)
<1>1. moved \in LedgerType /\ SameChains(s, moved)
  BY MoveTyped DEF CanTransfer
<1>2. r \in LedgerType
  BY TransferCases
<1>3. /\ s.balances \in [Tokens -> [Addresses -> Nat]]
      /\ moved.balances \in [Tokens -> [Addresses -> Nat]]
      /\ r.balances \in [Tokens -> [Addresses -> Nat]]
  BY <1>1, <1>2 DEF LedgerType
<1>4. /\ Carried(s.balances, moved.balances, from, to, x)
      /\ x # t => NoGain(s.balances, moved.balances, x)
  <2>1. CanMove(s, t, from, v)
    BY DEF CanTransfer
  <2>2. \A a \in Addresses :
           moved.balances[x][a] =
             IF x = t /\ from # to /\ a = from THEN s.balances[x][a] - v
             ELSE IF x = t /\ from # to /\ a = to THEN s.balances[x][a] + v
             ELSE s.balances[x][a]
    BY <2>1, MoveBalances
  <2> DEFINE f == s.balances[x]
             g == moved.balances[x]
  <2>3. f \in [Addresses -> Nat] /\ g \in [Addresses -> Nat]
    BY <1>3
  <2> HIDE DEF moved, f, g
  <2>4. \A a \in Addresses : g[a] = IF x = t /\ from # to /\ a = from THEN f[a] - v
                                    ELSE IF x = t /\ from # to /\ a = to THEN f[a] + v
                                    ELSE f[a]
    BY <2>2 DEF f, g
  <2>5. \A a \in Addresses : \/ g[a] <= f[a]
                             \/ a = to /\ from # to /\ g[a] - f[a] <= f[from] - g[from]
    BY <2>3, <2>4
  <2>6. x # t => \A a \in Addresses : g[a] <= f[a]
    BY <2>3, <2>4
  <2>7. QED BY <2>5, <2>6 DEF Carried, NoGain, f, g
<1> HIDE DEF moved
<1>5. NoGain(moved.balances, r.balances, x)
  <2>1. CASE ~Recreates(s, sender, t)
    <3>1. r.balances = moved.balances
      BY <2>1 DEF Transfer, moved
    <3> HIDE DEF r
    <3>2. QED BY <1>3, <3>1 DEF NoGain
  <2>2. CASE Recreates(s, sender, t)
    <3>1. PICK n \in ConditionIds : t = Condition(n)
      BY <2>2 DEF Recreates
    <3>2. t[2] = n
      BY <3>1 DEF Condition
    <3>3. CanRecreate(s, n)
      BY <2>2, <3>2 DEF CanTransfer
    <3>4. CanRecreate(moved, n) /\ moved.maxConditionId = s.maxConditionId
      BY <1>1, <3>3 DEF CanRecreate, EnsureFirst, IsFirstInChain, CanCreateCondition, SameChains
    <3>5. Chains(moved, tot, now)
      BY <1>1, SameChainsKept
    <3>6. r = Recreate(moved, n)
      BY <2>2, <3>2 DEF Transfer, moved
    <3>7. r.maxConditionId = s.maxConditionId + 1
      <4>1. Recreated(moved, Recreate(moved, n), n)
        BY <1>1, <3>4, RecreateAdds
      <4> HIDE DEF r
      <4>2. QED BY <3>4, <3>6, <4>1 DEF Recreated, OneMore
    <3>8. s.maxConditionId + 1 \in (s.maxConditionId + 1)..r.maxConditionId
      <4>1. s.maxConditionId \in Nat
        BY DEF LedgerType, ConditionIds
      <4> HIDE DEF r
      <4>2. QED BY <3>7, <4>1
    <3>9. x # Condition(s.maxConditionId + 1)
      BY <3>8
    <3>10. NoGain(moved.balances, Recreate(moved, n).balances, x)
      BY <1>1, <3>4, <3>5, <3>9, RecreateNoGain
    <3>11. QED BY <3>6, <3>10
  <2>3. QED BY <2>1, <2>2
<1> HIDE DEF r
<1>6. Carried(s.balances, r.balances, from, to, x)
  <2>1. Carried(moved.balances, r.balances, from, to, x)
    BY <1>5 DEF Carried, NoGain
  <2>2. QED BY <1>3, <1>4, <2>1, CarriedTwice
<1>7. x # t => NoGain(s.balances, r.balances, x)
  <2>1. SUFFICES ASSUME x # t, NEW a \in Addresses PROVE r.balances[x][a] <= s.balances[x][a]
    BY DEF NoGain
  <2>2. moved.balances[x][a] <= s.balances[x][a] /\ r.balances[x][a] <= moved.balances[x][a]
    BY <1>4, <1>5, <2>1 DEF NoGain
  <2>3. s.balances[x][a] \in Nat /\ moved.balances[x][a] \in Nat /\ r.balances[x][a] \in Nat
    BY <1>3
  <2>4. QED BY <2>2, <2>3
<1>8. QED BY <1>6, <1>7 DEF r

-----------------------------------------------------------------------------
(* Redeemed tokens stay where they are. *)

\* What LockedTokensNotGathered says of a step.
NothingGathered ==
    \A t \in Tokens \ JustCreated, a \in Addresses \ {Zero} :
        Gain(t, a) > 0 =>
            \/ totals'[t] > totals[t]
            \/ \E b \in Addresses : <<b, t>> \notin userUsedRedeem /\ Loss(t, b) >= Gain(t, a)

\* A step that brings nothing to an account gathers nothing.
LEMMA NoGainGathersNothing ==
    ASSUME Inv, TypeOK',
           \A t \in Tokens \ JustCreated, a \in Addresses \ {Zero} : balances'[t][a] <= balances[t][a]
    PROVE  NothingGathered
<1>1. SUFFICES ASSUME NEW t \in Tokens \ JustCreated, NEW a \in Addresses \ {Zero}
               PROVE  ~(Gain(t, a) > 0)
  BY DEF NothingGathered
<1>2. balances[t][a] \in Nat /\ balances'[t][a] \in Nat /\ balances'[t][a] <= balances[t][a]
  BY DEF Inv, TypeOK, TokenTypeOK
<1>3. QED BY <1>2 DEF Gain

\* A transfer gathers nothing if the tokens it carries are not locked.
LEMMA CarriedGathersNothing ==
    ASSUME Inv, TypeOK', NEW from \in Addresses, NEW to \in Addresses, NEW Moved,
           \A t \in Moved : <<from, t>> \notin userUsedRedeem,
           \A t \in Tokens \ JustCreated : /\ Carried(balances, balances', from, to, t)
                                           /\ t \notin Moved => NoGain(balances, balances', t)
    PROVE  NothingGathered
<1>1. SUFFICES ASSUME NEW t \in Tokens \ JustCreated, NEW a \in Addresses \ {Zero}, Gain(t, a) > 0
               PROVE  \E b \in Addresses : <<b, t>> \notin userUsedRedeem /\ Loss(t, b) >= Gain(t, a)
  BY DEF NothingGathered
<1>2. balances \in [Tokens -> [Addresses -> Nat]] /\ balances' \in [Tokens -> [Addresses -> Nat]]
  BY DEF Inv, TypeOK, TokenTypeOK
<1>3. /\ balances[t][a] \in Nat /\ balances'[t][a] \in Nat
      /\ balances[t][from] \in Nat /\ balances'[t][from] \in Nat
  BY <1>2
<1>4. ~(balances'[t][a] <= balances[t][a])
  BY <1>1, <1>3 DEF Gain
<1>5. t \in Moved
  BY <1>4 DEF NoGain
<1>6. balances'[t][a] - balances[t][a] <= balances[t][from] - balances'[t][from]
  BY <1>4 DEF Carried
<1>7. Loss(t, from) >= Gain(t, a)
  BY <1>3, <1>6 DEF Loss, Gain
<1>8. QED BY <1>5, <1>7

\* Transfers, alone and in a batch.
LEMMA TokenCallsGatherNothing ==
    ASSUME Inv, TypeOK', TokenCalls
    PROVE  NothingGathered
<1>1. /\ Ledger \in LedgerType /\ Ledger.balances = balances /\ Ledger.maxConditionId = maxConditionId
      /\ now \in Nat /\ now >= 1 /\ maxConditionId \in Nat
      /\ Chains(Ledger, totals, now)
      /\ balances \in [Tokens -> [Addresses -> Nat]]
  <2>1. Ledger \in LedgerType /\ Chains(Ledger, totals, now)
    BY LedgerTyped DEF Inv
  <2>2. Ledger.balances = balances /\ Ledger.maxConditionId = maxConditionId
    BY DEF Ledger
  <2>3. QED BY <2>1, <2>2 DEF Inv, TypeOK, LockTypeOK, TokenTypeOK, ConditionIds
<1>2. PICK sender \in Users :
         \/ \E operator \in Users, approved \in BOOLEAN :
               /\ SetApprovalForAll(sender, operator, approved)
               /\ UNCHANGED <<lockVars, bidVars, salaryVars>>
         \/ \E from, to \in Addresses, t \in Tokens, v \in Amounts :
               SafeTransferFrom(sender, from, to, t, v)
         \/ \E from, to \in Addresses, t1, t2 \in Tokens, v1, v2 \in Amounts :
               SafeBatchTransferFrom(sender, from, to, t1, v1, t2, v2)
  BY DEF TokenCalls
<1>3. ASSUME NEW operator, NEW approved, SetApprovalForAll(sender, operator, approved)
      PROVE  NothingGathered
  <2>1. \A t \in Tokens, a \in Addresses : balances'[t][a] <= balances[t][a]
    BY <1>1, <1>3 DEF SetApprovalForAll
  <2>2. QED BY <2>1, NoGainGathersNothing
<1>4. ASSUME NEW from \in Addresses, NEW to \in Addresses, NEW t \in Tokens, NEW v \in Amounts,
             SafeTransferFrom(sender, from, to, t, v)
      PROVE  NothingGathered
  <2> DEFINE r == Transfer(Ledger, sender, t, from, to, v)
  <2>1. v \in Nat /\ CanTransfer(Ledger, sender, t, from, v) /\ Install(r)
        /\ <<from, t>> \notin userUsedRedeem
    BY <1>4, BoundAssumption
    DEF BoundAssumption, SafeTransferFrom, BaseSafeTransferFrom, IsUnlocked
  <2>2. balances' = r.balances /\ maxConditionId' = r.maxConditionId
    BY <2>1 DEF Install
  <2>3. ASSUME NEW x \in Tokens \ JustCreated
        PROVE  /\ Carried(balances, balances', from, to, x)
               /\ x \notin {t} => NoGain(balances, balances', x)
    <3>1. \A k \in (Ledger.maxConditionId + 1)..r.maxConditionId : x # Condition(k)
      BY <1>1, <2>2 DEF JustCreated
    <3>2. /\ Carried(Ledger.balances, r.balances, from, to, x)
          /\ x # t => NoGain(Ledger.balances, r.balances, x)
      BY <1>1, <2>1, <3>1, TransferCarries
    <3> HIDE DEF r
    <3>3. QED BY <1>1, <2>2, <3>2
  <2> HIDE DEF r
  <2>4. QED BY <2>1, <2>3, CarriedGathersNothing
<1>5. ASSUME NEW from \in Addresses, NEW to \in Addresses, NEW t1 \in Tokens, NEW t2 \in Tokens,
             NEW v1 \in Amounts, NEW v2 \in Amounts,
             SafeBatchTransferFrom(sender, from, to, t1, v1, t2, v2)
      PROVE  NothingGathered
  <2> DEFINE first == Transfer(Ledger, sender, t1, from, to, v1)
             r == Transfer(first, sender, t2, from, to, v2)
  <2>1. /\ v1 \in Nat /\ v2 \in Nat
        /\ CanTransfer(Ledger, sender, t1, from, v1)
        /\ CanTransfer(first, sender, t2, from, v2)
        /\ Install(r)
        /\ \A x \in {t1, t2} : <<from, x>> \notin userUsedRedeem
    BY <1>5, BoundAssumption
    DEF BoundAssumption, SafeBatchTransferFrom, BaseSafeBatchTransferFrom, IsUnlocked
  <2>2. /\ first \in LedgerType
        /\ SameChains(Ledger, first) \/ \E n \in ConditionIds : Recreated(Ledger, first, n)
    BY <1>1, <2>1, TransferCases
  <2>3. balances' = r.balances /\ maxConditionId' = r.maxConditionId
    BY <2>1 DEF Install
  <2>4. /\ maxConditionId <= first.maxConditionId
        /\ first.maxConditionId <= r.maxConditionId
        /\ first.maxConditionId \in Nat /\ r.maxConditionId \in Nat
    <3> HIDE DEF first
    <3>1. /\ r \in LedgerType
          /\ SameChains(first, r) \/ \E n \in ConditionIds : Recreated(first, r, n)
      BY <1>1, <2>1, <2>2, TransferCases
    <3> HIDE DEF r
    <3>2. first.maxConditionId \in Nat /\ r.maxConditionId \in Nat
      BY <2>2, <3>1 DEF LedgerType, ConditionIds
    <3>3. /\ first.maxConditionId = maxConditionId \/ first.maxConditionId = maxConditionId + 1
          /\ r.maxConditionId = first.maxConditionId \/ r.maxConditionId = first.maxConditionId + 1
      BY <1>1, <2>2, <3>1 DEF SameChains, Recreated, OneMore
    <3>4. QED BY <1>1, <3>2, <3>3
  <2>5. Chains(first, totals, now)
    BY <1>1, <2>2, SameChainsKept, RecreatedKeepsChains
  <2>6. r \in LedgerType
    <3> HIDE DEF first
    <3>1. QED BY <1>1, <2>1, <2>2, TransferCases
  <2>7. /\ first.balances \in [Tokens -> [Addresses -> Nat]]
        /\ r.balances \in [Tokens -> [Addresses -> Nat]]
    <3> HIDE DEF first, r
    <3>1. QED BY <2>2, <2>6 DEF LedgerType
  <2>8. ASSUME NEW x \in Tokens \ JustCreated
        PROVE  /\ Carried(balances, balances', from, to, x)
               /\ x \notin {t1, t2} => NoGain(balances, balances', x)
    <3>1. \A k \in (maxConditionId + 1)..r.maxConditionId : x # Condition(k)
      BY <2>3 DEF JustCreated
    <3>2. \A k \in (Ledger.maxConditionId + 1)..first.maxConditionId : x # Condition(k)
      <4> HIDE DEF first, r
      <4>1. QED BY <1>1, <2>4, <3>1
    <3>3. \A k \in (first.maxConditionId + 1)..r.maxConditionId : x # Condition(k)
      <4> HIDE DEF first, r
      <4>1. QED BY <1>1, <2>4, <3>1
    <3>4. /\ Carried(Ledger.balances, first.balances, from, to, x)
          /\ x # t1 => NoGain(Ledger.balances, first.balances, x)
      BY <1>1, <2>1, <3>2, TransferCarries
    <3> HIDE DEF first
    <3>5. /\ Carried(first.balances, r.balances, from, to, x)
          /\ x # t2 => NoGain(first.balances, r.balances, x)
      BY <1>1, <2>1, <2>2, <2>5, <3>3, TransferCarries
    <3> HIDE DEF r
    <3>6. Carried(balances, r.balances, from, to, x)
      BY <1>1, <2>7, <3>4, <3>5, CarriedTwice
    <3>7. ASSUME x \notin {t1, t2} PROVE NoGain(balances, r.balances, x)
      <4>1. NoGain(balances, first.balances, x) /\ NoGain(first.balances, r.balances, x)
        BY <1>1, <3>4, <3>5, <3>7
      <4>2. \A a \in Addresses : /\ balances[x][a] \in Nat /\ first.balances[x][a] \in Nat
                                 /\ r.balances[x][a] \in Nat
        BY <1>1, <2>7
      <4>3. QED BY <4>1, <4>2 DEF NoGain
    <3>8. QED BY <2>3, <3>6, <3>7
  <2> HIDE DEF first, r
  <2>9. QED BY <2>1, <2>8, CarriedGathersNothing
<1>6. QED BY <1>2, <1>3, <1>4, <1>5

\* Salaries: a mint grows the total with the balance, a recreation brings nothing.
LEMMA SalaryCallsGatherNothing ==
    ASSUME Inv, TypeOK', SalaryCalls
    PROVE  NothingGathered
<1>1. /\ now \in Nat
      /\ balances \in [Tokens -> [Addresses -> Nat]]
      /\ totals \in [Tokens -> Nat]
      /\ \A a \in Users : CurrentAddress(a) \in Addresses
  BY DEF Inv, TypeOK, LockTypeOK, TokenTypeOK, AccountTypeOK, CurrentAddress, Addresses
<1>2. ASSUME NEW n \in ConditionIds, RecreateCondition(n) PROVE NothingGathered
  <2> DEFINE r == Recreate(Ledger, n)
  <2>1. CanRecreate(Ledger, n) /\ Install(r)
    BY <1>2 DEF RecreateCondition
  <2>2. Ledger \in LedgerType /\ Chains(Ledger, totals, now)
    BY LedgerTyped DEF Inv
  <2>3. r.maxConditionId = maxConditionId + 1
    <3>1. Recreated(Ledger, r, n)
      BY <1>1, <2>1, <2>2, RecreateAdds
    <3> HIDE DEF r
    <3>2. QED BY <3>1 DEF Recreated, OneMore, Ledger
  <2>4. balances' = r.balances /\ maxConditionId' = maxConditionId + 1
    BY <2>1, <2>3 DEF Install
  <2>5. Condition(maxConditionId + 1) \in JustCreated
    <3>1. maxConditionId \in Nat
      BY DEF Inv, TypeOK, LockTypeOK, ConditionIds
    <3>2. maxConditionId + 1 \in (maxConditionId + 1)..(maxConditionId + 1)
      BY <3>1
    <3>3. QED BY <2>4, <3>2 DEF JustCreated
  <2>6. Ledger.balances = balances /\ Ledger.maxConditionId = maxConditionId
    BY DEF Ledger
  <2>7. ASSUME NEW x \in Tokens \ JustCreated PROVE NoGain(balances, balances', x)
    <3>1. x # Condition(Ledger.maxConditionId + 1)
      BY <2>5, <2>6
    <3>2. NoGain(Ledger.balances, r.balances, x)
      BY <1>1, <2>1, <2>2, <3>1, RecreateNoGain
    <3> HIDE DEF r
    <3>3. QED BY <2>4, <2>6, <3>2
  <2>8. QED BY <2>7, NoGainGathersNothing DEF NoGain
<1>3. ASSUME NEW sender \in Users, NEW n \in ConditionIds, NEW to \in Addresses,
             MintSalary(sender, n, to)
      PROVE  NothingGathered
  <2> DEFINE v == now - lastSalaryDates[n]
  <2>1. v \in Nat /\ totals' = [totals EXCEPT ![Condition(n)] = @ + v]
    BY <1>3, MintStep
  <2>2. \A x \in Tokens, a \in Addresses :
           balances'[x][a] = IF x = Condition(n) /\ a = to THEN balances[x][a] + v
                                                           ELSE balances[x][a]
    BY <1>3, MintPoints
  <2> HIDE DEF v
  <2>3. SUFFICES ASSUME NEW x \in Tokens, NEW a \in Addresses, Gain(x, a) > 0
                 PROVE  totals'[x] > totals[x]
    BY DEF NothingGathered
  <2>4. balances[x][a] \in Nat
    BY <1>1
  <2>5. x = Condition(n) /\ v > 0
    BY <2>1, <2>2, <2>3, <2>4 DEF Gain
  <2>6. totals[x] \in Nat /\ totals'[x] = totals[x] + v
    BY <1>1, <2>1, <2>5
  <2>7. QED BY <2>1, <2>5, <2>6
<1>4. ASSUME NEW n \in ConditionIds, MintReturns(n) PROVE NothingGathered
  <2>1. balances' = balances
    BY <1>4 DEF MintReturns, tokenVars
  <2>2. \A x \in Tokens : NoGain(balances, balances', x)
    BY <1>1, <2>1 DEF NoGain
  <2>3. QED BY <2>2, NoGainGathersNothing DEF NoGain
<1>5. QED BY <1>1, <1>2, <1>3, <1>4 DEF SalaryCalls

\* Donations grow the totals of both counters with the balances.
LEMMA CollateralCallsGatherNothing ==
    ASSUME Inv, TypeOK', CollateralCalls
    PROVE  NothingGathered
<1>1. ASSUME NEW c \in Collaterals, NEW o \in Oracles, NEW v \in Nat, NEW from \in Addresses,
             NEW to \in Addresses, Donate(c, o, v, from, to)
      PROVE  NothingGathered
  <2>1. SUFFICES ASSUME NEW x \in Tokens, NEW a \in Addresses, Gain(x, a) > 0
                 PROVE  totals'[x] > totals[x]
    BY DEF NothingGathered
  <2>2. balances[x][a] \in Nat /\ totals[x] \in Nat
    BY DEF Inv, TypeOK, TokenTypeOK
  <2> DEFINE minted == x \in {PerOracle(c, o), Donated(c)}
  <2>3. /\ totals'[x] = IF minted THEN totals[x] + v ELSE totals[x]
        /\ balances'[x][a] = IF minted /\ a = to THEN balances[x][a] + v ELSE balances[x][a]
    BY <1>1, DonatePoints
  <2> HIDE DEF minted
  <2>4. QED BY <2>1, <2>2, <2>3 DEF Gain
<1>2. ASSUME balances' = balances PROVE NothingGathered
  <2>1. \A t \in Tokens, a \in Addresses : balances'[t][a] <= balances[t][a]
    BY <1>2 DEF Inv, TypeOK, TokenTypeOK
  <2>2. QED BY <2>1, NoGainGathersNothing
<1>3. ASSUME NEW c, NEW from, NEW to, NEW v, CollateralTransfer(c, from, to, v)
      PROVE  NothingGathered
  BY <1>2, <1>3 DEF CollateralTransfer, tokenVars
<1>4. ASSUME NEW c, NEW sender, NEW o, NEW t, Withdraw(sender, c, o, t)
      PROVE  NothingGathered
  BY <1>2, <1>4 DEF Withdraw, WithdrawCollateral, tokenVars
<1>5. ASSUME NEW c \in Collaterals, NEW o \in Oracles, GatherDeFiProfit(c, o)
      PROVE  NothingGathered
  BY <1>1, <1>5, GatherDonates DEF Inv, Addresses
<1>6. Amounts \subseteq Nat /\ Users \cup {This} \subseteq Addresses
  BY BoundAssumption DEF BoundAssumption, Addresses
<1>7. QED BY <1>1, <1>3, <1>4, <1>5, <1>6 DEF CollateralCalls

\* A restoration reaches no account: with blank links it only clears balances, or
\* moves them to the zero address.
LEMMA AccountCallsGatherNothing ==
    ASSUME Inv, TypeOK', LinksBlank, AccountCalls
    PROVE  NothingGathered
<1>1. PICK sender \in Users, old \in Addresses, new \in Addresses, allowed \in BOOLEAN :
         \/ PermitRestoreAccount(sender, old, new, allowed)
         \/ DispermitRestoreAccount(old, new, allowed)
         \/ \E t \in Tokens : RestoreFunds(sender, old, new, t, allowed)
         \/ \E t1, t2 \in Tokens : RestoreFundsBatch(sender, old, new, t1, t2, allowed)
  BY DEF AccountCalls
<1>2. balances \in [Tokens -> [Addresses -> Nat]]
  BY DEF Inv, TypeOK, TokenTypeOK
<1>3. ASSUME balances' = balances PROVE NothingGathered
  <2>1. \A t \in Tokens, a \in Addresses : balances'[t][a] <= balances[t][a]
    BY <1>2, <1>3
  <2>2. QED BY <2>1, NoGainGathersNothing
<1>4. ASSUME NEW t \in Tokens, RestoreFunds(sender, old, new, t, allowed)
      PROVE  NothingGathered
  <2>1. (new = old \/ new = Zero) /\ balances' = RestoreToken(balances, old, new, t)
    BY <1>4, BlankMovedOwner DEF RestoreFunds
  <2>2. \A x \in Tokens, a \in Addresses :
           balances'[x][a] = IF x = t /\ a = old THEN 0
                             ELSE IF x = t /\ a = new THEN balances[t][old] ELSE balances[x][a]
    BY <1>2, <2>1, RestoreBalances
  <2>3. \A x \in Tokens, a \in Addresses \ {Zero} : balances'[x][a] <= balances[x][a]
    BY <1>2, <2>1, <2>2
  <2>4. QED BY <2>3, NoGainGathersNothing
<1>5. ASSUME NEW t1 \in Tokens, NEW t2 \in Tokens,
             RestoreFundsBatch(sender, old, new, t1, t2, allowed)
      PROVE  NothingGathered
  <2> DEFINE b == RestoreToken(balances, old, new, t1)
  <2>1. (new = old \/ new = Zero) /\ balances' = RestoreToken(b, old, new, t2)
    BY <1>5, BlankMovedOwner DEF RestoreFundsBatch
  <2>2. /\ b \in [Tokens -> [Addresses -> Nat]]
        /\ \A x \in Tokens, a \in Addresses :
              b[x][a] = IF x = t1 /\ a = old THEN 0
                        ELSE IF x = t1 /\ a = new THEN balances[t1][old] ELSE balances[x][a]
    <3>1. b \in [Tokens -> [Addresses -> Nat]] /\ IsRestored(b, balances, old, new, t1)
      BY <1>2, RestoreRelates
    <3>2. QED BY <3>1 DEF IsRestored
  <2> HIDE DEF b
  <2>3. \A x \in Tokens, a \in Addresses :
           balances'[x][a] = IF x = t2 /\ a = old THEN 0
                             ELSE IF x = t2 /\ a = new THEN b[t2][old] ELSE b[x][a]
    BY <2>1, <2>2, RestoreBalances
  <2>4. \A x \in Tokens, a \in Addresses \ {Zero} : b[x][a] <= balances[x][a]
    BY <1>2, <2>1, <2>2
  <2>5. \A x \in Tokens, a \in Addresses \ {Zero} : balances'[x][a] <= b[x][a]
    BY <2>1, <2>2, <2>3
  <2>6. \A x \in Tokens, a \in Addresses \ {Zero} : balances'[x][a] <= balances[x][a]
    <3>1. SUFFICES ASSUME NEW x \in Tokens, NEW a \in Addresses \ {Zero}
                   PROVE  balances'[x][a] <= balances[x][a]
      OBVIOUS
    <3>2. /\ balances'[x][a] \in Nat /\ b[x][a] \in Nat /\ balances[x][a] \in Nat
          /\ balances'[x][a] <= b[x][a] /\ b[x][a] <= balances[x][a]
      BY <1>2, <2>2, <2>4, <2>5 DEF TypeOK, TokenTypeOK
    <3>3. QED BY <3>2
  <2>7. QED BY <2>6, NoGainGathersNothing
<1>6. QED BY <1>1, <1>3, <1>4, <1>5
      DEF PermitRestoreAccount, DispermitRestoreAccount, baseVars, tokenVars

\* No step gathers redeemed tokens.
LEMMA StepGathersNothing ==
    ASSUME Inv, TypeOK', LinksBlank, Next
    PROVE  NothingGathered
<1>1. ASSUME balances' = balances PROVE NothingGathered
  <2>1. \A t \in Tokens, a \in Addresses : balances'[t][a] <= balances[t][a]
    BY <1>1 DEF Inv, TypeOK, TokenTypeOK
  <2>2. QED BY <2>1, NoGainGathersNothing
<1>2. CASE Tick
  BY <1>1, <1>2 DEF Tick, tokenVars
<1>3. CASE TokenCalls
  BY <1>3, TokenCallsGatherNothing
<1>4. CASE SalaryCalls
  BY <1>4, SalaryCallsGatherNothing
<1>5. CASE OracleCalls
  BY <1>1, <1>5 DEF OracleCalls, CreateOracle, ChangeOracleOwner, UpdateGracePeriodEnds,
     ReportNumerator, ReportNumeratorsBatch, FinishOracle, Publish, baseVars, lockVars, tokenVars
<1>6. CASE CollateralCalls
  BY <1>6, CollateralCallsGatherNothing
<1>7. CASE AccountCalls
  BY <1>7, AccountCallsGatherNothing
<1>8. CASE DAOCalls
  <2>1. ASSUME NEW customer \in Customers, NEW control, RegisterCustomer(customer, control)
        PROVE  balances' = balances
    <3>1. /\ CanCreateCondition(Ledger) /\ OriginalAddress(customer) \in Addresses
          /\ Install([NewCondition(Ledger, OriginalAddress(customer)) EXCEPT
                        !.lastSalaryDates[maxConditionId + 1] = now])
      BY <2>1, DAOAssumption DEF DAOAssumption, RegisterCustomer, RegisterSalary, Inv, TypeOK,
                                 AccountTypeOK, OriginalAddress
    <3> DEFINE N == NewCondition(Ledger, OriginalAddress(customer))
               r == [N EXCEPT !.lastSalaryDates[maxConditionId + 1] = now]
    <3>2. N \in LedgerType /\ N.balances = Ledger.balances
      BY <3>1, LedgerTyped, NewConditionAdds DEF Inv, TypeOK, LockTypeOK
    <3> HIDE DEF N
    <3>3. r.balances = Ledger.balances
      BY <3>2 DEF LedgerType
    <3>4. balances' = r.balances
      BY <3>1 DEF Install, N
    <3> HIDE DEF r
    <3>5. QED BY <3>3, <3>4 DEF Ledger
  <2>2. QED BY <1>1, <1>8, <2>1 DEF DAOCalls, SetDAOControl, SetDAO, baseVars, tokenVars
<1>9. QED BY <1>2, <1>3, <1>4, <1>5, <1>6, <1>7, <1>8 DEF Next

\* What an account redeems with is not gathered elsewhere to be redeemed again:
\* the tokens any account gains are minted, or leave an account that has not
\* redeemed with them, also where a transfer or a batch recreates conditions
\* (_doTransfer behind the checks of safeTransferFrom).
THEOREM RedeemedNotGathered == Spec => LockedTokensNotGathered
<1>1. Inv /\ Inv' /\ LinksBlank /\ [Next]_vars =>
        [\A t \in Tokens \ JustCreated, a \in Addresses \ {Zero} :
            Gain(t, a) > 0 =>
               \/ totals'[t] > totals[t]
               \/ \E b \in Addresses : <<b, t>> \notin userUsedRedeem /\ Loss(t, b) >= Gain(t, a)]_vars
  BY StepGathersNothing DEF NothingGathered, Inv
<1>2. QED BY <1>1, AccountsNeverLinked, Invariance, PTL DEF Spec, LockedTokensNotGathered

-----------------------------------------------------------------------------
(* Who loses holdings. *)

\* What an account holds of each condition.
MineBy(b, a) == [m \in ConditionIds |-> b[Condition(m)][a]]

\* From ledger s to ledger r, the account lost nothing: of a chain, whichever of
\* its conditions it holds, and of the counters of donations.
KeepsHoldings(s, r, a) ==
    /\ 1..s.maxConditionId \subseteq 1..r.maxConditionId
    /\ \A n \in 1..s.maxConditionId :
          SumFunctionOnSet(MineBy(s.balances, a), ChainOf(s, n))
             <= SumFunctionOnSet(MineBy(r.balances, a), ChainOf(r, n))
    /\ \A t \in Tokens : t[1] # "condition" => s.balances[t][a] <= r.balances[t][a]

\* The balances of an account in the conditions are natural numbers.
LEMMA MineTyped ==
    ASSUME NEW b \in [Tokens -> [Addresses -> Nat]], NEW a \in Addresses, NEW m \in ConditionIds
    PROVE  MineBy(b, a)[m] = b[Condition(m)][a] /\ MineBy(b, a)[m] \in Nat
BY TokenKinds DEF MineBy

\* So is what it holds of a chain.
LEMMA MineOfChain ==
    ASSUME NEW s \in LedgerType, NEW n, NEW a \in Addresses
    PROVE  SumFunctionOnSet(MineBy(s.balances, a), ChainOf(s, n)) \in Nat
<1> DEFINE f == MineBy(s.balances, a)
           C == ChainOf(s, n)
<1>1. IsFiniteSet(C) /\ C \subseteq ConditionIds
  BY ChainOfTyped DEF LedgerType
<1>2. \A m \in C : f[m] \in Nat
  BY <1>1, MineTyped DEF LedgerType
<1> HIDE DEF f, C
<1>3. SumFunctionOnSet(f, C) \in Nat
  BY <1>1, <1>2, SumIsNat
<1>4. QED BY <1>3 DEF f, C

\* Two changes in a row.
LEMMA KeepsTwice ==
    ASSUME NEW s \in LedgerType, NEW r \in LedgerType, NEW u \in LedgerType,
           NEW a \in Addresses, KeepsHoldings(s, r, a), KeepsHoldings(r, u, a)
    PROVE  KeepsHoldings(s, u, a)
<1>1. 1..s.maxConditionId \subseteq 1..u.maxConditionId
  BY DEF KeepsHoldings
<1>2. ASSUME NEW n \in 1..s.maxConditionId
      PROVE  SumFunctionOnSet(MineBy(s.balances, a), ChainOf(s, n))
               <= SumFunctionOnSet(MineBy(u.balances, a), ChainOf(u, n))
  <2> DEFINE x == SumFunctionOnSet(MineBy(s.balances, a), ChainOf(s, n))
             y == SumFunctionOnSet(MineBy(r.balances, a), ChainOf(r, n))
             z == SumFunctionOnSet(MineBy(u.balances, a), ChainOf(u, n))
  <2>1. x \in Nat /\ y \in Nat /\ z \in Nat
    BY MineOfChain
  <2>2. x <= y /\ y <= z
    BY DEF KeepsHoldings
  <2> HIDE DEF x, y, z
  <2>3. x <= z
    BY <2>1, <2>2
  <2>4. QED BY <2>3 DEF x, z
<1>3. ASSUME NEW t \in Tokens, t[1] # "condition"
      PROVE  s.balances[t][a] <= u.balances[t][a]
  <2>1. s.balances[t][a] <= r.balances[t][a] /\ r.balances[t][a] <= u.balances[t][a]
    BY <1>3 DEF KeepsHoldings
  <2>2. s.balances[t][a] \in Nat /\ r.balances[t][a] \in Nat /\ u.balances[t][a] \in Nat
    BY DEF LedgerType
  <2>3. QED BY <2>1, <2>2
<1>4. QED BY <1>1, <1>2, <1>3 DEF KeepsHoldings

\* Where the conditions are the same and no balance of the account shrinks.
LEMMA KeepsPointwise ==
    ASSUME NEW s \in LedgerType, NEW r \in LedgerType, NEW a \in Addresses,
           r.maxConditionId = s.maxConditionId,
           r.firstConditionInChain = s.firstConditionInChain,
           \A t \in Tokens : s.balances[t][a] <= r.balances[t][a]
    PROVE  KeepsHoldings(s, r, a)
<1>1. \A n : ChainOf(r, n) = ChainOf(s, n)
  BY DEF ChainOf
<1>2. ASSUME NEW n \in 1..s.maxConditionId
      PROVE  SumFunctionOnSet(MineBy(s.balances, a), ChainOf(s, n))
               <= SumFunctionOnSet(MineBy(r.balances, a), ChainOf(s, n))
  <2> DEFINE f == MineBy(s.balances, a)
             g == MineBy(r.balances, a)
             C == ChainOf(s, n)
  <2>1. IsFiniteSet(C) /\ C \subseteq ConditionIds
    BY ChainOfTyped DEF LedgerType
  <2>2. \A m \in C : f[m] = s.balances[Condition(m)][a] /\ g[m] = r.balances[Condition(m)][a]
                        /\ f[m] \in Nat /\ g[m] \in Nat
    BY <2>1, MineTyped DEF LedgerType
  <2>3. \A m \in C : s.balances[Condition(m)][a] <= r.balances[Condition(m)][a]
    BY <2>1, TokenKinds
  <2> HIDE DEF f, g, C
  <2>4. \A m \in C : f[m] \in Int /\ g[m] \in Int /\ f[m] <= g[m]
    BY <2>2, <2>3
  <2>5. SumFunctionOnSet(f, C) <= SumFunctionOnSet(g, C)
    BY <2>1, <2>4, SumMonotone
  <2>6. QED BY <2>5 DEF f, g, C
<1>3. QED BY <1>1, <1>2 DEF KeepsHoldings

\* One more condition, in a chain of which the account loses nothing.
LEMMA KeepsWithOneMore ==
    ASSUME NEW s \in LedgerType, NEW r \in LedgerType, NEW a \in Addresses,
           NEW customer, NEW first \in ConditionIds, NEW date,
           OneMore(s, r, customer, first, date),
           \A m \in ConditionIds \ {first, s.maxConditionId + 1} :
              r.balances[Condition(m)][a] = s.balances[Condition(m)][a],
           \/ first = s.maxConditionId + 1
           \/ first \in ChainOf(s, first)
                /\ s.balances[Condition(first)][a]
                     <= r.balances[Condition(first)][a]
                           + r.balances[Condition(s.maxConditionId + 1)][a],
           \A t \in Tokens : t[1] # "condition" => s.balances[t][a] <= r.balances[t][a]
    PROVE  KeepsHoldings(s, r, a)
<1> DEFINE new == s.maxConditionId + 1
           f == MineBy(s.balances, a)
           g == MineBy(r.balances, a)
           C(n) == ChainOf(s, n)
           D(n) == ChainOf(r, n)
<1>1. /\ s.maxConditionId \in ConditionIds /\ new \in ConditionIds
      /\ r.maxConditionId = new /\ r.maxConditionId \in ConditionIds
      /\ s.balances \in [Tokens -> [Addresses -> Nat]]
      /\ r.balances \in [Tokens -> [Addresses -> Nat]]
      /\ s.firstConditionInChain \in [ConditionIds -> ConditionIds]
  BY DEF LedgerType, OneMore
<1>2. /\ 1..r.maxConditionId = (1..s.maxConditionId) \cup {new}
      /\ new \notin 1..s.maxConditionId
      /\ 1..s.maxConditionId \subseteq ConditionIds
  <2>1. s.maxConditionId \in 0..MaxCondition /\ MaxCondition \in Nat
    BY <1>1, BoundAssumption DEF BoundAssumption, ConditionIds
  <2>2. r.maxConditionId = s.maxConditionId + 1
    BY <1>1
  <2>3. QED BY <2>1, <2>2 DEF ConditionIds
<1>3. \A m \in ConditionIds : r.firstConditionInChain[m] =
         IF m = new THEN first ELSE s.firstConditionInChain[m]
  BY <1>1 DEF OneMore
<1>4. \A m \in ConditionIds : /\ f[m] = s.balances[Condition(m)][a] /\ f[m] \in Nat
                              /\ g[m] = r.balances[Condition(m)][a] /\ g[m] \in Nat
  BY <1>1, MineTyped
<1>5. \A n \in 1..s.maxConditionId : /\ D(n) = IF n = first THEN C(n) \cup {new} ELSE C(n)
                                     /\ new \notin C(n) /\ C(n) \subseteq 1..s.maxConditionId
                                     /\ IsFiniteSet(C(n)) /\ IsFiniteSet(D(n))
  <2>1. ASSUME NEW n \in 1..s.maxConditionId
        PROVE  D(n) = IF n = first THEN C(n) \cup {new} ELSE C(n)
    <3> HIDE DEF new
    <3>1. QED BY <1>1, <1>2, <1>3 DEF ChainOf
  <2>2. \A n : C(n) \subseteq 1..s.maxConditionId
    BY DEF ChainOf
  <2>3. \A n : IsFiniteSet(C(n)) /\ IsFiniteSet(D(n))
    BY <1>1, ChainOfTyped
  <2> HIDE DEF C, D
  <2>4. QED BY <1>2, <2>1, <2>2, <2>3
<1>6. \A m \in ConditionIds \ {first, new} : g[m] = f[m]
  BY <1>4
<1>7. first = new \/ (first \in C(first) /\ f[first] <= g[first] + g[new])
  BY <1>1, <1>4
<1> HIDE DEF new, f, g, C, D
<1>8. ASSUME NEW n \in 1..s.maxConditionId
      PROVE  SumFunctionOnSet(f, C(n)) <= SumFunctionOnSet(g, D(n))
  <2> DEFINE S == C(n)
  <2>1. IsFiniteSet(S) /\ S \subseteq ConditionIds /\ new \notin S
    BY <1>2, <1>5
  <2>2. \A m \in S : f[m] \in Int /\ g[m] \in Int
    BY <1>4, <2>1
  <2>3. CASE n # first
    <3>1. first \notin S
      BY <1>7, <2>1, <2>3 DEF C, ChainOf
    <3>2. \A m \in S : f[m] = g[m]
      BY <1>6, <2>1, <3>1
    <3>3. SumFunctionOnSet(f, S) = SumFunctionOnSet(g, S) /\ SumFunctionOnSet(g, S) \in Int
      BY <2>1, <2>2, <3>2, SumEqual, SumIsInt
    <3>4. D(n) = S
      BY <1>5, <2>3
    <3>5. QED BY <3>3, <3>4
  <2>4. CASE n = first
    <3>1. first \in S /\ f[first] <= g[first] + g[new]
      BY <1>2, <1>7, <2>4
    <3>2. D(n) = S \cup {new} /\ D(n) \ {new} = S /\ new \in D(n) /\ IsFiniteSet(D(n))
      BY <1>5, <2>1, <2>4
    <3>3. \A m \in D(n) : g[m] \in Int
      BY <1>1, <1>4, <2>1, <3>2
    <3>4. SumFunctionOnSet(g, D(n)) = g[new] + SumFunctionOnSet(g, S)
      BY <3>2, <3>3, SumSplit
    <3>5. SumFunctionOnSet(g, S) = SumFunctionOnSet(f, S) - f[first] + g[first]
      <4>1. \A m \in S \ {first} : g[m] = f[m]
        BY <1>6, <2>1
      <4>2. IsFiniteSet(S \ {first}) /\ \A m \in S \ {first} : f[m] \in Int /\ g[m] \in Int
        BY <2>1, <2>2, FS_Subset
      <4>3. SumFunctionOnSet(f, S \ {first}) = SumFunctionOnSet(g, S \ {first})
        BY <4>1, <4>2, SumEqual
      <4>4. SumFunctionOnSet(f, S \ {first}) \in Int
        BY <4>2, SumIsInt
      <4>5. /\ SumFunctionOnSet(f, S) = f[first] + SumFunctionOnSet(f, S \ {first})
            /\ SumFunctionOnSet(g, S) = g[first] + SumFunctionOnSet(g, S \ {first})
        BY <2>1, <2>2, <3>1, SumSplit
      <4>6. f[first] \in Int /\ g[first] \in Int
        BY <2>2, <3>1
      <4>7. QED BY <4>3, <4>4, <4>5, <4>6
    <3>6. SumFunctionOnSet(f, S) \in Int /\ f[first] \in Int /\ g[first] \in Int /\ g[new] \in Int
      BY <1>1, <1>4, <2>1, <2>2, SumIsInt
    <3>7. QED BY <3>1, <3>4, <3>5, <3>6
  <2>5. QED BY <2>3, <2>4
<1>9. QED BY <1>2, <1>8 DEF KeepsHoldings, f, g, C, D

\* A recreation takes nothing from anyone, the receiver included.
LEMMA RecreateKeepsHoldings ==
    ASSUME NEW s \in LedgerType, NEW tot, NEW n \in ConditionIds, now \in Nat,
           Chains(s, tot, now), CanRecreate(s, n), NEW a \in Addresses
    PROVE  KeepsHoldings(s, Recreate(s, n), a)
<1> DEFINE r == Recreate(s, n)
           new == s.maxConditionId + 1
           c == s.salaryReceivers[n]
<1>1. r \in LedgerType /\ OneMore(s, r, c, n, s.lastSalaryDates[n])
  BY RecreateAdds DEF Recreated
<1>2. n \in 1..s.maxConditionId /\ s.firstConditionInChain[n] = n
  BY FirstWasCreated DEF Chains, CanRecreate, EnsureFirst, IsFirstInChain
<1>3. s.firstToLastConditionInChain[n] = n
  BY <1>2 DEF Chains, Rooted
<1>4. n # new /\ n \in ChainOf(s, n)
  <2>1. s.maxConditionId \in 0..MaxCondition /\ MaxCondition \in Nat
    BY BoundAssumption DEF BoundAssumption, ConditionIds, LedgerType
  <2>2. QED BY <1>2, <2>1 DEF ChainOf
<1>5. \A x \in Tokens :
         r.balances[x][a] = IF a = c /\ x = Condition(n) THEN 0
                            ELSE IF a = c /\ x = Condition(new) THEN s.balances[Condition(n)][a]
                            ELSE s.balances[x][a]
  BY <1>3, <1>4, RecreateBalances
<1>6. /\ s.balances \in [Tokens -> [Addresses -> Nat]] /\ new \in ConditionIds
      /\ r.balances \in [Tokens -> [Addresses -> Nat]]
  <2> HIDE DEF r
  <2>1. QED BY <1>1 DEF LedgerType, OneMore
<1> HIDE DEF r, new, c
<1>7. \A m \in ConditionIds \ {n, new} : r.balances[Condition(m)][a] = s.balances[Condition(m)][a]
  BY <1>5, TokenKinds, TokensDistinct
<1>8. s.balances[Condition(n)][a] <= r.balances[Condition(n)][a] + r.balances[Condition(new)][a]
  <2>1. /\ Condition(n) \in Tokens /\ Condition(new) \in Tokens /\ Condition(n) # Condition(new)
    BY <1>4, <1>6, TokenKinds, TokensDistinct
  <2>2. s.balances[Condition(n)][a] \in Nat /\ s.balances[Condition(new)][a] \in Nat
    BY <1>6, <2>1
  <2>3. QED BY <1>5, <2>1, <2>2
<1>9. ASSUME NEW t \in Tokens, t[1] # "condition" PROVE s.balances[t][a] <= r.balances[t][a]
  <2>1. t # Condition(n) /\ t # Condition(new)
    BY <1>9 DEF Condition
  <2>2. s.balances[t][a] \in Nat
    BY <1>6
  <2>3. QED BY <1>5, <2>1, <2>2
<1>10. KeepsHoldings(s, r, a)
  BY <1>1, <1>4, <1>7, <1>8, <1>9, KeepsWithOneMore DEF new
<1>11. QED BY <1>10 DEF r

\* A registration takes nothing from anyone.
LEMMA RegisterKeepsHoldings ==
    ASSUME NEW s \in LedgerType, NEW customer \in Addresses, now \in Nat,
           CanCreateCondition(s), NEW a \in Addresses
    PROVE  KeepsHoldings(s, NewCondition(s, customer), a)
<1> DEFINE r == NewCondition(s, customer)
           new == s.maxConditionId + 1
<1>1. /\ r \in LedgerType /\ r.balances = s.balances
      /\ OneMore(s, r, customer, new, s.lastSalaryDates[new])
  BY NewConditionAdds
<1> HIDE DEF r
<1>2. new \in ConditionIds /\ s.balances \in [Tokens -> [Addresses -> Nat]]
  BY <1>1 DEF OneMore, LedgerType
<1>3. \A t \in Tokens : s.balances[t][a] <= r.balances[t][a]
  BY <1>1, <1>2
<1>4. \A m \in ConditionIds : r.balances[Condition(m)][a] = s.balances[Condition(m)][a]
  BY <1>1
<1>5. KeepsHoldings(s, r, a)
  BY <1>1, <1>2, <1>3, <1>4, KeepsWithOneMore
<1>6. QED BY <1>5 DEF r

\* A transfer takes nothing from an account it does not leave.
LEMMA TransferKeepsHoldings ==
    ASSUME NEW s \in LedgerType, NEW tot, NEW t \in Tokens,
           NEW from \in Addresses, NEW to \in Addresses, NEW v \in Nat, NEW sender,
           now \in Nat, Chains(s, tot, now), CanTransfer(s, sender, t, from, v),
           NEW a \in Addresses \ {from}
    PROVE  KeepsHoldings(s, Transfer(s, sender, t, from, to, v), a)
<1> DEFINE moved == Move(s, t, from, to, v)
           r == Transfer(s, sender, t, from, to, v)
<1>1. moved \in LedgerType /\ SameChains(s, moved)
  BY MoveTyped DEF CanTransfer
<1>2. r \in LedgerType
  BY TransferCases
<1>3. \A x \in Tokens :
           moved.balances[x][a] =
             IF x = t /\ from # to /\ a = from THEN s.balances[x][a] - v
             ELSE IF x = t /\ from # to /\ a = to THEN s.balances[x][a] + v
             ELSE s.balances[x][a]
  BY MoveBalances DEF CanTransfer
<1> HIDE DEF moved, r
<1>4. \A x \in Tokens : s.balances[x][a] <= moved.balances[x][a]
  <2>1. \A x \in Tokens : s.balances[x][a] \in Nat
    BY DEF LedgerType
  <2>2. QED BY <1>3, <2>1
<1>5. KeepsHoldings(s, moved, a)
  BY <1>1, <1>4, KeepsPointwise DEF SameChains
<1>6. CASE ~Recreates(s, sender, t)
  <2>1. r = moved
    BY <1>6 DEF Transfer, moved, r
  <2>2. QED BY <1>5, <2>1 DEF r
<1>7. CASE Recreates(s, sender, t)
  <2>1. PICK n \in ConditionIds : t = Condition(n)
    BY <1>7 DEF Recreates
  <2>2. t[2] = n
    BY <2>1 DEF Condition
  <2>3. CanRecreate(s, n)
    BY <1>7, <2>2 DEF CanTransfer
  <2>4. CanRecreate(moved, n)
    BY <1>1, <2>3 DEF CanRecreate, EnsureFirst, IsFirstInChain, CanCreateCondition, SameChains
  <2>5. Chains(moved, tot, now)
    BY <1>1, SameChainsKept
  <2>6. r = Recreate(moved, n)
    BY <1>7, <2>2 DEF Transfer, moved, r
  <2>7. KeepsHoldings(moved, r, a)
    BY <1>1, <2>4, <2>5, <2>6, RecreateKeepsHoldings
  <2>8. KeepsHoldings(s, r, a)
    BY <1>1, <1>2, <1>5, <2>7, KeepsTwice
  <2>9. QED BY <2>8 DEF r
<1>8. QED BY <1>6, <1>7

HoldingsAgree ==
    \A n, a : a \in Addresses =>
        HeldInChain(a, n) = SumFunctionOnSet(MineBy(Ledger.balances, a), ChainOf(Ledger, n))

\* What an account holds of a chain, in terms of the ledger.
LEMMA HoldingIsMine == Inv => HoldingsAgree
<1> SUFFICES ASSUME Inv, NEW n, NEW a \in Addresses
             PROVE  HeldInChain(a, n)
                      = SumFunctionOnSet(MineBy(Ledger.balances, a), ChainOf(Ledger, n))
  BY DEF HoldingsAgree
<1> DEFINE C == ChainOf(Ledger, n)
           f == [m \in C |-> balances[Condition(m)][a]]
           g == MineBy(Ledger.balances, a)
<1>1. /\ balances \in [Tokens -> [Addresses -> Nat]] /\ Ledger.balances = balances
      /\ Ledger.maxConditionId \in ConditionIds
  BY DEF Inv, TypeOK, TokenTypeOK, LockTypeOK, Ledger
<1>2. C = Chain(n)
  BY DEF ChainOf, Chain, Created, Ledger
<1>3. IsFiniteSet(C) /\ C \subseteq ConditionIds
  BY <1>1, ChainOfTyped
<1>4. SumFunction(f) = SumFunctionOnSet(f, C)
  BY DEF SumFunction
<1>5. HeldInChain(a, n) = SumFunction(f)
  BY <1>2 DEF HeldInChain
<1>6. \A m \in C : f[m] \in Int /\ f[m] = g[m]
  <2>1. \A m \in C : g[m] = balances[Condition(m)][a] /\ g[m] \in Nat
    BY <1>1, <1>3, MineTyped
  <2>2. \A m \in C : f[m] = balances[Condition(m)][a]
    OBVIOUS
  <2> HIDE DEF f, g, C
  <2>3. QED BY <2>1, <2>2
<1> HIDE DEF f, g, C
<1>7. SumFunctionOnSet(f, C) = SumFunctionOnSet(g, C)
  BY <1>3, <1>6, SumEqual
<1>8. QED BY <1>4, <1>5, <1>7 DEF g, C

\* Who keeps what the ledger says loses no holdings.
LEMMA KeepsIsNoLoss ==
    ASSUME Inv, TypeOK', HoldingsAgree', NEW a \in Addresses,
           KeepsHoldings(Ledger, Ledger', a)
    PROVE  ~LosesHoldings(a)
<1>1. /\ Ledger.balances = balances /\ Ledger'.balances = balances'
      /\ Ledger.maxConditionId = maxConditionId
  BY DEF Ledger
<1>2. ASSUME NEW n \in Created PROVE ~(HeldInChain(a, n)' < HeldInChain(a, n))
  <2> DEFINE x == HeldInChain(a, n)
             y == HeldInChain(a, n)'
  <2>1. x = SumFunctionOnSet(MineBy(Ledger.balances, a), ChainOf(Ledger, n))
    BY HoldingIsMine DEF HoldingsAgree
  <2>2. y = SumFunctionOnSet(MineBy(Ledger'.balances, a), ChainOf(Ledger', n))
    BY DEF HoldingsAgree, ChainOf, Ledger
  <2>3. Ledger \in LedgerType
    BY LedgerTyped DEF Inv
  <2>4. Ledger' \in LedgerType
    BY DEF TypeOK, TokenTypeOK, LockTypeOK, SalaryTypeOK, Ledger, LedgerType
  <2>5. n \in 1..Ledger.maxConditionId
    BY <1>1 DEF Created
  <2> HIDE DEF x, y
  <2>6. x \in Nat /\ y \in Nat
    BY <2>1, <2>2, <2>3, <2>4, MineOfChain
  <2>7. x <= y
    BY <2>1, <2>2, <2>5 DEF KeepsHoldings
  <2>8. ~(y < x)
    BY <2>6, <2>7
  <2>9. QED BY <2>8 DEF x, y
<1>3. ASSUME NEW t \in Tokens, t[1] # "condition" PROVE ~(balances'[t][a] < balances[t][a])
  <2>1. balances[t][a] \in Nat /\ balances'[t][a] \in Nat
    BY DEF Inv, TypeOK, TokenTypeOK
  <2>2. balances[t][a] <= balances'[t][a]
    BY <1>1, <1>3 DEF KeepsHoldings
  <2>3. QED BY <2>1, <2>2
<1>4. QED BY <1>2, <1>3 DEF LosesHoldings

\* What is kept by the ledger that is installed.
LEMMA InstalledKeeps ==
    ASSUME NEW r, Install(r), NEW a, KeepsHoldings(Ledger, r, a)
    PROVE  KeepsHoldings(Ledger, Ledger', a)
<1>1. /\ Ledger'.maxConditionId = r.maxConditionId
      /\ Ledger'.firstConditionInChain = r.firstConditionInChain
      /\ Ledger'.balances = r.balances
  BY DEF Install, Ledger
<1>2. \A n : ChainOf(Ledger', n) = ChainOf(r, n)
  BY <1>1 DEF ChainOf
<1>3. QED BY <1>1, <1>2 DEF KeepsHoldings

\* What is kept where the conditions stay and no balance of the account shrinks.
LEMMA PointwiseKeeps ==
    ASSUME Inv, TypeOK', NEW a \in Addresses, UNCHANGED <<maxConditionId, firstConditionInChain>>,
           \A t \in Tokens : balances[t][a] <= balances'[t][a]
    PROVE  KeepsHoldings(Ledger, Ledger', a)
<1>1. Ledger \in LedgerType
  BY LedgerTyped DEF Inv
<1>2. Ledger' \in LedgerType
  BY DEF TypeOK, TokenTypeOK, LockTypeOK, SalaryTypeOK, Ledger, LedgerType
<1>3. /\ Ledger'.maxConditionId = Ledger.maxConditionId
      /\ Ledger'.firstConditionInChain = Ledger.firstConditionInChain
      /\ \A t \in Tokens : Ledger.balances[t][a] <= Ledger'.balances[t][a]
  BY DEF Ledger
<1>4. QED BY <1>1, <1>2, <1>3, KeepsPointwise

\* Transfers of others take nothing from an account without operators.
LEMMA TokenCallsKeepHoldings ==
    ASSUME Inv, TypeOK', TokenCalls, NEW a \in Users, ~CallsOf(a),
           \A b \in Addresses : <<a, b>> \notin operatorApprovals
    PROVE  KeepsHoldings(Ledger, Ledger', a)
<1>1. /\ Ledger \in LedgerType /\ Chains(Ledger, totals, now)
      /\ now \in Nat /\ now >= 1
      /\ balances \in [Tokens -> [Addresses -> Nat]]
      /\ a \in Addresses /\ Users \subseteq Addresses
  BY LedgerTyped DEF Inv, TypeOK, LockTypeOK, TokenTypeOK, Addresses
<1>2. PICK sender \in Users :
         \/ \E operator \in Users, approved \in BOOLEAN :
               /\ SetApprovalForAll(sender, operator, approved)
               /\ UNCHANGED <<lockVars, bidVars, salaryVars>>
         \/ \E from, to \in Addresses, t \in Tokens, v \in Amounts :
               SafeTransferFrom(sender, from, to, t, v)
         \/ \E from, to \in Addresses, t1, t2 \in Tokens, v1, v2 \in Amounts :
               SafeBatchTransferFrom(sender, from, to, t1, v1, t2, v2)
  BY DEF TokenCalls
<1>3. ASSUME NEW operator, NEW approved, SetApprovalForAll(sender, operator, approved),
             UNCHANGED <<lockVars, bidVars, salaryVars>>
      PROVE  KeepsHoldings(Ledger, Ledger', a)
  <2>1. /\ \A t \in Tokens : balances[t][a] <= balances'[t][a]
        /\ UNCHANGED <<maxConditionId, firstConditionInChain>>
    BY <1>1, <1>3 DEF SetApprovalForAll, lockVars, conditionVars, salaryVars, chainVars
  <2>2. QED BY <1>1, <2>1, PointwiseKeeps
<1>4. ASSUME NEW from \in Addresses, NEW to \in Addresses, NEW t \in Tokens, NEW v \in Amounts,
             SafeTransferFrom(sender, from, to, t, v)
      PROVE  KeepsHoldings(Ledger, Ledger', a)
  <2> DEFINE r == Transfer(Ledger, sender, t, from, to, v)
  <2>1. sender # a
    BY <1>4 DEF CallsOf
  <2>2. v \in Nat /\ CanTransfer(Ledger, sender, t, from, v) /\ Install(r)
        /\ IsApproved(from, sender)
    BY <1>4, BoundAssumption DEF BoundAssumption, SafeTransferFrom, BaseSafeTransferFrom
  <2>3. a \in Addresses \ {from}
    BY <1>1, <2>1, <2>2 DEF IsApproved
  <2>4. KeepsHoldings(Ledger, r, a)
    BY <1>1, <2>2, <2>3, TransferKeepsHoldings
  <2> HIDE DEF r
  <2>5. QED BY <2>2, <2>4, InstalledKeeps
<1>5. ASSUME NEW from \in Addresses, NEW to \in Addresses, NEW t1 \in Tokens, NEW t2 \in Tokens,
             NEW v1 \in Amounts, NEW v2 \in Amounts,
             SafeBatchTransferFrom(sender, from, to, t1, v1, t2, v2)
      PROVE  KeepsHoldings(Ledger, Ledger', a)
  <2> DEFINE first == Transfer(Ledger, sender, t1, from, to, v1)
             r == Transfer(first, sender, t2, from, to, v2)
  <2>1. sender # a
    BY <1>5 DEF CallsOf
  <2>2. /\ v1 \in Nat /\ v2 \in Nat
        /\ CanTransfer(Ledger, sender, t1, from, v1)
        /\ CanTransfer(first, sender, t2, from, v2)
        /\ Install(r)
        /\ IsApproved(from, sender)
    BY <1>5, BoundAssumption DEF BoundAssumption, SafeBatchTransferFrom, BaseSafeBatchTransferFrom
  <2>3. a \in Addresses \ {from}
    BY <1>1, <2>1, <2>2 DEF IsApproved
  <2>4. /\ first \in LedgerType
        /\ SameChains(Ledger, first) \/ \E n \in ConditionIds : Recreated(Ledger, first, n)
    BY <1>1, <2>2, TransferCases
  <2>5. KeepsHoldings(Ledger, first, a)
    BY <1>1, <2>2, <2>3, TransferKeepsHoldings
  <2> HIDE DEF first
  <2>6. Chains(first, totals, now)
    BY <1>1, <2>4, SameChainsKept, RecreatedKeepsChains
  <2>7. r \in LedgerType
    BY <1>1, <2>2, <2>4, TransferCases
  <2>8. KeepsHoldings(first, r, a)
    BY <1>1, <2>2, <2>3, <2>4, <2>6, TransferKeepsHoldings
  <2> HIDE DEF r
  <2>9. KeepsHoldings(Ledger, r, a)
    BY <1>1, <2>4, <2>5, <2>7, <2>8, KeepsTwice
  <2>10. QED BY <2>2, <2>9, InstalledKeeps
<1>6. QED BY <1>2, <1>3, <1>4, <1>5

\* Restorations of others take nothing from an account that is not under DAO
\* control, while no accounts are linked.
LEMMA AccountCallsKeepHoldings ==
    ASSUME Inv, TypeOK', LinksBlank, AccountCalls, NEW a \in Users \ underDAOControl, ~CallsOf(a)
    PROVE  KeepsHoldings(Ledger, Ledger', a)
<1>1. PICK sender \in Users, old \in Addresses, new \in Addresses :
         \E allowed \in IF DAOMayAllow(old) THEN BOOLEAN ELSE {FALSE} :
            \/ PermitRestoreAccount(sender, old, new, allowed)
            \/ DispermitRestoreAccount(old, new, allowed)
            \/ \E t \in Tokens : RestoreFunds(sender, old, new, t, allowed)
            \/ \E t1, t2 \in Tokens : RestoreFundsBatch(sender, old, new, t1, t2, allowed)
  BY DEF AccountCalls
<1>2. PICK allowed \in IF DAOMayAllow(old) THEN BOOLEAN ELSE {FALSE} :
         \/ PermitRestoreAccount(sender, old, new, allowed)
         \/ DispermitRestoreAccount(old, new, allowed)
         \/ \E t \in Tokens : RestoreFunds(sender, old, new, t, allowed)
         \/ \E t1, t2 \in Tokens : RestoreFundsBatch(sender, old, new, t1, t2, allowed)
  BY <1>1
<1>3. /\ balances \in [Tokens -> [Addresses -> Nat]]
      /\ balances' \in [Tokens -> [Addresses -> Nat]]
      /\ a \in Addresses /\ a # Zero /\ sender # Zero
  BY AddressAssumption DEF AddressAssumption, Inv, TypeOK, TokenTypeOK, Addresses
<1>4. balances \in [Tokens -> [Addresses -> Nat]]
  BY <1>3
<1>5. a = old => allowed = FALSE
  BY DEF DAOMayAllow
<1>6. ASSUME balances' = balances, UNCHANGED <<maxConditionId, firstConditionInChain>>
      PROVE  KeepsHoldings(Ledger, Ledger', a)
  <2>1. \A t \in Tokens : balances[t][a] <= balances'[t][a]
    BY <1>3, <1>6
  <2>2. QED BY <1>3, <1>6, <2>1, PointwiseKeeps
<1>7. ASSUME sender = new \/ allowed, MovedOwner(old, new),
             ~(allowed = FALSE /\ sender = a /\ old = a /\ new = a)
      PROVE  a # old /\ a # new
  <2>1. new = old \/ new = Zero
    BY <1>7, BlankMovedOwner
  <2>2. QED BY <1>3, <1>5, <1>7, <2>1
<1>8. ASSUME NEW t \in Tokens, RestoreFunds(sender, old, new, t, allowed)
      PROVE  KeepsHoldings(Ledger, Ledger', a)
  <2>1. ~(allowed = FALSE /\ sender = a /\ old = a /\ new = a)
    BY <1>8 DEF CallsOf
  <2>2. a # old /\ a # new
    BY <1>7, <1>8, <2>1 DEF RestoreFunds
  <2>3. \A x \in Tokens : balances'[x][a] = balances[x][a]
    <3>1. balances' = RestoreToken(balances, old, new, t)
      BY <1>8 DEF RestoreFunds
    <3>2. \A x \in Tokens, c \in Addresses :
             balances'[x][c] = IF x = t /\ c = old THEN 0
                               ELSE IF x = t /\ c = new THEN balances[t][old] ELSE balances[x][c]
      BY <1>4, <3>1, RestoreBalances
    <3>3. QED BY <1>3, <2>2, <3>2
  <2>4. UNCHANGED <<maxConditionId, firstConditionInChain>>
    BY <1>8 DEF RestoreFunds, lockVars, conditionVars, salaryVars, chainVars
  <2>5. \A x \in Tokens : balances[x][a] <= balances'[x][a]
    BY <1>3, <2>3
  <2>6. QED BY <1>3, <2>4, <2>5, PointwiseKeeps
<1>9. ASSUME NEW t1 \in Tokens, NEW t2 \in Tokens,
             RestoreFundsBatch(sender, old, new, t1, t2, allowed)
      PROVE  KeepsHoldings(Ledger, Ledger', a)
  <2> DEFINE b == RestoreToken(balances, old, new, t1)
  <2>1. ~(allowed = FALSE /\ sender = a /\ old = a /\ new = a)
    BY <1>9 DEF CallsOf
  <2>2. a # old /\ a # new
    BY <1>7, <1>9, <2>1 DEF RestoreFundsBatch
  <2>3. b \in [Tokens -> [Addresses -> Nat]]
    BY <1>4, RestoreBalances
  <2>4. \A x \in Tokens, c \in Addresses :
           b[x][c] = IF x = t1 /\ c = old THEN 0
                     ELSE IF x = t1 /\ c = new THEN balances[t1][old] ELSE balances[x][c]
    BY <1>4, RestoreBalances
  <2>5. balances' = RestoreToken(b, old, new, t2)
    BY <1>9 DEF RestoreFundsBatch
  <2> HIDE DEF b
  <2>6. \A x \in Tokens : balances'[x][a] = b[x][a] /\ b[x][a] = balances[x][a]
    <3>1. \A x \in Tokens, c \in Addresses :
             balances'[x][c] = IF x = t2 /\ c = old THEN 0
                               ELSE IF x = t2 /\ c = new THEN b[t2][old] ELSE b[x][c]
      BY <2>3, <2>5, RestoreBalances
    <3>2. QED BY <1>3, <2>2, <2>4, <3>1
  <2>7. UNCHANGED <<maxConditionId, firstConditionInChain>>
    BY <1>9 DEF RestoreFundsBatch, lockVars, conditionVars, salaryVars, chainVars
  <2>8. \A x \in Tokens : balances[x][a] <= balances'[x][a]
    BY <1>3, <2>6
  <2>9. QED BY <1>3, <2>7, <2>8, PointwiseKeeps
<1>10. ASSUME PermitRestoreAccount(sender, old, new, allowed)
                \/ DispermitRestoreAccount(old, new, allowed)
      PROVE  KeepsHoldings(Ledger, Ledger', a)
  BY <1>6, <1>10 DEF PermitRestoreAccount, DispermitRestoreAccount, baseVars, tokenVars, lockVars,
                    conditionVars, salaryVars, chainVars
<1>11. QED BY <1>2, <1>8, <1>9, <1>10

\* Only the calls an account makes, of an operator it approved or of the DAO it is
\* under take holdings from it.
LEMMA StepKeepsHoldings ==
    ASSUME Inv, TypeOK', LinksBlank, Next, NEW a \in Users \ underDAOControl, ~CallsOf(a),
           \A b \in Addresses : <<a, b>> \notin operatorApprovals
    PROVE  KeepsHoldings(Ledger, Ledger', a)
<1>1. /\ balances \in [Tokens -> [Addresses -> Nat]] /\ a \in Addresses
      /\ now \in Nat /\ Ledger \in LedgerType /\ Chains(Ledger, totals, now)
  BY LedgerTyped DEF Inv, TypeOK, TokenTypeOK, LockTypeOK, Addresses
<1>2. ASSUME balances' = balances, UNCHANGED <<maxConditionId, firstConditionInChain>>
      PROVE  KeepsHoldings(Ledger, Ledger', a)
  <2>1. \A t \in Tokens : balances[t][a] <= balances'[t][a]
    BY <1>1, <1>2
  <2>2. QED BY <1>1, <1>2, <2>1, PointwiseKeeps
<1>3. CASE Tick /\ UNCHANGED salaryVars
  BY <1>2, <1>3 DEF Tick, tokenVars, conditionVars, salaryVars, chainVars
<1>4. CASE TokenCalls
  BY <1>4, TokenCallsKeepHoldings
<1>5. CASE SalaryCalls
  <2>1. ASSUME NEW n \in ConditionIds, RecreateCondition(n)
        PROVE  KeepsHoldings(Ledger, Ledger', a)
    <3> DEFINE r == Recreate(Ledger, n)
    <3>1. CanRecreate(Ledger, n) /\ Install(r)
      BY <2>1 DEF RecreateCondition
    <3>2. KeepsHoldings(Ledger, r, a)
      BY <1>1, <3>1, RecreateKeepsHoldings
    <3> HIDE DEF r
    <3>3. QED BY <3>1, <3>2, InstalledKeeps
  <2>2. ASSUME NEW sender \in Users, NEW n \in ConditionIds,
               MintSalary(sender, n, CurrentAddress(sender))
        PROVE  KeepsHoldings(Ledger, Ledger', a)
    <3> DEFINE to == CurrentAddress(sender)
    <3>1. to \in Addresses
      BY DEF Inv, TypeOK, AccountTypeOK, CurrentAddress, Addresses
    <3> HIDE DEF to
    <3>2. MintSalary(sender, n, to)
      BY <2>2 DEF to
    <3>3. now - lastSalaryDates[n] \in Nat /\ UNCHANGED <<lockVars, chainVars>>
      BY <3>1, <3>2, MintStep
    <3>4. \A x \in Tokens : balances'[x][a] = IF x = Condition(n) /\ a = to
                               THEN balances[x][a] + (now - lastSalaryDates[n])
                               ELSE balances[x][a]
      BY <1>1, <3>1, <3>2, MintPoints
    <3>5. \A x \in Tokens : balances[x][a] <= balances'[x][a]
      BY <1>1, <3>3, <3>4
    <3>6. UNCHANGED <<maxConditionId, firstConditionInChain>>
      BY <3>3 DEF lockVars, conditionVars, chainVars
    <3>7. QED BY <1>1, <3>5, <3>6, PointwiseKeeps
  <2>3. ASSUME NEW n \in ConditionIds, MintReturns(n) PROVE KeepsHoldings(Ledger, Ledger', a)
    BY <1>2, <2>3 DEF MintReturns, tokenVars, lockVars, conditionVars, chainVars
  <2>4. QED BY <1>5, <2>1, <2>2, <2>3 DEF SalaryCalls
<1>6. CASE OracleCalls /\ UNCHANGED salaryVars
  BY <1>2, <1>6 DEF OracleCalls, CreateOracle, ChangeOracleOwner, UpdateGracePeriodEnds,
     ReportNumerator, ReportNumeratorsBatch, FinishOracle, Publish, baseVars, lockVars, tokenVars,
     conditionVars, salaryVars, chainVars
<1>7. CASE CollateralCalls /\ UNCHANGED salaryVars
  <2>1. ASSUME NEW c \in Collaterals, NEW o \in Oracles, NEW v \in Nat, NEW from \in Addresses,
               NEW to \in Addresses, Donate(c, o, v, from, to)
        PROVE  KeepsHoldings(Ledger, Ledger', a)
    <3>1. ASSUME NEW x \in Tokens PROVE balances[x][a] <= balances'[x][a]
      <4> DEFINE minted == x \in {PerOracle(c, o), Donated(c)}
      <4>1. balances'[x][a] = IF minted /\ a = to THEN balances[x][a] + v ELSE balances[x][a]
        BY <1>1, <2>1, DonatePoints
      <4> HIDE DEF minted
      <4>2. balances[x][a] \in Nat
        BY <1>1
      <4>3. QED BY <4>1, <4>2
    <3>2. UNCHANGED <<maxConditionId, firstConditionInChain>>
      BY <1>7, <2>1 DEF Donate, conditionVars, salaryVars, chainVars
    <3>3. QED BY <1>1, <3>1, <3>2, PointwiseKeeps
  <2>2. ASSUME NEW c, NEW from, NEW to, NEW v, CollateralTransfer(c, from, to, v)
        PROVE  KeepsHoldings(Ledger, Ledger', a)
    BY <1>2, <1>7, <2>2 DEF CollateralTransfer, tokenVars, conditionVars, salaryVars, chainVars
  <2>3. ASSUME NEW c, NEW sender, NEW o, NEW t, Withdraw(sender, c, o, t)
        PROVE  KeepsHoldings(Ledger, Ledger', a)
    BY <1>2, <1>7, <2>3
    DEF Withdraw, WithdrawCollateral, tokenVars, conditionVars, salaryVars, chainVars
  <2>4. ASSUME NEW c \in Collaterals, NEW o \in Oracles, GatherDeFiProfit(c, o)
        PROVE  KeepsHoldings(Ledger, Ledger', a)
    BY <2>1, <2>4, GatherDonates DEF Inv, Addresses
  <2>5. Amounts \subseteq Nat /\ Users \cup {This} \subseteq Addresses
    BY BoundAssumption DEF BoundAssumption, Addresses
  <2>6. QED BY <1>7, <2>1, <2>2, <2>3, <2>4, <2>5 DEF CollateralCalls
<1>8. CASE AccountCalls
  BY <1>8, AccountCallsKeepHoldings
<1>9. CASE DAOCalls
  <2>1. ASSUME NEW customer \in Customers, NEW control, RegisterCustomer(customer, control)
        PROVE  KeepsHoldings(Ledger, Ledger', a)
    <3> DEFINE N == NewCondition(Ledger, OriginalAddress(customer))
               r == [N EXCEPT !.lastSalaryDates[maxConditionId + 1] = now]
    <3>1. /\ CanCreateCondition(Ledger) /\ OriginalAddress(customer) \in Addresses
          /\ Install(r)
      BY <2>1, DAOAssumption DEF DAOAssumption, RegisterCustomer, RegisterSalary, Inv, TypeOK,
                                 AccountTypeOK, OriginalAddress
    <3>2. N \in LedgerType /\ KeepsHoldings(Ledger, N, a)
      BY <1>1, <3>1, NewConditionAdds, RegisterKeepsHoldings
    <3> HIDE DEF N
    <3>3. /\ r.maxConditionId = N.maxConditionId
          /\ r.firstConditionInChain = N.firstConditionInChain
          /\ r.balances = N.balances
      BY <3>2 DEF LedgerType
    <3> HIDE DEF r
    <3>4. \A n : ChainOf(r, n) = ChainOf(N, n)
      BY <3>3 DEF ChainOf
    <3>5. KeepsHoldings(Ledger, r, a)
      BY <3>2, <3>3, <3>4 DEF KeepsHoldings
    <3>6. QED BY <3>1, <3>5, InstalledKeeps
  <2>2. ASSUME UNCHANGED baseVars PROVE KeepsHoldings(Ledger, Ledger', a)
    BY <1>2, <2>2 DEF baseVars, tokenVars, lockVars, conditionVars, salaryVars, chainVars
  <2>3. QED BY <1>9, <2>1, <2>2 DEF DAOCalls, SetDAOControl, SetDAO
<1>10. QED BY <1>3, <1>4, <1>5, <1>6, <1>7, <1>8, <1>9 DEF Next

\* What a user holds of a chain, or of a donation counter, shrinks only by a call
\* of his own, of an operator he approved, or of the DAO he is under; recreating
\* his conditions, which anyone may do, takes nothing from him.
THEOREM OwnersSpend == Spec => OnlyOwnerSpends
<1>1. Inv /\ Inv' /\ LinksBlank /\ [Next]_vars /\ HoldingsAgree'
      => [\A a \in Users \ underDAOControl :
            (LosesHoldings(a) /\ \A b \in Addresses : <<a, b>> \notin operatorApprovals)
               => CallsOf(a)]_vars
  <2> SUFFICES ASSUME Inv, Inv', LinksBlank, Next,
                      HoldingsAgree',
                      NEW a \in Users \ underDAOControl,
                      \A b \in Addresses : <<a, b>> \notin operatorApprovals,
                      ~CallsOf(a)
               PROVE  ~LosesHoldings(a)
    OBVIOUS
  <2>1. TypeOK' /\ a \in Addresses
    BY DEF Inv, Addresses
  <2>2. KeepsHoldings(Ledger, Ledger', a)
    BY <2>1, StepKeepsHoldings
  <2>3. QED BY <2>1, <2>2, KeepsIsNoLoss
<1>2. Inv' => HoldingsAgree'
  BY HoldingIsMine, PTL
<1>3. QED BY <1>1, <1>2, AccountsNeverLinked, Invariance, PTL DEF Spec, OnlyOwnerSpends
=============================================================================
