---------------------------- MODULE SalaryProofs ----------------------------
(***************************************************************************)
(* Theorems about SalaryWithDAO, for any users, collaterals and bounds.      *)
(* First what the ledger operators of BaseSalary do: what a transfer, a      *)
(* recreation and a registration do to the type of a ledger and to the       *)
(* chains of conditions in it.                                               *)
(***************************************************************************)
EXTENDS SalaryProperties, TLAPS

LedgerType ==
    [balances : [Tokens -> [Addresses -> Nat]],
     maxConditionId : ConditionIds,
     conditionOwners : [ConditionIds -> Addresses],
     conditionCreationDates : [ConditionIds -> Nat],
     lastSalaryDates : [ConditionIds -> Nat],
     salaryReceivers : [ConditionIds -> Addresses],
     firstConditionInChain : [ConditionIds -> ConditionIds],
     firstToLastConditionInChain : [ConditionIds -> ConditionIds]]

AccountsType ==
    [balances : [Tokens -> [Addresses -> Nat]], totals : [Tokens -> Nat]]

\* r differs from s in its balances only.
SameChains(s, r) ==
    /\ r.maxConditionId = s.maxConditionId
    /\ r.conditionOwners = s.conditionOwners
    /\ r.conditionCreationDates = s.conditionCreationDates
    /\ r.lastSalaryDates = s.lastSalaryDates
    /\ r.salaryReceivers = s.salaryReceivers
    /\ r.firstConditionInChain = s.firstConditionInChain
    /\ r.firstToLastConditionInChain = s.firstToLastConditionInChain

\* r has one more condition than s: of `customer`, in the chain of `first`, paid
\* up to `date`.
OneMore(s, r, customer, first, date) ==
    LET new == s.maxConditionId + 1
    IN  /\ new \in ConditionIds
        /\ r.maxConditionId = new
        /\ r.conditionOwners = [s.conditionOwners EXCEPT ![new] = customer]
        /\ r.conditionCreationDates = [s.conditionCreationDates EXCEPT ![new] = now]
        /\ r.lastSalaryDates = [s.lastSalaryDates EXCEPT ![new] = date]
        /\ r.salaryReceivers = [s.salaryReceivers EXCEPT ![new] = customer]
        /\ r.firstConditionInChain = [s.firstConditionInChain EXCEPT ![new] = first]
        /\ r.firstToLastConditionInChain =
             [s.firstToLastConditionInChain EXCEPT ![new] = new]

\* r is s after a recreation of n.
Recreated(s, r, n) ==
    /\ EnsureFirst(s, n)
    /\ OneMore(s, r, s.salaryReceivers[n], n, s.lastSalaryDates[n])

-----------------------------------------------------------------------------
\* The three kinds of token ID are distinct, and a kind is injective.
LEMMA TokensDistinct ==
    ASSUME NEW n, NEW m, NEW c, NEW o
    PROVE  /\ Condition(n) = Condition(m) => n = m
           /\ Condition(n) # PerOracle(c, o)
           /\ Condition(n) # Donated(c)
BY DEF Condition, PerOracle, Donated

\* The counters of oracles are told apart, and from those of all donations.
LEMMA PerOracleDistinct ==
    ASSUME NEW c, NEW o, NEW d, NEW p
    PROVE  /\ PerOracle(c, o) # Donated(d)
           /\ PerOracle(c, o) = PerOracle(d, p) => c = d /\ o = p
BY DEF PerOracle, Donated

\* A token is one of the three kinds of ID.
LEMMA TokenKinds ==
    /\ \A n \in ConditionIds : Condition(n) \in Tokens
    /\ \A c \in Collaterals, o \in Oracles : PerOracle(c, o) \in Tokens
    /\ \A c \in Collaterals : Donated(c) \in Tokens
BY DEF Tokens

\* An invariant state has a well-typed ledger.
LEMMA LedgerTyped == TypeOK => Ledger \in LedgerType
BY DEF TypeOK, TokenTypeOK, LockTypeOK, SalaryTypeOK, Ledger, LedgerType

\* A mint keeps balances and totals well typed and adds to one total.
LEMMA MintTyped ==
    ASSUME NEW s \in AccountsType,
           NEW to \in Addresses, NEW t \in Tokens, NEW v \in Nat
    PROVE  /\ Mint(s, to, t, v) \in AccountsType
           /\ Mint(s, to, t, v).totals = [s.totals EXCEPT ![t] = s.totals[t] + v]
<1> DEFINE b == [s.balances EXCEPT ![t] = [s.balances[t] EXCEPT ![to] = s.balances[t][to] + v]]
           tot == [s.totals EXCEPT ![t] = s.totals[t] + v]
           r == Mint(s, to, t, v)
<1>1. s.balances \in [Tokens -> [Addresses -> Nat]] /\ s.totals \in [Tokens -> Nat]
  BY DEF AccountsType
<1>2. b \in [Tokens -> [Addresses -> Nat]] /\ tot \in [Tokens -> Nat]
  BY <1>1
<1>3. r = [s EXCEPT !.balances = b, !.totals = tot]
  BY DEF Mint, AccountsType
<1> HIDE DEF b, tot
<1>4. r \in AccountsType /\ r.totals = tot
  BY <1>2, <1>3 DEF AccountsType
<1>5. QED BY <1>4 DEF r, tot

\* A transfer that SafeMath lets through keeps a ledger well typed and touches
\* its balances only.
LEMMA MoveTyped ==
    ASSUME NEW s \in LedgerType, NEW t \in Tokens, NEW from \in Addresses,
           NEW to \in Addresses, NEW v \in Nat, CanMove(s, t, from, v)
    PROVE  /\ Move(s, t, from, to, v) \in LedgerType
           /\ SameChains(s, Move(s, t, from, to, v))
<1> DEFINE b == s.balances
           b1 == [b EXCEPT ![t] = [b[t] EXCEPT ![from] = b[t][from] - v]]
           b2 == [b1 EXCEPT ![t] = [b1[t] EXCEPT ![to] = b1[t][to] + v]]
<1>1. b \in [Tokens -> [Addresses -> Nat]]
  BY DEF LedgerType
<1>2. b[t][from] - v \in Nat
  BY <1>1 DEF CanMove
<1>3. b1 \in [Tokens -> [Addresses -> Nat]]
  BY <1>1, <1>2
<1>4. b2 \in [Tokens -> [Addresses -> Nat]]
  <2> HIDE DEF b1
  <2> QED BY <1>3
<1>5. Move(s, t, from, to, v) = [s EXCEPT !.balances = b2]
  BY DEF LedgerType, Move
<1> HIDE DEF b2
<1>6. QED BY <1>4, <1>5 DEF LedgerType, SameChains

\* _doCreateCondition stays within the bound on conditions.
LEMMA RoomForCondition ==
    ASSUME NEW s \in LedgerType, CanCreateCondition(s)
    PROVE  s.maxConditionId + 1 \in ConditionIds
<1>1. s.maxConditionId \in ConditionIds
  BY DEF LedgerType
<1>2. s.maxConditionId < MaxCondition
  BY DEF CanCreateCondition
<1>3. QED BY <1>1, <1>2, BoundAssumption DEF BoundAssumption, ConditionIds

\* What one more condition does to the type of a ledger.
LEMMA OneMoreTyped ==
    ASSUME NEW s \in LedgerType, NEW r, NEW customer \in Addresses,
           NEW first \in ConditionIds, NEW date \in Nat, now \in Nat,
           OneMore(s, r, customer, first, date)
    PROVE  /\ r.maxConditionId \in ConditionIds
           /\ r.conditionOwners \in [ConditionIds -> Addresses]
           /\ r.salaryReceivers \in [ConditionIds -> Addresses]
           /\ r.conditionCreationDates \in [ConditionIds -> Nat]
           /\ r.lastSalaryDates \in [ConditionIds -> Nat]
           /\ r.firstConditionInChain \in [ConditionIds -> ConditionIds]
           /\ r.firstToLastConditionInChain \in [ConditionIds -> ConditionIds]
<1> DEFINE new == s.maxConditionId + 1
<1>1. new \in ConditionIds
  BY DEF OneMore
<1>2. /\ s.conditionOwners \in [ConditionIds -> Addresses]
      /\ s.salaryReceivers \in [ConditionIds -> Addresses]
      /\ s.conditionCreationDates \in [ConditionIds -> Nat]
      /\ s.lastSalaryDates \in [ConditionIds -> Nat]
      /\ s.firstConditionInChain \in [ConditionIds -> ConditionIds]
      /\ s.firstToLastConditionInChain \in [ConditionIds -> ConditionIds]
  BY DEF LedgerType
<1>3. /\ r.maxConditionId = new
      /\ r.conditionOwners = [s.conditionOwners EXCEPT ![new] = customer]
      /\ r.conditionCreationDates = [s.conditionCreationDates EXCEPT ![new] = now]
      /\ r.lastSalaryDates = [s.lastSalaryDates EXCEPT ![new] = date]
      /\ r.salaryReceivers = [s.salaryReceivers EXCEPT ![new] = customer]
      /\ r.firstConditionInChain = [s.firstConditionInChain EXCEPT ![new] = first]
      /\ r.firstToLastConditionInChain =
           [s.firstToLastConditionInChain EXCEPT ![new] = new]
  BY DEF OneMore
<1> HIDE DEF new
<1>4. QED BY <1>1, <1>2, <1>3

\* A registration adds a condition that is the first of its chain.
LEMMA NewConditionAdds ==
    ASSUME NEW s \in LedgerType, NEW customer \in Addresses, now \in Nat,
           CanCreateCondition(s)
    PROVE  LET r == NewCondition(s, customer)
               new == s.maxConditionId + 1
           IN  /\ r \in LedgerType
               /\ OneMore(s, r, customer, new, s.lastSalaryDates[new])
               /\ r.balances = s.balances
               /\ r.lastSalaryDates = s.lastSalaryDates
<1> DEFINE r == NewCondition(s, customer)
           new == s.maxConditionId + 1
<1>1. new \in ConditionIds
  BY RoomForCondition
<1>2. r = [s EXCEPT !.maxConditionId = new,
              !.conditionOwners = [@ EXCEPT ![new] = customer],
              !.salaryReceivers = [@ EXCEPT ![new] = customer],
              !.conditionCreationDates = [@ EXCEPT ![new] = now],
              !.firstConditionInChain = [@ EXCEPT ![new] = new],
              !.firstToLastConditionInChain = [@ EXCEPT ![new] = new]]
  BY DEF NewCondition, CreateCondition, LedgerType
<1> HIDE DEF r
<1>3. s.lastSalaryDates \in [ConditionIds -> Nat]
  BY DEF LedgerType
<1>4. s.lastSalaryDates = [s.lastSalaryDates EXCEPT ![new] = s.lastSalaryDates[new]]
  BY <1>1, <1>3
<1>5. /\ OneMore(s, r, customer, new, s.lastSalaryDates[new])
      /\ r.balances = s.balances
      /\ r.lastSalaryDates = s.lastSalaryDates
  BY <1>1, <1>2, <1>4 DEF OneMore, LedgerType
<1>6. r \in LedgerType
  <2>1. s.lastSalaryDates[new] \in Nat
    BY <1>1, <1>3
  <2>2. s.balances \in [Tokens -> [Addresses -> Nat]]
    BY DEF LedgerType
  <2>3. QED BY <1>1, <1>2, <1>5, <2>1, <2>2, OneMoreTyped DEF LedgerType
<1>7. QED BY <1>5, <1>6 DEF r

\* A recreation adds a condition to the chain of n and moves one balance.
LEMMA RecreateAdds ==
    ASSUME NEW s \in LedgerType, NEW n \in ConditionIds, now \in Nat,
           CanRecreate(s, n)
    PROVE  /\ Recreate(s, n) \in LedgerType
           /\ Recreated(s, Recreate(s, n), n)
<1> DEFINE customer == s.salaryReceivers[n]
           old == s.firstToLastConditionInChain[n]
           new == s.maxConditionId + 1
           N == NewCondition(s, customer)
           b == N.balances
           b1 == [b EXCEPT ![Condition(new)] =
                     [b[Condition(new)] EXCEPT ![customer] = s.balances[Condition(old)][customer]]]
           b2 == [b1 EXCEPT ![Condition(old)] = [b1[Condition(old)] EXCEPT ![customer] = 0]]
           r == Recreate(s, n)
<1>1. customer \in Addresses /\ old \in ConditionIds /\ s.lastSalaryDates[n] \in Nat
  BY DEF LedgerType
<1>2. new \in ConditionIds
  BY RoomForCondition DEF CanRecreate
<1>3. N \in LedgerType /\ OneMore(s, N, customer, new, s.lastSalaryDates[new])
                       /\ N.balances = s.balances
                       /\ N.lastSalaryDates = s.lastSalaryDates
  BY <1>1, NewConditionAdds DEF CanRecreate
<1>4. r = [N EXCEPT !.firstConditionInChain = [@ EXCEPT ![new] = n],
                    !.balances = b2,
                    !.lastSalaryDates = [@ EXCEPT ![new] = s.lastSalaryDates[n]]]
  <2> DEFINE r1 == [N EXCEPT !.firstConditionInChain[new] = n,
                             !.balances[Condition(new)][customer] =
                                s.balances[Condition(old)][customer]]
  <2>1. r = [r1 EXCEPT !.balances[Condition(old)][customer] = 0,
                       !.lastSalaryDates[new] = s.lastSalaryDates[n]]
    BY DEF Recreate
  <2> HIDE DEF N, r, new, old, customer
  <2>2. r1 = [N EXCEPT !.firstConditionInChain = [@ EXCEPT ![new] = n], !.balances = b1]
    BY <1>3 DEF LedgerType
  <2> HIDE DEF r1, b1
  <2>3. QED BY <1>3, <2>1, <2>2 DEF LedgerType
<1>5. b2 \in [Tokens -> [Addresses -> Nat]]
  <2> HIDE DEF N, old, new, customer
  <2>1. Condition(old) \in Tokens /\ Condition(new) \in Tokens
    BY <1>1, <1>2, TokenKinds
  <2>2. b \in [Tokens -> [Addresses -> Nat]]
    BY <1>3 DEF LedgerType
  <2>3. s.balances[Condition(old)][customer] \in Nat
    BY <1>1, <2>1 DEF LedgerType
  <2>4. b1 \in [Tokens -> [Addresses -> Nat]]
    BY <2>1, <2>2, <2>3, <1>1
  <2> HIDE DEF b1
  <2>5. QED BY <2>1, <2>4, <1>1
<1> HIDE DEF b2, N, r, customer, old
<1>6. [N.firstConditionInChain EXCEPT ![new] = n] =
        [s.firstConditionInChain EXCEPT ![new] = n]
  <2>1. N.firstConditionInChain = [s.firstConditionInChain EXCEPT ![new] = new]
    BY <1>3 DEF OneMore
  <2>2. s.firstConditionInChain \in [ConditionIds -> ConditionIds]
    BY DEF LedgerType
  <2> HIDE DEF new
  <2>3. QED BY <1>2, <2>1, <2>2
<1>7. OneMore(s, r, customer, n, s.lastSalaryDates[n])
  <2>1. /\ r.maxConditionId = N.maxConditionId
        /\ r.conditionOwners = N.conditionOwners
        /\ r.conditionCreationDates = N.conditionCreationDates
        /\ r.lastSalaryDates = [s.lastSalaryDates EXCEPT ![new] = s.lastSalaryDates[n]]
        /\ r.salaryReceivers = N.salaryReceivers
        /\ r.firstConditionInChain = [s.firstConditionInChain EXCEPT ![new] = n]
        /\ r.firstToLastConditionInChain = N.firstToLastConditionInChain
    BY <1>3, <1>4, <1>6 DEF LedgerType
  <2>2. QED BY <1>3, <2>1 DEF OneMore
<1>8. r \in LedgerType
  <2>1. /\ r.maxConditionId \in ConditionIds
        /\ r.conditionOwners \in [ConditionIds -> Addresses]
        /\ r.salaryReceivers \in [ConditionIds -> Addresses]
        /\ r.conditionCreationDates \in [ConditionIds -> Nat]
        /\ r.lastSalaryDates \in [ConditionIds -> Nat]
        /\ r.firstConditionInChain \in [ConditionIds -> ConditionIds]
        /\ r.firstToLastConditionInChain \in [ConditionIds -> ConditionIds]
    BY <1>1, <1>7, OneMoreTyped
  <2>2. QED BY <1>3, <1>4, <1>5, <2>1 DEF LedgerType
<1>9. QED BY <1>7, <1>8 DEF r, customer, Recreated, CanRecreate

\* A transfer leaves the chains alone or recreates the condition it moves.
LEMMA TransferCases ==
    ASSUME NEW s \in LedgerType, NEW t \in Tokens, NEW from \in Addresses,
           NEW to \in Addresses, NEW v \in Nat, NEW sender, now \in Nat,
           CanTransfer(s, sender, t, from, v)
    PROVE  LET r == Transfer(s, sender, t, from, to, v)
           IN  /\ r \in LedgerType
               /\ SameChains(s, r) \/ \E n \in ConditionIds : Recreated(s, r, n)
<1> DEFINE moved == Move(s, t, from, to, v)
           r == Transfer(s, sender, t, from, to, v)
<1>1. moved \in LedgerType /\ SameChains(s, moved)
  BY MoveTyped DEF CanTransfer
<1>2. CASE ~Recreates(s, sender, t)
  BY <1>1, <1>2 DEF Transfer
<1>3. CASE Recreates(s, sender, t)
  <2>1. PICK n \in ConditionIds : t = Condition(n)
    BY <1>3 DEF Recreates
  <2>2. t[2] = n
    BY <2>1 DEF Condition
  <2>3. CanRecreate(s, n)
    BY <1>3, <2>2 DEF CanTransfer
  <2> HIDE DEF moved
  <2>4. CanRecreate(moved, n)
    BY <1>1, <2>3 DEF CanRecreate, EnsureFirst, IsFirstInChain, CanCreateCondition, SameChains
  <2>5. r = Recreate(moved, n)
    BY <1>3, <2>2 DEF Transfer, moved
  <2>6. r \in LedgerType /\ Recreated(moved, r, n)
    BY <1>1, <2>4, <2>5, RecreateAdds
  <2> HIDE DEF r
  <2>7. Recreated(s, r, n)
    BY <1>1, <2>6 DEF Recreated, OneMore, EnsureFirst, IsFirstInChain, SameChains
  <2>8. QED BY <2>6, <2>7 DEF r
<1>4. QED BY <1>2, <1>3

-----------------------------------------------------------------------------
(* The chains of a ledger, with the totals and the time they are judged at.  *)

\* Nothing is recorded for a condition that was not created.
Blank(s, tot) ==
    \A n \in ConditionIds : n \notin 1..s.maxConditionId =>
        /\ s.firstConditionInChain[n] = 0
        /\ s.firstToLastConditionInChain[n] = 0
        /\ s.lastSalaryDates[n] = 0
        /\ tot[Condition(n)] = 0

\* A created condition leads in one step to a first one, older and of the same
\* person.
Rooted(s, n) ==
    LET f == s.firstConditionInChain[n]
    IN  /\ f \in 1..n
        /\ s.firstConditionInChain[f] = f
        /\ s.firstToLastConditionInChain[n] = n
        /\ s.salaryReceivers[n] = s.salaryReceivers[f]
        /\ s.conditionOwners[n] = s.salaryReceivers[n]
        /\ s.conditionCreationDates[f] <= s.conditionCreationDates[n]

\* A first condition was paid for the seconds up to its last date, and for no
\* others when its receiver has no code; any other was not paid at all.
PaidUp(s, tot, time, n) ==
    /\ s.conditionCreationDates[n] \in 1..time
    /\ s.lastSalaryDates[n] \in 1..time
    /\ IF s.firstConditionInChain[n] = n
         THEN /\ s.conditionCreationDates[n] <= s.lastSalaryDates[n]
              /\ tot[Condition(n)] >= s.lastSalaryDates[n] - s.conditionCreationDates[n]
              /\ s.salaryReceivers[n] \notin Contracts =>
                    tot[Condition(n)] = s.lastSalaryDates[n] - s.conditionCreationDates[n]
         ELSE tot[Condition(n)] = 0

Chains(s, tot, time) ==
    /\ Blank(s, tot)
    /\ \A n \in 1..s.maxConditionId : Rooted(s, n) /\ PaidUp(s, tot, time, n)

\* Chains depend on a ledger without its balances and survive the passing of time.
LEMMA SameChainsKept ==
    ASSUME NEW s, NEW r, NEW tot, NEW time \in Nat, NEW later \in Nat, time <= later,
           SameChains(s, r), Chains(s, tot, time)
    PROVE  Chains(r, tot, later)
BY DEF SameChains, Chains, Blank, Rooted, PaidUp

\* A first condition was created.
LEMMA FirstWasCreated ==
    ASSUME NEW s \in LedgerType, NEW tot, NEW n \in ConditionIds,
           Blank(s, tot), EnsureFirst(s, n)
    PROVE  n \in 1..s.maxConditionId
BY DEF Blank, EnsureFirst, IsFirstInChain

\* One more condition keeps the chains when it is a first one, paid up to now, or
\* joins the chain of a first one with its date and its receiver.
LEMMA OneMoreKeepsChains ==
    ASSUME NEW s \in LedgerType, NEW r \in LedgerType, NEW tot, now \in Nat, now >= 1,
           NEW customer, NEW first \in ConditionIds, NEW date \in Nat,
           OneMore(s, r, customer, first, date),
           Chains(s, tot, now),
           \/ first = s.maxConditionId + 1 /\ date = now
           \/ /\ first \in 1..s.maxConditionId
              /\ s.firstConditionInChain[first] = first
              /\ customer = s.salaryReceivers[first]
              /\ date = s.lastSalaryDates[first]
    PROVE  Chains(r, tot, now)
<1> DEFINE new == s.maxConditionId + 1
           Old == 1..s.maxConditionId
<1>1. /\ new \in ConditionIds /\ s.maxConditionId \in Nat /\ r.maxConditionId = new
      /\ new \notin Old
  BY BoundAssumption DEF BoundAssumption, OneMore, LedgerType, ConditionIds
<1>2. \A n \in ConditionIds \ {new} :
         /\ r.conditionOwners[n] = s.conditionOwners[n]
         /\ r.conditionCreationDates[n] = s.conditionCreationDates[n]
         /\ r.lastSalaryDates[n] = s.lastSalaryDates[n]
         /\ r.salaryReceivers[n] = s.salaryReceivers[n]
         /\ r.firstConditionInChain[n] = s.firstConditionInChain[n]
         /\ r.firstToLastConditionInChain[n] = s.firstToLastConditionInChain[n]
  BY DEF OneMore, LedgerType
<1>3. /\ r.conditionOwners[new] = customer
      /\ r.conditionCreationDates[new] = now
      /\ r.lastSalaryDates[new] = date
      /\ r.salaryReceivers[new] = customer
      /\ r.firstConditionInChain[new] = first
      /\ r.firstToLastConditionInChain[new] = new
  BY <1>1 DEF OneMore, LedgerType
<1>4. 1..r.maxConditionId = Old \cup {new} /\ Old \subseteq ConditionIds \ {new}
  BY <1>1, BoundAssumption DEF BoundAssumption, ConditionIds
<1>5. tot[Condition(new)] = 0 /\ \A n \in Old : Rooted(s, n) /\ PaidUp(s, tot, now, n)
  BY <1>1 DEF Chains, Blank
<1> HIDE DEF new, Old
<1>6. Blank(r, tot)
  BY <1>2, <1>4 DEF Chains, Blank, Old
<1>7. ASSUME NEW n \in Old PROVE Rooted(r, n) /\ PaidUp(r, tot, now, n)
  <2>1. Rooted(s, n) /\ PaidUp(s, tot, now, n)
    BY <1>5
  <2>2. s.firstConditionInChain[n] \in Old
    BY <1>1, <2>1 DEF Rooted, Old
  <2>3. QED BY <1>2, <1>4, <2>1, <2>2 DEF Rooted, PaidUp
<1>8. Rooted(r, new) /\ PaidUp(r, tot, now, new)
  <2>1. CASE first = s.maxConditionId + 1 /\ date = now
    BY <1>1, <1>3, <1>5, <2>1 DEF Rooted, PaidUp, new
  <2>2. CASE /\ first \in 1..s.maxConditionId
             /\ s.firstConditionInChain[first] = first
             /\ customer = s.salaryReceivers[first]
             /\ date = s.lastSalaryDates[first]
    <3>1. PaidUp(s, tot, now, first) /\ first \in Old
      BY <1>5, <2>2 DEF Old
    <3>2. first \in ConditionIds \ {new} /\ first # new /\ first \in 1..new
      BY <1>1, <1>4, <2>2, <3>1 DEF new
    <3>3. Rooted(r, new)
      BY <1>2, <1>3, <2>2, <3>1, <3>2 DEF Rooted, PaidUp
    <3>4. PaidUp(r, tot, now, new)
      BY <1>3, <1>5, <2>2, <3>1, <3>2 DEF PaidUp
    <3>5. QED BY <3>3, <3>4
  <2>3. QED BY <2>1, <2>2
<1>9. QED BY <1>4, <1>6, <1>7, <1>8 DEF Chains

\* A recreation keeps the chains.
LEMMA RecreatedKeepsChains ==
    ASSUME NEW s \in LedgerType, NEW r \in LedgerType, NEW tot, now \in Nat, now >= 1,
           NEW n \in ConditionIds, Recreated(s, r, n), Chains(s, tot, now)
    PROVE  Chains(r, tot, now)
<1>1. OneMore(s, r, s.salaryReceivers[n], n, s.lastSalaryDates[n])
  BY DEF Recreated
<1>2. n \in 1..s.maxConditionId /\ s.firstConditionInChain[n] = n
  BY FirstWasCreated DEF Recreated, Chains, EnsureFirst, IsFirstInChain
<1>3. s.lastSalaryDates[n] \in Nat
  BY DEF LedgerType
<1>4. QED BY <1>1, <1>2, <1>3, OneMoreKeepsChains

\* r has the conditions of s, with the same receivers and in the same chains.
Extends(s, r) ==
    \A n \in 1..s.maxConditionId :
        /\ n \in 1..r.maxConditionId
        /\ r.firstConditionInChain[n] = s.firstConditionInChain[n]
        /\ r.salaryReceivers[n] = s.salaryReceivers[n]
        /\ r.conditionCreationDates[n] = s.conditionCreationDates[n]

\* One more condition changes none of those before it.
LEMMA OneMoreExtends ==
    ASSUME NEW s \in LedgerType, NEW r, NEW customer, NEW first, NEW date,
           OneMore(s, r, customer, first, date)
    PROVE  Extends(s, r)
<1> DEFINE new == s.maxConditionId + 1
<1>1. /\ s.maxConditionId \in Nat /\ MaxCondition \in Nat
      /\ s.maxConditionId <= MaxCondition
      /\ r.maxConditionId = new
  BY BoundAssumption DEF BoundAssumption, LedgerType, ConditionIds, OneMore
<1>2. \A n \in 1..s.maxConditionId : n \in ConditionIds \ {new} /\ n \in 1..r.maxConditionId
  BY <1>1 DEF ConditionIds
<1>3. /\ r.firstConditionInChain = [s.firstConditionInChain EXCEPT ![new] = first]
      /\ r.salaryReceivers = [s.salaryReceivers EXCEPT ![new] = customer]
      /\ r.conditionCreationDates = [s.conditionCreationDates EXCEPT ![new] = now]
      /\ s.firstConditionInChain \in [ConditionIds -> ConditionIds]
      /\ s.salaryReceivers \in [ConditionIds -> Addresses]
      /\ s.conditionCreationDates \in [ConditionIds -> Nat]
  BY DEF OneMore, LedgerType
<1> HIDE DEF new
<1>4. QED BY <1>2, <1>3 DEF Extends

\* Neither a move nor a recreation changes the conditions there are.
LEMMA TransferExtends ==
    ASSUME NEW s \in LedgerType, NEW r,
           SameChains(s, r) \/ \E n \in ConditionIds : Recreated(s, r, n)
    PROVE  Extends(s, r)
<1>1. CASE SameChains(s, r)
  BY <1>1 DEF SameChains, Extends
<1>2. CASE \E n \in ConditionIds : Recreated(s, r, n)
  BY <1>2, OneMoreExtends DEF Recreated
<1>3. QED BY <1>1, <1>2

-----------------------------------------------------------------------------
(* The invariant. *)

\* A salary of which a payment is under way is that of a receiver with code, and
\* was paid up to now.
Asked ==
    \A n \in ConditionIds : awaiting[n] > 0 =>
        /\ n \in 1..maxConditionId
        /\ firstConditionInChain[n] = n
        /\ salaryReceivers[n] \in Contracts
        /\ totals[Condition(n)] >= now - conditionCreationDates[n]

\* The inductive invariant.  The types alone are not inductive: a mint subtracts
\* a date from the time and a withdrawal one counter from another.  Nor are the
\* chains: what a payment leaves to be written, it writes when it returns.
Inv ==
    /\ TypeOK
    /\ LastWithinDonations
    /\ now >= 1
    /\ Chains(Ledger, totals, now)
    /\ Asked

-----------------------------------------------------------------------------
(* Accounts are never linked. *)

\* Nothing was ever linked.
LinksBlank ==
    /\ originalAddresses = [a \in Addresses |-> Zero]
    /\ originalToCurrentAddresses = [a \in Addresses |-> Zero]
    /\ newToOldAccount = [a \in Addresses |-> Zero]

\* Every call leaves the links blank: the first one to be made is refused.
LEMMA StepKeepsBlank == LinksBlank /\ [Next]_vars => LinksBlank'
<1> SUFFICES ASSUME LinksBlank, [Next]_vars PROVE LinksBlank'
  OBVIOUS
<1>1. ASSUME UNCHANGED accountVars PROVE LinksBlank'
  BY <1>1 DEF LinksBlank, accountVars
<1>2. \A old, new \in Addresses : ~AvoidsZero(old, new)
  BY DEF LinksBlank, AvoidsZero
<1>3. CASE AccountCalls
  <2>1. PICK sender \in Users, old \in Addresses, new \in Addresses, allowed \in BOOLEAN :
           \/ PermitRestoreAccount(sender, old, new, allowed)
           \/ DispermitRestoreAccount(old, new, allowed)
           \/ \E t \in Tokens : RestoreFunds(sender, old, new, t, allowed)
           \/ \E t1, t2 \in Tokens : RestoreFundsBatch(sender, old, new, t1, t2, allowed)
    BY <1>3 DEF AccountCalls
  <2>2. UNCHANGED accountVars
    BY <1>2, <2>1 DEF PermitRestoreAccount, DispermitRestoreAccount, RestoreFunds,
                      RestoreFundsBatch
  <2>3. QED BY <1>1, <2>2
<1>4. CASE DAOCalls
  BY <1>1, <1>4 DEF DAOCalls, RegisterCustomer, SetDAOControl, SetDAO
<1>5. CASE UNCHANGED vars
  BY <1>1, <1>5 DEF vars
<1>6. QED BY <1>1, <1>3, <1>4, <1>5 DEF Next

\* At first nothing is linked.
LEMMA InitBlank == Init => LinksBlank
BY DEF Init, AccountInit, LinksBlank

\* permitRestoreAccount, the only call that links accounts, requires that the new
\* account is linked already: no account ever has a successor.
THEOREM AccountsNeverLinked == Spec => []LinksBlank
BY InitBlank, StepKeepsBlank, PTL DEF Spec

-----------------------------------------------------------------------------
(* What a step that leaves a part of the state alone keeps. *)

\* Time, scores, payouts and accounts are nothing to the chains.
LEMMA ChainsFrame ==
    ASSUME Inv, UNCHANGED <<conditionVars, salaryVars>>,
           now' \in Nat, now <= now', now' = now \/ Answered,
           \A n \in ConditionIds : totals'[Condition(n)] = totals[Condition(n)]
    PROVE  now' >= 1 /\ Chains(Ledger, totals, now)' /\ Asked'
<1>1. now \in Nat /\ now >= 1 /\ now' >= 1
  BY DEF Inv, TypeOK, LockTypeOK
<1>2. maxConditionId \in Nat /\ \A n \in 1..maxConditionId : n \in ConditionIds
  BY BoundAssumption DEF Inv, TypeOK, LockTypeOK, ConditionIds, BoundAssumption
<1>3. Chains(Ledger, totals, now)
  BY DEF Inv
<1>4. /\ maxConditionId' = maxConditionId
      /\ conditionOwners' = conditionOwners
      /\ conditionCreationDates' = conditionCreationDates
      /\ lastSalaryDates' = lastSalaryDates
      /\ salaryReceivers' = salaryReceivers
      /\ firstConditionInChain' = firstConditionInChain
      /\ firstToLastConditionInChain' = firstToLastConditionInChain
  BY DEF conditionVars, salaryVars, chainVars
<1>5. Chains(Ledger, totals, now)'
  BY <1>1, <1>2, <1>3, <1>4 DEF Chains, Blank, Rooted, PaidUp, Ledger
<1>6. Asked'
  <2>1. awaiting' = awaiting /\ awaiting \in [ConditionIds -> 0..MaxNested] /\ Asked
    BY DEF salaryVars, Inv, TypeOK, SalaryTypeOK
  <2>2. CASE now' = now
    BY <1>4, <2>1, <2>2 DEF Asked
  <2>3. CASE Answered
    BY <2>1, <2>3 DEF Asked, Answered
  <2>4. QED BY <2>2, <2>3
<1>7. QED BY <1>1, <1>5, <1>6

\* What users were paid for stays within donations that only grow.
LEMMA LastFrame ==
    ASSUME Inv, UNCHANGED <<lastFirstRound, lastSecondRound>>,
           totals' \in [Tokens -> Nat],
           \A t \in Tokens : totals[t] <= totals'[t]
    PROVE  LastWithinDonations'
<1>1. /\ totals \in [Tokens -> Nat]
      /\ lastFirstRound \in [Tokens -> [Users -> Nat]]
      /\ lastSecondRound \in [Tokens -> [Users -> Nat]]
  BY DEF Inv, TypeOK, TokenTypeOK, LockTypeOK
<1>2. SUFFICES ASSUME NEW c \in Collaterals, NEW o \in Oracles, NEW u \in Users
               PROVE  /\ lastFirstRound[PerOracle(c, o)][u] <= totals'[PerOracle(c, o)]
                      /\ lastSecondRound[PerOracle(c, o)][u] <= totals'[PerOracle(c, o)]
  BY DEF LastWithinDonations
<1>3. PerOracle(c, o) \in Tokens
  BY TokenKinds
<1> DEFINE t == PerOracle(c, o)
<1>4. lastFirstRound[t][u] <= totals[t] /\ lastSecondRound[t][u] <= totals[t]
  BY DEF Inv, LastWithinDonations
<1>5. /\ lastFirstRound[t][u] \in Nat
      /\ lastSecondRound[t][u] \in Nat
      /\ totals[t] \in Nat
      /\ totals'[t] \in Nat
      /\ totals[t] <= totals'[t]
  BY <1>1, <1>3
<1> HIDE DEF t
<1>6. lastFirstRound[t][u] <= totals'[t] /\ lastSecondRound[t][u] <= totals'[t]
  BY <1>4, <1>5
<1>7. QED BY <1>6 DEF t

\* A step that leaves the tokens, the payouts and the chains alone.
LEMMA QuietFrame ==
    ASSUME Inv, TypeOK',
           UNCHANGED <<totals, lastFirstRound, lastSecondRound, now, conditionVars, salaryVars>>
    PROVE  Inv'
<1>1. now \in Nat /\ totals \in [Tokens -> Nat]
  BY DEF Inv, TypeOK, LockTypeOK, TokenTypeOK
<1>2. LastWithinDonations'
  BY <1>1, LastFrame
<1>3. now' >= 1 /\ Chains(Ledger, totals, now)' /\ Asked'
  BY <1>1, ChainsFrame
<1>4. QED BY <1>2, <1>3 DEF Inv

\* Installing a well-typed ledger with sound chains.
LEMMA InstallKeeps ==
    ASSUME Inv, NEW r \in LedgerType, Install(r), Chains(r, totals, now),
           Extends(Ledger, r), AccountTypeOK', DAOTypeOK'
    PROVE  Inv'
<1>1. /\ now \in Nat /\ now >= 1 /\ totals \in [Tokens -> Nat]
      /\ maxConditionId' \in ConditionIds
  BY DEF Inv, TypeOK, LockTypeOK, TokenTypeOK, LedgerType, Install
<1>2. TypeOK'
  <2>1. TokenTypeOK'
    BY DEF Inv, TypeOK, TokenTypeOK, Install, LedgerType
  <2>2. LockTypeOK'
    BY DEF Inv, TypeOK, LockTypeOK, Install, LedgerType, oracleVars, payoutVars
  <2>3. BidTypeOK'
    BY DEF Inv, TypeOK, BidTypeOK, Install, bidVars
  <2>4. SalaryTypeOK'
    BY DEF Inv, TypeOK, SalaryTypeOK, Install, LedgerType
  <2>5. QED BY <2>1, <2>2, <2>3, <2>4 DEF TypeOK
<1>3. LastWithinDonations'
  BY <1>1, LastFrame DEF Install, payoutVars
<1>4. now' = now /\ totals' = totals
  BY DEF Install
<1>5. Chains(Ledger, totals, now)'
  <2>1. SameChains(r, Ledger')
    BY DEF Install, SameChains, Ledger
  <2>2. QED BY <1>1, <1>4, <2>1 DEF SameChains, Chains, Blank, Rooted, PaidUp
<1>6. Asked'
  BY <1>4 DEF Inv, Asked, Extends, Install, Ledger
<1>7. QED BY <1>1, <1>2, <1>3, <1>4, <1>5, <1>6 DEF Inv

-----------------------------------------------------------------------------
(* The initial states, and the steps of each kind. *)

\* The contract as deployed.
LEMMA InitKeeps == Init => Inv
<1> SUFFICES ASSUME Init PROVE Inv
  OBVIOUS
<1>1. Zero \in Addresses /\ 0 \in ConditionIds /\ MaxOracle \in Nat /\ MaxCondition \in Nat
  BY BoundAssumption DEF BoundAssumption, Addresses, ConditionIds
<1>2. TokenTypeOK
  BY DEF Init, TokenInit, TokenTypeOK
<1>3. LockTypeOK
  <2>1. collateral \in [Collaterals -> [Addresses -> Nat]]
    BY LockAssumption DEF LockAssumption, Init, LockInit
  <2>2. QED BY <1>1, <2>1 DEF Init, LockInit, LockTypeOK
<1>4. BidTypeOK
  BY DEF Init, BidInit, BidTypeOK
<1>5. SalaryTypeOK
  BY <1>1, NestedAssumption DEF NestedAssumption, Init, SalaryInit, SalaryTypeOK
<1>6. AccountTypeOK /\ DAOTypeOK
  BY <1>1 DEF Init, AccountInit, AccountTypeOK, DAOTypeOK
<1>7. LastWithinDonations
  BY TokenKinds DEF Init, TokenInit, LockInit, LastWithinDonations
<1>8. Chains(Ledger, totals, now)
  <2>1. Blank(Ledger, totals)
    BY TokenKinds DEF Init, SalaryInit, TokenInit, Blank, Ledger
  <2>2. 1..Ledger.maxConditionId = {}
    BY DEF Init, LockInit, Ledger
  <2>3. QED BY <2>1, <2>2 DEF Chains
<1>9. Asked
  BY DEF Init, SalaryInit, Asked
<1>10. QED BY <1>2, <1>3, <1>4, <1>5, <1>6, <1>7, <1>8, <1>9 DEF Inv, TypeOK, Init, LockInit

\* The passing of time.
LEMMA TickKeeps ==
    ASSUME Inv, Answered, Tick, UNCHANGED <<bidVars, salaryVars, accountVars, daoVars>>
    PROVE  Inv'
<1>1. now \in Nat /\ now' \in Nat /\ now <= now'
  BY DEF Inv, TypeOK, LockTypeOK, Tick
<1>2. TypeOK'
  BY <1>1 DEF Inv, TypeOK, TokenTypeOK, LockTypeOK, BidTypeOK, SalaryTypeOK, AccountTypeOK,
              DAOTypeOK, Tick, tokenVars, oracleVars, payoutVars, conditionVars, bidVars,
              salaryVars, chainVars, accountVars, daoVars
<1>3. totals \in [Tokens -> Nat] /\ totals' = totals
  BY DEF Inv, TypeOK, TokenTypeOK, Tick, tokenVars
<1>4. LastWithinDonations'
  BY <1>3, LastFrame DEF Tick, payoutVars
<1>5. now' >= 1 /\ Chains(Ledger, totals, now)' /\ Asked'
  BY <1>1, <1>3, ChainsFrame DEF Tick
<1>6. QED BY <1>2, <1>4, <1>5 DEF Inv

\* Approvals and transfers.
LEMMA TokenCallsKeep ==
    ASSUME Inv, TokenCalls, UNCHANGED <<accountVars, daoVars>>
    PROVE  Inv'
<1>1. /\ Ledger \in LedgerType
      /\ now \in Nat /\ now >= 1
      /\ Chains(Ledger, totals, now)
      /\ AccountTypeOK' /\ DAOTypeOK'
  BY LedgerTyped DEF Inv, TypeOK, LockTypeOK, AccountTypeOK, DAOTypeOK, accountVars, daoVars
<1>2. PICK sender \in Users :
         \/ \E operator \in Users, approved \in BOOLEAN :
               /\ SetApprovalForAll(sender, operator, approved)
               /\ UNCHANGED <<lockVars, bidVars, salaryVars>>
         \/ \E from, to \in Addresses, t \in Tokens, v \in Amounts :
               SafeTransferFrom(sender, from, to, t, v)
         \/ \E from, to \in Addresses, t1, t2 \in Tokens, v1, v2 \in Amounts :
               SafeBatchTransferFrom(sender, from, to, t1, v1, t2, v2)
  BY DEF TokenCalls
<1>3. ASSUME NEW operator \in Users, NEW approved \in BOOLEAN,
             SetApprovalForAll(sender, operator, approved),
             UNCHANGED <<lockVars, bidVars, salaryVars>>
      PROVE  Inv'
  <2>1. operatorApprovals' \subseteq Addresses \X Addresses
    BY <1>3 DEF SetApprovalForAll, Inv, TypeOK, TokenTypeOK, Addresses
  <2>2. TypeOK'
    BY <1>1, <1>3, <2>1 DEF SetApprovalForAll, Inv, TypeOK, TokenTypeOK, LockTypeOK, BidTypeOK,
           SalaryTypeOK, lockVars, oracleVars, payoutVars, conditionVars, bidVars, salaryVars,
           chainVars
  <2>3. QED BY <1>3, <2>2, QuietFrame DEF SetApprovalForAll, lockVars, payoutVars
<1>4. ASSUME NEW from \in Addresses, NEW to \in Addresses, NEW t \in Tokens, NEW v \in Amounts,
             SafeTransferFrom(sender, from, to, t, v)
      PROVE  Inv'
  <2> DEFINE r == Transfer(Ledger, sender, t, from, to, v)
  <2>1. v \in Nat /\ CanTransfer(Ledger, sender, t, from, v) /\ Install(r)
    BY <1>4, BoundAssumption DEF BoundAssumption, SafeTransferFrom, BaseSafeTransferFrom
  <2>2. /\ r \in LedgerType
        /\ SameChains(Ledger, r) \/ \E n \in ConditionIds : Recreated(Ledger, r, n)
    BY <1>1, <2>1, TransferCases
  <2> HIDE DEF r
  <2>3. Chains(r, totals, now)
    BY <1>1, <2>2, SameChainsKept, RecreatedKeepsChains
  <2>4. Extends(Ledger, r)
    BY <1>1, <2>2, TransferExtends
  <2>5. QED BY <1>1, <2>1, <2>2, <2>3, <2>4, InstallKeeps
<1>5. ASSUME NEW from \in Addresses, NEW to \in Addresses, NEW t1 \in Tokens, NEW t2 \in Tokens,
             NEW v1 \in Amounts, NEW v2 \in Amounts,
             SafeBatchTransferFrom(sender, from, to, t1, v1, t2, v2)
      PROVE  Inv'
  <2> DEFINE first == Transfer(Ledger, sender, t1, from, to, v1)
             r == Transfer(first, sender, t2, from, to, v2)
  <2>1. /\ v1 \in Nat /\ v2 \in Nat
        /\ CanTransfer(Ledger, sender, t1, from, v1)
        /\ CanTransfer(first, sender, t2, from, v2)
        /\ Install(r)
    BY <1>5, BoundAssumption DEF BoundAssumption, SafeBatchTransferFrom, BaseSafeBatchTransferFrom
  <2>2. /\ first \in LedgerType
        /\ SameChains(Ledger, first) \/ \E n \in ConditionIds : Recreated(Ledger, first, n)
    BY <1>1, <2>1, TransferCases
  <2> HIDE DEF first
  <2>3. /\ r \in LedgerType
        /\ SameChains(first, r) \/ \E n \in ConditionIds : Recreated(first, r, n)
    BY <1>1, <2>1, <2>2, TransferCases
  <2> HIDE DEF r
  <2>4. Chains(first, totals, now)
    BY <1>1, <2>2, SameChainsKept, RecreatedKeepsChains
  <2>5. Chains(r, totals, now)
    BY <1>1, <2>2, <2>3, <2>4, SameChainsKept, RecreatedKeepsChains
  <2>6. Extends(Ledger, first) /\ Extends(first, r)
    BY <1>1, <2>2, <2>3, TransferExtends
  <2>7. Extends(Ledger, r)
    BY <2>6 DEF Extends
  <2>8. QED BY <1>1, <2>1, <2>3, <2>5, <2>7, InstallKeeps
<1>6. QED BY <1>2, <1>3, <1>4, <1>5

\* Only the first condition of a chain passes for the last one, and is minted.
LEMMA MintedIsFirst ==
    ASSUME Inv, NEW n \in ConditionIds, EnsureLast(Ledger, n), lastSalaryDates[n] # 0
    PROVE  /\ n \in 1..maxConditionId
           /\ firstConditionInChain[n] = n
           /\ firstToLastConditionInChain[n] = n
<1>1. n \in 1..maxConditionId
  BY DEF Inv, Chains, Blank, Ledger
<1> DEFINE f == firstConditionInChain[n]
<1>2. f \in 1..n /\ firstConditionInChain[f] = f /\ firstToLastConditionInChain[n] = n
  BY <1>1 DEF Inv, Chains, Rooted, Ledger
<1>3. f \in 1..maxConditionId
  BY <1>1, <1>2, BoundAssumption DEF BoundAssumption, Inv, TypeOK, LockTypeOK, ConditionIds
<1>4. firstToLastConditionInChain[f] = f
  BY <1>2, <1>3 DEF Inv, Chains, Rooted, Ledger
<1>5. firstToLastConditionInChain[f] = n
  BY DEF EnsureLast, IsLastInChain, Ledger
<1>6. QED BY <1>1, <1>2, <1>4, <1>5

\* What a mint does to dates and totals.
LEMMA MintStep ==
    ASSUME Inv, NEW sender \in Users, NEW n \in ConditionIds, NEW to \in Addresses,
           MintSalary(sender, n, to)
    PROVE  /\ n \in 1..maxConditionId
           /\ firstConditionInChain[n] = n
           /\ now - lastSalaryDates[n] \in Nat
           /\ balances' \in [Tokens -> [Addresses -> Nat]]
           /\ totals' = [totals EXCEPT ![Condition(n)] = @ + (now - lastSalaryDates[n])]
           /\ totals' \in [Tokens -> Nat]
           /\ conditionOwners[n] = sender
           /\ \/ /\ to \in Contracts
                 /\ awaiting[n] < MaxNested
                 /\ awaiting' = [awaiting EXCEPT ![n] = awaiting[n] + 1]
                 /\ lastSalaryDates' = lastSalaryDates
              \/ /\ to \notin Contracts
                 /\ awaiting' = awaiting
                 /\ lastSalaryDates' = [lastSalaryDates EXCEPT ![n] = now]
           /\ UNCHANGED <<operatorApprovals, lockVars, bidVars, chainVars>>
<1> DEFINE v == now - lastSalaryDates[n]
           s == [balances |-> balances, totals |-> totals]
           r == Mint(s, to, Condition(firstToLastConditionInChain[n]), v)
<1>1. EnsureLast(Ledger, n) /\ lastSalaryDates[n] # 0
  BY DEF MintSalary
<1>2. /\ n \in 1..maxConditionId
      /\ firstConditionInChain[n] = n
      /\ firstToLastConditionInChain[n] = n
  BY <1>1, MintedIsFirst
<1>3. v \in Nat
  <2>1. lastSalaryDates[n] \in 1..now
    BY <1>2 DEF Inv, Chains, PaidUp, Ledger
  <2>2. QED BY <2>1 DEF Inv, TypeOK, LockTypeOK
<1>4. s \in AccountsType
  BY DEF Inv, TypeOK, TokenTypeOK, AccountsType
<1>5. /\ balances' = r.balances
      /\ totals' = r.totals
      /\ conditionOwners[n] = sender
      /\ \/ /\ to \in Contracts
            /\ awaiting[n] < MaxNested
            /\ awaiting' = [awaiting EXCEPT ![n] = awaiting[n] + 1]
            /\ lastSalaryDates' = lastSalaryDates
         \/ /\ to \notin Contracts
            /\ awaiting' = awaiting
            /\ lastSalaryDates' = [lastSalaryDates EXCEPT ![n] = now]
      /\ UNCHANGED <<operatorApprovals, lockVars, bidVars, chainVars>>
  BY <1>2 DEF MintSalary
<1>6. Condition(n) \in Tokens
  BY TokenKinds
<1> HIDE DEF v
<1>7. /\ r \in AccountsType
      /\ r.totals = [s.totals EXCEPT ![Condition(n)] = s.totals[Condition(n)] + v]
  <2>1. r = Mint(s, to, Condition(n), v)
    BY <1>2
  <2> HIDE DEF s, r
  <2>2. QED BY <1>3, <1>4, <1>6, <2>1, MintTyped
<1> HIDE DEF r
<1>8. r.totals = [totals EXCEPT ![Condition(n)] = @ + v]
  BY <1>7
<1>9. QED BY <1>2, <1>3, <1>5, <1>7, <1>8 DEF v, AccountsType

\* Salaries.
LEMMA SalaryCallsKeep ==
    ASSUME Inv, LinksBlank, SalaryCalls, UNCHANGED <<accountVars, daoVars>>
    PROVE  Inv'
<1>1. /\ Ledger \in LedgerType
      /\ now \in Nat /\ now >= 1
      /\ Chains(Ledger, totals, now)
      /\ AccountTypeOK' /\ DAOTypeOK'
      /\ totals \in [Tokens -> Nat]
  BY LedgerTyped DEF Inv, TypeOK, LockTypeOK, TokenTypeOK, AccountTypeOK, DAOTypeOK,
                     accountVars, daoVars
<1>2. ASSUME NEW n \in ConditionIds, RecreateCondition(n) PROVE Inv'
  <2> DEFINE r == Recreate(Ledger, n)
  <2>1. CanRecreate(Ledger, n) /\ Install(r)
    BY <1>2 DEF RecreateCondition
  <2>2. r \in LedgerType /\ Recreated(Ledger, r, n)
    BY <1>1, <2>1, RecreateAdds
  <2> HIDE DEF r
  <2>3. Chains(r, totals, now)
    BY <1>1, <2>2, RecreatedKeepsChains
  <2>4. Extends(Ledger, r)
    BY <1>1, <2>2, TransferExtends
  <2>5. QED BY <1>1, <2>1, <2>2, <2>3, <2>4, InstallKeeps
<1>3. ASSUME NEW sender \in Users, NEW n \in ConditionIds,
             MintSalary(sender, n, CurrentAddress(sender))
      PROVE  Inv'
  <2> DEFINE v == now - lastSalaryDates[n]
  <2>1. CurrentAddress(sender) = sender /\ sender \in Addresses
    BY DEF LinksBlank, CurrentAddress, Addresses
  <2>2. /\ n \in 1..maxConditionId
        /\ firstConditionInChain[n] = n
        /\ v \in Nat
        /\ balances' \in [Tokens -> [Addresses -> Nat]]
        /\ totals' = [totals EXCEPT ![Condition(n)] = @ + v]
        /\ totals' \in [Tokens -> Nat]
        /\ conditionOwners[n] = sender
        /\ \/ /\ sender \in Contracts
              /\ awaiting[n] < MaxNested
              /\ awaiting' = [awaiting EXCEPT ![n] = awaiting[n] + 1]
              /\ lastSalaryDates' = lastSalaryDates
           \/ /\ sender \notin Contracts
              /\ awaiting' = awaiting
              /\ lastSalaryDates' = [lastSalaryDates EXCEPT ![n] = now]
        /\ UNCHANGED <<operatorApprovals, lockVars, bidVars, chainVars>>
    BY <1>3, <2>1, MintStep
  <2>3. /\ awaiting \in [ConditionIds -> 0..MaxNested] /\ MaxNested \in Nat
        /\ lastSalaryDates \in [ConditionIds -> Nat]
    BY NestedAssumption DEF NestedAssumption, Inv, TypeOK, SalaryTypeOK
  <2>4. /\ awaiting' \in [ConditionIds -> 0..MaxNested]
        /\ lastSalaryDates' \in [ConditionIds -> Nat]
        /\ \A m \in ConditionIds \ {n} : /\ awaiting'[m] = awaiting[m]
                                         /\ lastSalaryDates'[m] = lastSalaryDates[m]
        /\ lastSalaryDates'[n] \in {now, lastSalaryDates[n]}
        /\ sender \notin Contracts => lastSalaryDates'[n] = now /\ awaiting'[n] = awaiting[n]
    BY <1>1, <2>2, <2>3
  <2>5. TypeOK'
    BY <1>1, <2>2, <2>4 DEF Inv, TypeOK, TokenTypeOK, LockTypeOK, BidTypeOK, SalaryTypeOK,
       lockVars, oracleVars, payoutVars, conditionVars, bidVars, chainVars
  <2>6. /\ Condition(n) \in Tokens
        /\ totals'[Condition(n)] = totals[Condition(n)] + v
        /\ \A t \in Tokens \ {Condition(n)} : totals'[t] = totals[t]
    BY <1>1, <2>2, TokenKinds
  <2>7. \A t \in Tokens : totals[t] <= totals'[t]
    <3> HIDE DEF v
    <3>1. QED BY <1>1, <2>2, <2>6
  <2>8. LastWithinDonations'
    BY <2>2, <2>7, LastFrame DEF lockVars, payoutVars
  <2>9. \A m \in ConditionIds \ {n} : totals'[Condition(m)] = totals[Condition(m)]
    BY <2>6, TokensDistinct, TokenKinds
  <2>10. /\ now' = now
         /\ maxConditionId' = maxConditionId
         /\ conditionOwners' = conditionOwners
         /\ conditionCreationDates' = conditionCreationDates
         /\ salaryReceivers' = salaryReceivers
         /\ firstConditionInChain' = firstConditionInChain
         /\ firstToLastConditionInChain' = firstToLastConditionInChain
    BY <2>2 DEF lockVars, conditionVars, chainVars
  <2>11. Blank(Ledger, totals)'
    BY <1>1, <2>2, <2>4, <2>9, <2>10 DEF Chains, Blank, Ledger
  <2>12. /\ Rooted(Ledger, n)
         /\ salaryReceivers[n] = sender
         /\ conditionCreationDates[n] \in 1..now
         /\ lastSalaryDates[n] \in 1..now
         /\ conditionCreationDates[n] <= lastSalaryDates[n]
         /\ totals[Condition(n)] >= lastSalaryDates[n] - conditionCreationDates[n]
         /\ sender \notin Contracts =>
              totals[Condition(n)] = lastSalaryDates[n] - conditionCreationDates[n]
    BY <1>1, <2>2 DEF Chains, Rooted, PaidUp, Ledger
  <2>13. /\ totals'[Condition(n)] >= now - conditionCreationDates[n]
         /\ totals'[Condition(n)] >= lastSalaryDates'[n] - conditionCreationDates[n]
         /\ conditionCreationDates[n] <= lastSalaryDates'[n]
         /\ lastSalaryDates'[n] \in 1..now
         /\ sender \notin Contracts =>
              totals'[Condition(n)] = lastSalaryDates'[n] - conditionCreationDates[n]
    <3>1. totals[Condition(n)] \in Nat
      BY <1>1, <2>6
    <3>2. QED BY <1>1, <2>4, <2>6, <2>12, <3>1
  <2>14. ASSUME NEW m \in 1..maxConditionId
         PROVE  Rooted(Ledger, m)' /\ PaidUp(Ledger, totals, now, m)'
    <3>1. m \in ConditionIds
      BY BoundAssumption DEF BoundAssumption, Inv, TypeOK, LockTypeOK, ConditionIds
    <3>2. Rooted(Ledger, m) /\ PaidUp(Ledger, totals, now, m)
      BY <1>1 DEF Chains, Ledger
    <3>3. Rooted(Ledger, m)'
      BY <2>10, <3>2 DEF Rooted, Ledger
    <3>4. CASE m # n
      BY <2>4, <2>9, <2>10, <3>1, <3>2, <3>3, <3>4 DEF PaidUp, Ledger
    <3>5. CASE m = n
      BY <2>2, <2>10, <2>12, <2>13, <3>3, <3>5 DEF PaidUp, Ledger
    <3>6. QED BY <3>4, <3>5
  <2>15. Chains(Ledger, totals, now)'
    BY <2>10, <2>11, <2>14 DEF Chains, Ledger
  <2>16. Asked'
    <3>1. ASSUME NEW m \in ConditionIds, awaiting'[m] > 0
          PROVE  /\ m \in 1..maxConditionId
                 /\ firstConditionInChain[m] = m
                 /\ salaryReceivers[m] \in Contracts
                 /\ totals'[Condition(m)] >= now - conditionCreationDates[m]
      <4>1. CASE m # n
        BY <2>4, <2>9, <3>1, <4>1 DEF Inv, Asked
      <4>2. CASE m = n
        BY <2>2, <2>4, <2>12, <2>13, <3>1, <4>2 DEF Inv, Asked
      <4>3. QED BY <4>1, <4>2
    <3>2. QED BY <2>10, <3>1 DEF Asked
  <2>17. QED BY <1>1, <2>5, <2>8, <2>10, <2>15, <2>16 DEF Inv
<1>4. ASSUME NEW n \in ConditionIds, MintReturns(n) PROVE Inv'
  <2>1. /\ awaiting[n] > 0
        /\ awaiting' = [awaiting EXCEPT ![n] = awaiting[n] - 1]
        /\ lastSalaryDates' = [lastSalaryDates EXCEPT ![n] = now]
        /\ UNCHANGED <<tokenVars, lockVars, bidVars, chainVars>>
    BY <1>4 DEF MintReturns
  <2>2. /\ awaiting \in [ConditionIds -> 0..MaxNested] /\ MaxNested \in Nat
        /\ lastSalaryDates \in [ConditionIds -> Nat]
    BY NestedAssumption DEF NestedAssumption, Inv, TypeOK, SalaryTypeOK
  <2>3. /\ awaiting' \in [ConditionIds -> 0..MaxNested]
        /\ lastSalaryDates' \in [ConditionIds -> Nat]
        /\ \A m \in ConditionIds \ {n} : lastSalaryDates'[m] = lastSalaryDates[m]
        /\ \A m \in ConditionIds : awaiting'[m] > 0 => awaiting[m] > 0
        /\ lastSalaryDates'[n] = now
    BY <1>1, <2>1, <2>2
  <2>4. TypeOK'
    BY <1>1, <2>1, <2>3 DEF Inv, TypeOK, TokenTypeOK, LockTypeOK, BidTypeOK, SalaryTypeOK,
       tokenVars, lockVars, oracleVars, payoutVars, conditionVars, bidVars, chainVars
  <2>5. LastWithinDonations'
    BY <1>1, <2>1, LastFrame DEF tokenVars, lockVars, payoutVars
  <2>6. /\ now' = now /\ totals' = totals
        /\ maxConditionId' = maxConditionId
        /\ conditionOwners' = conditionOwners
        /\ conditionCreationDates' = conditionCreationDates
        /\ salaryReceivers' = salaryReceivers
        /\ firstConditionInChain' = firstConditionInChain
        /\ firstToLastConditionInChain' = firstToLastConditionInChain
    BY <2>1 DEF tokenVars, lockVars, conditionVars, chainVars
  <2>7. /\ n \in 1..maxConditionId
        /\ firstConditionInChain[n] = n
        /\ salaryReceivers[n] \in Contracts
        /\ totals[Condition(n)] >= now - conditionCreationDates[n]
    BY <2>1 DEF Inv, Asked
  <2>8. Blank(Ledger, totals)'
    BY <1>1, <2>3, <2>6, <2>7 DEF Chains, Blank, Ledger
  <2>9. ASSUME NEW m \in 1..maxConditionId
        PROVE  Rooted(Ledger, m)' /\ PaidUp(Ledger, totals, now, m)'
    <3>1. m \in ConditionIds
      BY BoundAssumption DEF BoundAssumption, Inv, TypeOK, LockTypeOK, ConditionIds
    <3>2. Rooted(Ledger, m) /\ PaidUp(Ledger, totals, now, m)
      BY <1>1 DEF Chains, Ledger
    <3>3. Rooted(Ledger, m)'
      BY <2>6, <3>2 DEF Rooted, Ledger
    <3>4. CASE m # n
      BY <2>3, <2>6, <3>1, <3>2, <3>3, <3>4 DEF PaidUp, Ledger
    <3>5. CASE m = n
      BY <1>1, <2>3, <2>6, <2>7, <3>2, <3>3, <3>5 DEF PaidUp, Ledger
    <3>6. QED BY <3>4, <3>5
  <2>10. Chains(Ledger, totals, now)'
    BY <2>6, <2>8, <2>9 DEF Chains, Ledger
  <2>11. Asked'
    BY <2>3, <2>6 DEF Inv, Asked
  <2>12. QED BY <1>1, <2>4, <2>5, <2>6, <2>10, <2>11 DEF Inv
<1>5. QED BY <1>2, <1>3, <1>4 DEF SalaryCalls

\* Oracles and their scores.
LEMMA OracleCallsKeep ==
    ASSUME Inv, OracleCalls, UNCHANGED <<salaryVars, accountVars, daoVars>>
    PROVE  Inv'
<1>1. /\ Users \subseteq Addresses /\ Deadlines \subseteq Nat
      /\ Scores \subseteq Nat /\ Scored \subseteq Tokens
      /\ MaxOracle \in Nat
  BY BoundAssumption, LockAssumption, ScoreAssumption
  DEF BoundAssumption, LockAssumption, ScoreAssumption, Addresses
<1>2. SalaryTypeOK' /\ AccountTypeOK' /\ DAOTypeOK'
  BY DEF Inv, TypeOK, SalaryTypeOK, AccountTypeOK, DAOTypeOK, salaryVars, chainVars,
         accountVars, daoVars
<1>3. ASSUME UNCHANGED <<tokenVars, now, payoutVars, conditionVars, collateral, bidVars>>,
             maxOracleId' \in 0..MaxOracle,
             oracleOwners' \in [Oracles -> Addresses],
             gracePeriodEnds' \in [Oracles -> Nat]
      PROVE  Inv'
  <2>1. TypeOK'
    BY <1>2, <1>3 DEF Inv, TypeOK, TokenTypeOK, LockTypeOK, BidTypeOK, tokenVars, payoutVars,
                      conditionVars, bidVars
  <2>2. QED BY <1>3, <2>1, QuietFrame DEF tokenVars, payoutVars
<1>4. ASSUME UNCHANGED <<tokenVars, lockVars>>, BidTypeOK'
      PROVE  Inv'
  <2>1. TypeOK'
    BY <1>2, <1>4 DEF Inv, TypeOK, TokenTypeOK, LockTypeOK, tokenVars, lockVars, oracleVars,
                      payoutVars, conditionVars
  <2>2. QED BY <1>4, <2>1, QuietFrame DEF tokenVars, lockVars, payoutVars
<1>5. ASSUME NEW sender \in Users, CreateOracle(sender), UNCHANGED bidVars PROVE Inv'
  <2>1. maxOracleId' \in 0..MaxOracle
    BY <1>1, <1>5 DEF CreateOracle, Inv, TypeOK, LockTypeOK
  <2>2. oracleOwners' \in [Oracles -> Addresses]
    BY <1>1, <1>5 DEF CreateOracle, Inv, TypeOK, LockTypeOK
  <2>3. gracePeriodEnds' \in [Oracles -> Nat]
    BY <1>5 DEF CreateOracle, Inv, TypeOK, LockTypeOK
  <2>4. QED BY <1>3, <1>5, <2>1, <2>2, <2>3 DEF CreateOracle
<1>6. ASSUME NEW sender \in Users, NEW o \in Oracles, NEW a \in Addresses,
             ChangeOracleOwner(sender, a, o), UNCHANGED bidVars
      PROVE  Inv'
  BY <1>1, <1>3, <1>6 DEF ChangeOracleOwner, Inv, TypeOK, LockTypeOK
<1>7. ASSUME NEW sender \in Users, NEW o \in Oracles, NEW time \in Deadlines,
             UpdateGracePeriodEnds(sender, o, time), UNCHANGED bidVars
      PROVE  Inv'
  BY <1>1, <1>3, <1>7 DEF UpdateGracePeriodEnds, Inv, TypeOK, LockTypeOK
<1>8. ASSUME NEW o \in Oracles, NEW t \in Tokens, NEW m \in Nat,
             NEW market \in [sum : Nat, score : [Tokens -> Nat]],
             CanUpdate(market, t, m)
      PROVE  UpdateNumerator(market, t, m) \in [sum : Nat, score : [Tokens -> Nat]]
  <2>1. market.sum + m - market.score[t] \in Nat
    BY <1>8 DEF CanUpdate
  <2>2. [market.score EXCEPT ![t] = m] \in [Tokens -> Nat]
    OBVIOUS
  <2>3. UpdateNumerator(market, t, m) =
          [market EXCEPT !.sum = market.sum + m - market.score[t],
                         !.score = [market.score EXCEPT ![t] = m]]
    BY DEF UpdateNumerator
  <2>4. QED BY <2>1, <2>2, <2>3
<1>9. \A o \in Oracles : Market(o) \in [sum : Nat, score : [Tokens -> Nat]]
  BY DEF Market, Inv, TypeOK, BidTypeOK
<1>10. ASSUME NEW o \in Oracles, NEW market \in [sum : Nat, score : [Tokens -> Nat]],
              Publish(o, market)
       PROVE  Inv'
  <2>1. BidTypeOK'
    BY <1>10 DEF Publish, Inv, TypeOK, BidTypeOK
  <2>2. QED BY <1>4, <1>10, <2>1 DEF Publish
<1>11. ASSUME NEW sender \in Users, NEW o \in Oracles, NEW t \in Scored, NEW m \in Scores,
              ReportNumerator(sender, o, t, m)
       PROVE  Inv'
  <2>1. m \in Nat /\ t \in Tokens
    BY <1>1
  <2>2. UpdateNumerator(Market(o), t, m) \in [sum : Nat, score : [Tokens -> Nat]]
    BY <1>8, <1>9, <1>11, <2>1 DEF ReportNumerator
  <2>3. QED BY <1>10, <1>11, <2>2 DEF ReportNumerator
<1>12. ASSUME NEW sender \in Users, NEW o \in Oracles, NEW t1 \in Scored, NEW t2 \in Scored,
              NEW m1 \in Scores, NEW m2 \in Scores,
              ReportNumeratorsBatch(sender, o, t1, m1, t2, m2)
       PROVE  Inv'
  <2> DEFINE first == UpdateNumerator(Market(o), t1, m1)
  <2>1. m1 \in Nat /\ t1 \in Tokens /\ m2 \in Nat /\ t2 \in Tokens
    BY <1>1
  <2>2. /\ CanUpdate(Market(o), t1, m1)
        /\ CanUpdate(first, t2, m2)
        /\ Publish(o, UpdateNumerator(first, t2, m2))
    BY <1>12 DEF ReportNumeratorsBatch
  <2>3. first \in [sum : Nat, score : [Tokens -> Nat]]
    BY <1>8, <1>9, <2>1, <2>2
  <2> HIDE DEF first
  <2>4. UpdateNumerator(first, t2, m2) \in [sum : Nat, score : [Tokens -> Nat]]
    BY <1>8, <2>1, <2>2, <2>3
  <2>5. QED BY <1>10, <2>2, <2>4
<1>13. ASSUME NEW sender \in Users, NEW o \in Oracles, FinishOracle(sender, o) PROVE Inv'
  <2>1. BidTypeOK'
    BY <1>13 DEF FinishOracle, Inv, TypeOK, BidTypeOK
  <2>2. QED BY <1>4, <1>13, <2>1 DEF FinishOracle
<1>14. QED BY <1>5, <1>6, <1>7, <1>11, <1>12, <1>13 DEF OracleCalls

\* Rounding down keeps amounts natural.
LEMMA DivNat ==
    ASSUME NEW x \in Nat, NEW y \in Nat, NEW z \in Nat, z # 0
    PROVE  (x * y) \div z \in Nat
<1>1. x * y \in Nat
  OBVIOUS
<1> DEFINE p == x * y
<1>2. p \in Nat
  BY <1>1
<1> HIDE DEF p
<1>3. p \div z \in Nat
  BY <1>2
<1>4. QED BY <1>3 DEF p

\* The collateral contract keeps balances natural.
LEMMA SpendTyped ==
    ASSUME TypeOK, NEW c \in Collaterals, NEW from \in Addresses, NEW to \in Addresses,
           NEW v \in Nat, CanSpend(c, from, v), Spend(c, from, to, v)
    PROVE  collateral' \in [Collaterals -> [Addresses -> Nat]]
<1> DEFINE b1 == [collateral EXCEPT ![c] = [collateral[c] EXCEPT ![from] = collateral[c][from] - v]]
<1>1. collateral \in [Collaterals -> [Addresses -> Nat]]
  BY DEF TypeOK, LockTypeOK
<1>2. collateral[c][from] - v \in Nat
  BY <1>1 DEF CanSpend
<1>3. b1 \in [Collaterals -> [Addresses -> Nat]]
  BY <1>1, <1>2
<1>4. collateral' = [b1 EXCEPT ![c] = [b1[c] EXCEPT ![to] = b1[c][to] + v]]
  BY <1>1 DEF Spend
<1> HIDE DEF b1
<1>5. QED BY <1>3, <1>4

\* A donation keeps the tokens well typed, lowers no total and leaves those of the
\* conditions alone.
LEMMA DonateTotals ==
    ASSUME Inv, NEW c \in Collaterals, NEW o \in Oracles, NEW v \in Nat,
           NEW from \in Addresses, NEW to \in Addresses, Donate(c, o, v, from, to)
    PROVE  /\ balances' \in [Tokens -> [Addresses -> Nat]]
           /\ totals' \in [Tokens -> Nat]
           /\ \A t \in Tokens : totals[t] <= totals'[t]
           /\ \A n \in ConditionIds : totals'[Condition(n)] = totals[Condition(n)]
<1> DEFINE s == [balances |-> balances, totals |-> totals]
           t1 == PerOracle(c, o)
           t2 == Donated(c)
           s1 == Mint(s, to, t1, v)
           s2 == Mint(s1, to, t2, v)
<1>1. /\ balances' = s2.balances /\ totals' = s2.totals
  BY DEF Donate
<1>2. s \in AccountsType /\ totals \in [Tokens -> Nat]
  BY DEF Inv, TypeOK, TokenTypeOK, AccountsType
<1>3. t1 \in Tokens /\ t2 \in Tokens
  BY TokenKinds
<1>4. s.totals = totals
  OBVIOUS
<1> HIDE DEF s, t1, t2
<1>5. s1 \in AccountsType /\ s1.totals = [totals EXCEPT ![t1] = totals[t1] + v]
  <2>1. s1 \in AccountsType
    BY <1>2, <1>3, MintTyped
  <2>2. s1.totals = [s.totals EXCEPT ![t1] = s.totals[t1] + v]
    BY <1>2, <1>3, MintTyped
  <2>3. QED BY <1>4, <2>1, <2>2
<1> HIDE DEF s1
<1>6. s2 \in AccountsType /\ s2.totals = [s1.totals EXCEPT ![t2] = s1.totals[t2] + v]
  <2>1. s1 \in AccountsType
    BY <1>5
  <2>2. s2 \in AccountsType
    BY <1>3, <2>1, MintTyped
  <2>3. s2.totals = [s1.totals EXCEPT ![t2] = s1.totals[t2] + v]
    BY <1>3, <2>1, MintTyped
  <2>4. QED BY <2>2, <2>3
<1> HIDE DEF s2
<1>7. balances' \in [Tokens -> [Addresses -> Nat]] /\ totals' \in [Tokens -> Nat]
  BY <1>1, <1>6 DEF AccountsType
<1>8. s1.totals \in [Tokens -> Nat] /\ \A t \in Tokens : totals[t] <= s1.totals[t]
  BY <1>2, <1>3, <1>5 DEF AccountsType
<1>9. \A t \in Tokens : totals[t] <= totals'[t]
  <2>1. \A t \in Tokens : s1.totals[t] <= totals'[t]
    BY <1>1, <1>3, <1>6, <1>8
  <2>2. QED BY <1>2, <1>7, <1>8, <2>1
<1>10. \A t \in Tokens \ {t1, t2} : totals'[t] = totals[t]
  BY <1>1, <1>2, <1>3, <1>5, <1>6, <1>8
<1>11. \A n \in ConditionIds : totals'[Condition(n)] = totals[Condition(n)]
  BY <1>10, TokenKinds, TokensDistinct DEF t1, t2
<1>12. QED BY <1>7, <1>9, <1>11

\* Donations of a natural amount.
LEMMA DonateKeeps ==
    ASSUME Inv, NEW c \in Collaterals, NEW o \in Oracles, NEW v \in Nat,
           NEW from \in Addresses, NEW to \in Addresses, Donate(c, o, v, from, to),
           UNCHANGED <<bidVars, salaryVars, accountVars, daoVars>>
    PROVE  Inv'
<1>1. /\ CanSpend(c, from, v) /\ Spend(c, from, This, v)
      /\ UNCHANGED <<operatorApprovals, now, oracleVars, payoutVars, conditionVars>>
  BY DEF Donate
<1>2. /\ balances' \in [Tokens -> [Addresses -> Nat]]
      /\ totals' \in [Tokens -> Nat]
      /\ \A t \in Tokens : totals[t] <= totals'[t]
      /\ \A n \in ConditionIds : totals'[Condition(n)] = totals[Condition(n)]
  BY DonateTotals
<1>3. now \in Nat
  BY DEF Inv, TypeOK, LockTypeOK
<1>4. TypeOK'
  <2>1. This \in Addresses /\ TypeOK
    BY DEF Addresses, Inv
  <2>2. collateral' \in [Collaterals -> [Addresses -> Nat]]
    BY <1>1, <2>1, SpendTyped
  <2>3. QED BY <1>1, <1>2, <2>2 DEF Inv, TypeOK, TokenTypeOK, LockTypeOK, BidTypeOK,
        SalaryTypeOK, AccountTypeOK, DAOTypeOK, oracleVars, payoutVars, conditionVars,
        bidVars, salaryVars, chainVars, accountVars, daoVars
<1>5. LastWithinDonations'
  BY <1>1, <1>2, LastFrame DEF payoutVars
<1>6. now' >= 1 /\ Chains(Ledger, totals, now)' /\ Asked'
  BY <1>1, <1>2, <1>3, ChainsFrame
<1>7. QED BY <1>4, <1>5, <1>6 DEF Inv

\* Gathering profit is a donation of the contract to itself.
LEMMA GatherDonates ==
    ASSUME TypeOK, NEW c \in Collaterals, NEW o \in Oracles, GatherDeFiProfit(c, o)
    PROVE  \E v \in Nat : Donate(c, o, v, This, This)
<1> DEFINE counted == balances[Donated(c)][This]
           difference == collateral[c][This] - counted
           share == balances[PerOracle(c, o)][This]
           v == (difference * share) \div counted
<1>1. /\ collateral[c][This] >= counted /\ counted # 0
      /\ Donate(c, o, v, This, This)
  BY DEF GatherDeFiProfit
<1>2. counted \in Nat /\ share \in Nat /\ collateral[c][This] \in Nat
  BY TokenKinds DEF Addresses, TypeOK, TokenTypeOK, LockTypeOK
<1>3. difference \in Nat
  BY <1>1, <1>2
<1> HIDE DEF counted, difference, share
<1>4. v \in Nat
  BY <1>1, <1>2, <1>3, DivNat
<1> HIDE DEF v
<1>5. QED BY <1>1, <1>4

\* What a user is owed is a natural number: the unchecked subtraction of
\* _collateralOwingBase does not wrap.
LEMMA OwingNat ==
    ASSUME Inv, NEW c \in Collaterals, NEW o \in Oracles, NEW t \in Tokens,
           NEW user \in Users, HasRewardShare(o), SupplyOf(t, o) # 0
    PROVE  Owing(c, o, t, user, RewardShare(o, t)) \in Nat
<1>1. FixedOne \in Nat /\ FixedOne # 0
  BY LockAssumption DEF LockAssumption
<1>2. /\ balances[t][user] \in Nat
      /\ SupplyOf(t, o) \in Nat
      /\ payoutNumerators[o][t] \in Nat
      /\ payoutDenominators[o] \in Nat
  BY DEF Inv, TypeOK, TokenTypeOK, LockTypeOK, BidTypeOK, SupplyOf, Addresses
<1>3. NewDividends(c, o, user) \in Nat
  <2> DEFINE counter == PerOracle(c, o)
  <2>1. /\ totals[counter] \in Nat
        /\ lastFirstRound[counter][user] \in Nat
        /\ lastSecondRound[counter][user] \in Nat
    BY TokenKinds DEF Inv, TypeOK, TokenTypeOK, LockTypeOK
  <2>2. /\ lastFirstRound[counter][user] <= totals[counter]
        /\ lastSecondRound[counter][user] <= totals[counter]
    BY DEF Inv, LastWithinDonations
  <2> HIDE DEF counter
  <2>3. /\ totals[counter] - lastFirstRound[counter][user] \in Nat
        /\ totals[counter] - lastSecondRound[counter][user] \in Nat
    BY <2>1, <2>2
  <2>4. QED BY <2>3 DEF NewDividends, counter
<1>4. RewardShare(o, t) \in Nat
  BY <1>1, <1>2, DivNat DEF RewardShare, Divu, HasRewardShare
<1>5. Divu(balances[t][user], SupplyOf(t, o)) \in Nat
  BY <1>1, <1>2, DivNat DEF Divu
<1>6. \A x, y \in Nat : FixedMul(x, y) \in Nat
  BY <1>1, DivNat DEF FixedMul
<1>7. QED BY <1>3, <1>4, <1>5, <1>6 DEF Owing

\* A withdrawal.
LEMMA WithdrawKeeps ==
    ASSUME Inv, NEW sender \in Users, NEW c \in Collaterals, NEW o \in Oracles,
           NEW t \in Tokens, Withdraw(sender, c, o, t),
           UNCHANGED <<salaryVars, accountVars, daoVars>>
    PROVE  Inv'
<1> DEFINE counter == PerOracle(c, o)
           owing == Owing(c, o, t, sender, RewardShare(o, t))
           Paid(last) == IF owing = 0 THEN last
                         ELSE [last EXCEPT ![counter][sender] = totals[counter]]
<1>1. /\ SupplyOf(t, o) # 0 /\ HasRewardShare(o)
      /\ userUsedRedeem' = userUsedRedeem \cup {<<sender, t>>}
      /\ \/ /\ lastFirstRound' = Paid(lastFirstRound)
            /\ UNCHANGED <<lastSecondRound, usersWithdrewInFirstRound>>
         \/ /\ lastSecondRound' = Paid(lastSecondRound)
            /\ usersWithdrewInFirstRound' =
                 [usersWithdrewInFirstRound EXCEPT ![o] = @ + owing]
            /\ UNCHANGED lastFirstRound
      /\ CanSpend(c, This, owing)
      /\ Spend(c, This, sender, owing)
      /\ paid' = [paid EXCEPT ![c][o] = @ + owing]
      /\ UNCHANGED <<tokenVars, now, oracleVars, conditionVars, bidVars>>
  BY DEF Withdraw, WithdrawCollateral, Recorded
<1>2. /\ TypeOK /\ totals \in [Tokens -> Nat] /\ now \in Nat
      /\ lastFirstRound \in [Tokens -> [Users -> Nat]]
      /\ lastSecondRound \in [Tokens -> [Users -> Nat]]
      /\ usersWithdrewInFirstRound \in [Oracles -> Nat]
      /\ paid \in [Collaterals -> [Oracles -> Nat]]
      /\ userUsedRedeem \subseteq Users \X Tokens
  BY DEF Inv, TypeOK, TokenTypeOK, LockTypeOK
<1>3. owing \in Nat
  BY <1>1, OwingNat
<1>4. counter \in Tokens /\ totals[counter] \in Nat
  BY <1>2, TokenKinds
<1> HIDE DEF owing, counter
<1>5. /\ Paid(lastFirstRound) \in [Tokens -> [Users -> Nat]]
      /\ Paid(lastSecondRound) \in [Tokens -> [Users -> Nat]]
  BY <1>2, <1>4
<1>6. collateral' \in [Collaterals -> [Addresses -> Nat]]
  BY <1>1, <1>2, <1>3, SpendTyped DEF Addresses
<1>7. paid' \in [Collaterals -> [Oracles -> Nat]]
  <2>1. paid[c][o] + owing \in Nat
    BY <1>2, <1>3
  <2>2. paid' = [paid EXCEPT ![c] = [paid[c] EXCEPT ![o] = paid[c][o] + owing]]
    BY <1>1
  <2>3. QED BY <1>2, <2>1, <2>2
<1>8. /\ lastFirstRound' \in [Tokens -> [Users -> Nat]]
      /\ lastSecondRound' \in [Tokens -> [Users -> Nat]]
      /\ usersWithdrewInFirstRound' \in [Oracles -> Nat]
  <2> HIDE DEF Paid
  <2>1. usersWithdrewInFirstRound[o] + owing \in Nat
    BY <1>2, <1>3
  <2>2. CASE /\ lastFirstRound' = Paid(lastFirstRound)
             /\ UNCHANGED <<lastSecondRound, usersWithdrewInFirstRound>>
    BY <1>2, <1>5, <2>2
  <2>3. CASE /\ lastSecondRound' = Paid(lastSecondRound)
             /\ usersWithdrewInFirstRound' =
                  [usersWithdrewInFirstRound EXCEPT ![o] = @ + owing]
             /\ UNCHANGED lastFirstRound
    BY <1>2, <1>5, <2>1, <2>3
  <2>4. QED BY <1>1, <2>2, <2>3
<1>9. TypeOK'
  <2>1. userUsedRedeem' \subseteq Users \X Tokens
    BY <1>1, <1>2
  <2>2. LockTypeOK'
    BY <1>1, <1>6, <1>7, <1>8, <2>1 DEF Inv, TypeOK, LockTypeOK, oracleVars, conditionVars
  <2>3. QED BY <1>1, <2>2 DEF Inv, TypeOK, TokenTypeOK, BidTypeOK, SalaryTypeOK,
        AccountTypeOK, DAOTypeOK, tokenVars, bidVars, salaryVars, chainVars, accountVars, daoVars
<1>10. LastWithinDonations'
  <2>1. SUFFICES ASSUME NEW d \in Collaterals, NEW p \in Oracles, NEW u \in Users
                 PROVE  /\ lastFirstRound'[PerOracle(d, p)][u] <= totals'[PerOracle(d, p)]
                        /\ lastSecondRound'[PerOracle(d, p)][u] <= totals'[PerOracle(d, p)]
    BY DEF LastWithinDonations
  <2> DEFINE k == PerOracle(d, p)
  <2>2. /\ k \in Tokens /\ totals' = totals /\ totals[k] \in Nat
        /\ lastFirstRound[k][u] <= totals[k]
        /\ lastSecondRound[k][u] <= totals[k]
    BY <1>1, <1>2, TokenKinds DEF Inv, LastWithinDonations, tokenVars
  <2> HIDE DEF k
  <2>3. /\ Paid(lastFirstRound)[k][u] <= totals[k]
        /\ Paid(lastSecondRound)[k][u] <= totals[k]
    <3>1. CASE k = counter /\ u = sender
      BY <1>2, <1>4, <2>2, <3>1
    <3>2. CASE ~(k = counter /\ u = sender)
      BY <1>2, <1>4, <2>2, <3>2
    <3>3. QED BY <3>1, <3>2
  <2> HIDE DEF Paid
  <2>4. QED BY <1>1, <2>2, <2>3 DEF k
<1>11. now' >= 1 /\ Chains(Ledger, totals, now)' /\ Asked'
  BY <1>1, <1>2, ChainsFrame DEF tokenVars
<1>12. QED BY <1>9, <1>10, <1>11 DEF Inv

\* Donations, profits and withdrawals.
LEMMA CollateralCallsKeep ==
    ASSUME Inv, CollateralCalls, UNCHANGED <<salaryVars, accountVars, daoVars>>
    PROVE  Inv'
<1>1. /\ TypeOK /\ This \in Addresses /\ Users \cup {This} \subseteq Addresses
      /\ Amounts \subseteq Nat
  BY BoundAssumption DEF BoundAssumption, Addresses, Inv
<1>2. PICK c \in Collaterals :
         \/ /\ \/ \E from \in Users, to \in Users \cup {This}, v \in Amounts :
                     CollateralTransfer(c, from, to, v)
               \/ \E o \in Oracles, v \in Amounts, from \in Users \cup {This}, to \in Addresses :
                     Donate(c, o, v, from, to)
               \/ \E o \in Oracles : GatherDeFiProfit(c, o)
            /\ UNCHANGED bidVars
         \/ \E sender \in Users, o \in Oracles, t \in Tokens : Withdraw(sender, c, o, t)
  BY DEF CollateralCalls
<1>3. ASSUME NEW from \in Addresses, NEW to \in Addresses, NEW v \in Nat,
             CollateralTransfer(c, from, to, v), UNCHANGED bidVars
      PROVE  Inv'
  <2>1. collateral' \in [Collaterals -> [Addresses -> Nat]]
    BY <1>1, <1>3, SpendTyped DEF CollateralTransfer
  <2>2. TypeOK'
    BY <1>1, <1>3, <2>1 DEF CollateralTransfer, TypeOK, TokenTypeOK, LockTypeOK, BidTypeOK,
       SalaryTypeOK, AccountTypeOK, DAOTypeOK, tokenVars, oracleVars, payoutVars, conditionVars,
       bidVars, salaryVars, chainVars, accountVars, daoVars
  <2>3. QED BY <1>3, <2>2, QuietFrame DEF CollateralTransfer, tokenVars, payoutVars
<1>4. ASSUME NEW o \in Oracles, GatherDeFiProfit(c, o), UNCHANGED bidVars
      PROVE  Inv'
  BY <1>1, <1>4, GatherDonates, DonateKeeps
<1>5. CASE \E from \in Users, to \in Users \cup {This}, v \in Amounts :
              CollateralTransfer(c, from, to, v) /\ UNCHANGED bidVars
  BY <1>1, <1>3, <1>5
<1>6. CASE \E o \in Oracles, v \in Amounts, from \in Users \cup {This}, to \in Addresses :
              Donate(c, o, v, from, to) /\ UNCHANGED bidVars
  <2>1. PICK o \in Oracles, v \in Amounts, from \in Users \cup {This}, to \in Addresses :
              Donate(c, o, v, from, to) /\ UNCHANGED bidVars
    BY <1>6
  <2>2. v \in Nat /\ from \in Addresses
    BY <1>1
  <2>3. QED BY <2>1, <2>2, DonateKeeps
<1>7. ASSUME NEW sender \in Users, NEW o \in Oracles, NEW t \in Tokens, Withdraw(sender, c, o, t)
      PROVE  Inv'
  BY <1>7, WithdrawKeeps
<1>8. QED BY <1>2, <1>4, <1>5, <1>6, <1>7

\* Restoring accounts.
LEMMA AccountCallsKeep ==
    ASSUME Inv, AccountCalls, UNCHANGED daoVars
    PROVE  Inv'
<1>1. /\ TypeOK /\ Zero \in Addresses
      /\ \A a \in Addresses : OriginalAddress(a) \in Addresses
  BY DEF Inv, TypeOK, AccountTypeOK, OriginalAddress, Addresses
<1>2. PICK sender \in Users, old \in Addresses, new \in Addresses, allowed \in BOOLEAN :
         \/ PermitRestoreAccount(sender, old, new, allowed)
         \/ DispermitRestoreAccount(old, new, allowed)
         \/ \E t \in Tokens : RestoreFunds(sender, old, new, t, allowed)
         \/ \E t1, t2 \in Tokens : RestoreFundsBatch(sender, old, new, t1, t2, allowed)
  BY DEF AccountCalls
<1>3. DAOTypeOK'
  BY <1>1 DEF TypeOK, DAOTypeOK, daoVars
<1>4. ASSUME UNCHANGED baseVars, AccountTypeOK' PROVE Inv'
  <2>1. TypeOK'
    BY <1>1, <1>3, <1>4 DEF TypeOK, TokenTypeOK, LockTypeOK, BidTypeOK, SalaryTypeOK,
       baseVars, tokenVars, lockVars, oracleVars, payoutVars, conditionVars, bidVars,
       salaryVars, chainVars
  <2>2. QED BY <1>4, <2>1, QuietFrame DEF baseVars, tokenVars, lockVars, payoutVars
<1>5. CASE PermitRestoreAccount(sender, old, new, allowed)
  <2>1. AccountTypeOK'
    BY <1>1, <1>5 DEF PermitRestoreAccount, TypeOK, AccountTypeOK, accountVars
  <2>2. QED BY <1>4, <1>5, <2>1 DEF PermitRestoreAccount
<1>6. CASE DispermitRestoreAccount(old, new, allowed)
  <2>1. AccountTypeOK'
    BY <1>1, <1>6 DEF DispermitRestoreAccount, TypeOK, AccountTypeOK, accountVars
  <2>2. QED BY <1>4, <1>6, <2>1 DEF DispermitRestoreAccount
<1>7. ASSUME NEW b \in [Tokens -> [Addresses -> Nat]], NEW t \in Tokens
      PROVE  RestoreToken(b, old, new, t) \in [Tokens -> [Addresses -> Nat]]
  <2> DEFINE moved == [b EXCEPT ![t] = [b[t] EXCEPT ![new] = b[t][old]]]
  <2>1. moved \in [Tokens -> [Addresses -> Nat]]
    OBVIOUS
  <2>2. RestoreToken(b, old, new, t) = [moved EXCEPT ![t] = [moved[t] EXCEPT ![old] = 0]]
    BY DEF RestoreToken
  <2> HIDE DEF moved
  <2>3. QED BY <2>1, <2>2
<1>8. ASSUME balances' \in [Tokens -> [Addresses -> Nat]],
             UNCHANGED <<totals, operatorApprovals, lockVars, bidVars, salaryVars, accountVars>>
      PROVE  Inv'
  <2>1. TypeOK'
    BY <1>1, <1>3, <1>8 DEF TypeOK, TokenTypeOK, LockTypeOK, BidTypeOK, SalaryTypeOK,
       AccountTypeOK, lockVars, oracleVars, payoutVars, conditionVars, bidVars, salaryVars,
       chainVars, accountVars
  <2>2. QED BY <1>8, <2>1, QuietFrame DEF lockVars, payoutVars
<1>9. balances \in [Tokens -> [Addresses -> Nat]]
  BY <1>1 DEF TypeOK, TokenTypeOK
<1>10. ASSUME NEW t \in Tokens, RestoreFunds(sender, old, new, t, allowed) PROVE Inv'
  BY <1>7, <1>8, <1>9, <1>10 DEF RestoreFunds
<1>11. ASSUME NEW t1 \in Tokens, NEW t2 \in Tokens,
              RestoreFundsBatch(sender, old, new, t1, t2, allowed)
       PROVE  Inv'
  <2>1. RestoreToken(balances, old, new, t1) \in [Tokens -> [Addresses -> Nat]]
    BY <1>7, <1>9
  <2>2. RestoreToken(RestoreToken(balances, old, new, t1), old, new, t2)
           \in [Tokens -> [Addresses -> Nat]]
    BY <1>7, <2>1
  <2>3. QED BY <1>8, <1>11, <2>2 DEF RestoreFundsBatch
<1>12. QED BY <1>2, <1>5, <1>6, <1>10, <1>11

\* Registration and DAO control.
LEMMA DAOCallsKeep ==
    ASSUME Inv, DAOCalls
    PROVE  Inv'
<1>1. /\ TypeOK /\ Customers \subseteq Addresses /\ Users \subseteq Addresses
      /\ \A a \in Addresses : OriginalAddress(a) \in Addresses
  BY DAOAssumption DEF DAOAssumption, Inv, TypeOK, AccountTypeOK, OriginalAddress, Addresses
<1>2. ASSUME UNCHANGED <<baseVars, accountVars>>, DAOTypeOK' PROVE Inv'
  <2>1. TypeOK'
    BY <1>1, <1>2 DEF TypeOK, TokenTypeOK, LockTypeOK, BidTypeOK, SalaryTypeOK, AccountTypeOK,
       baseVars, tokenVars, lockVars, oracleVars, payoutVars, conditionVars, bidVars,
       salaryVars, chainVars, accountVars
  <2>2. QED BY <1>2, <2>1, QuietFrame DEF baseVars, tokenVars, lockVars, payoutVars
<1>3. ASSUME NEW customer \in Customers, NEW underControl \in ControlChoices,
             RegisterCustomer(customer, underControl)
      PROVE  Inv'
  <2> DEFINE who == OriginalAddress(customer)
             new == maxConditionId + 1
             N == NewCondition(Ledger, who)
             r == [N EXCEPT !.lastSalaryDates[new] = now]
  <2>1. /\ CanCreateCondition(Ledger) /\ Install(r)
        /\ DAOTypeOK' /\ AccountTypeOK'
    BY <1>1, <1>3 DEF RegisterCustomer, RegisterSalary, TypeOK, DAOTypeOK, AccountTypeOK, accountVars
  <2>2. /\ Ledger \in LedgerType /\ now \in Nat /\ now >= 1 /\ who \in Addresses
        /\ Chains(Ledger, totals, now) /\ Ledger.maxConditionId = maxConditionId
    BY <1>1, LedgerTyped DEF Inv, TypeOK, LockTypeOK, Ledger
  <2>3. new \in ConditionIds
    BY <2>1, <2>2, RoomForCondition
  <2> HIDE DEF who
  <2>4. /\ N \in LedgerType /\ N.lastSalaryDates = Ledger.lastSalaryDates
        /\ OneMore(Ledger, N, who, new, Ledger.lastSalaryDates[new])
    BY <2>1, <2>2, NewConditionAdds
  <2> HIDE DEF N
  <2>5. r = [N EXCEPT !.lastSalaryDates = [N.lastSalaryDates EXCEPT ![new] = now]]
    BY <2>4 DEF LedgerType
  <2>6. [N.lastSalaryDates EXCEPT ![new] = now] \in [ConditionIds -> Nat]
    BY <2>2, <2>3, <2>4 DEF LedgerType
  <2> HIDE DEF r
  <2>7. r \in LedgerType
    BY <2>4, <2>5, <2>6 DEF LedgerType
  <2>8. OneMore(Ledger, r, who, new, now)
    BY <2>4, <2>5 DEF OneMore, LedgerType
  <2>9. Chains(r, totals, now)
    BY <2>2, <2>3, <2>7, <2>8, OneMoreKeepsChains
  <2>10. Extends(Ledger, r)
    BY <2>2, <2>8, OneMoreExtends
  <2>11. QED BY <2>1, <2>7, <2>9, <2>10, InstallKeeps
<1>4. ASSUME NEW sender \in Users, NEW underControl \in ControlChoices,
             SetDAOControl(sender, underControl)
      PROVE  Inv'
  <2>1. DAOTypeOK'
    BY <1>1, <1>4 DEF SetDAOControl, TypeOK, DAOTypeOK
  <2>2. QED BY <1>2, <1>4, <2>1 DEF SetDAOControl
<1>5. ASSUME NEW dao \in DAOs, SetDAO(dao) PROVE Inv'
  <2>1. DAOTypeOK'
    BY <1>1, <1>5 DEF SetDAO, TypeOK, DAOTypeOK
  <2>2. QED BY <1>2, <1>5, <2>1 DEF SetDAO
<1>6. QED BY <1>3, <1>4, <1>5 DEF DAOCalls

-----------------------------------------------------------------------------
(* Invariants. *)

\* Every step of the contract keeps the invariant.
LEMMA NextKeeps == Inv /\ LinksBlank /\ [Next]_vars => Inv'
<1> SUFFICES ASSUME Inv, LinksBlank, [Next]_vars PROVE Inv'
  OBVIOUS
<1>1. CASE Answered /\ Tick /\ UNCHANGED <<bidVars, salaryVars, accountVars, daoVars>>
  BY <1>1, TickKeeps
<1>2. CASE TokenCalls /\ UNCHANGED <<accountVars, daoVars>>
  BY <1>2, TokenCallsKeep
<1>3. CASE SalaryCalls /\ UNCHANGED <<accountVars, daoVars>>
  BY <1>3, SalaryCallsKeep
<1>4. CASE OracleCalls /\ UNCHANGED <<salaryVars, accountVars, daoVars>>
  BY <1>4, OracleCallsKeep
<1>5. CASE CollateralCalls /\ UNCHANGED <<salaryVars, accountVars, daoVars>>
  BY <1>5, CollateralCallsKeep
<1>6. CASE AccountCalls /\ UNCHANGED daoVars
  BY <1>6, AccountCallsKeep
<1>7. CASE DAOCalls
  BY <1>7, DAOCallsKeep
<1>8. CASE UNCHANGED vars
  <2>1. TypeOK'
    BY <1>8 DEF Inv, TypeOK, TokenTypeOK, LockTypeOK, BidTypeOK, SalaryTypeOK, AccountTypeOK,
       DAOTypeOK, vars, baseVars, tokenVars, lockVars, oracleVars, payoutVars, conditionVars,
       bidVars, salaryVars, chainVars, accountVars, daoVars
  <2>2. QED BY <1>8, <2>1, QuietFrame DEF vars, baseVars, tokenVars, lockVars, payoutVars
<1>9. QED BY <1>1, <1>2, <1>3, <1>4, <1>5, <1>6, <1>7, <1>8 DEF Next

\* Every reachable state of the contract satisfies the inductive invariant.
THEOREM Invariance == Spec => []Inv
BY InitKeeps, NextKeeps, AccountsNeverLinked, PTL DEF Spec

\* Every variable keeps its type: no call subtracts below zero.
THEOREM TypeCorrect == Spec => []TypeOK
<1>1. Inv => TypeOK
  BY DEF Inv
<1>2. QED BY <1>1, Invariance, PTL

\* A salary is minted for every second since its registration, however its chain
\* was recreated and transferred, and once when its receiver has no code, which
\* could be paid again while a payment is under way (mintSalary).
THEOREM PaidOncePerSecond == Spec => []SalaryOncePerSecond
<1>1. ASSUME Inv, NEW n \in Created
      PROVE  IF firstConditionInChain[n] = n
               THEN /\ totals[Condition(n)] >= PaidUntil(n) - conditionCreationDates[n]
                    /\ salaryReceivers[n] \notin Contracts =>
                          totals[Condition(n)] = PaidUntil(n) - conditionCreationDates[n]
               ELSE totals[Condition(n)] = 0
  <2>1. n \in ConditionIds
    BY <1>1, BoundAssumption DEF BoundAssumption, Inv, TypeOK, LockTypeOK, Created, ConditionIds
  <2>2. PaidUp(Ledger, totals, now, n)
    BY <1>1 DEF Inv, Chains, Created, Ledger
  <2>3. CASE awaiting[n] > 0
    BY <1>1, <2>1, <2>3 DEF Inv, Asked, PaidUntil
  <2>4. CASE ~(awaiting[n] > 0)
    BY <2>2, <2>4 DEF PaidUp, PaidUntil, Ledger
  <2>5. QED BY <2>3, <2>4
<1>2. Inv => SalaryOncePerSecond
  BY <1>1 DEF SalaryOncePerSecond, IsFirstInChain, Ledger
<1>3. QED BY <1>2, Invariance, PTL

\* The conditions of a chain belong to one person, and the first one, to which
\* each of them leads, is the oldest (_recreateCondition).
THEOREM ChainsBelongTogether == Spec => []ChainsAgree
<1>1. Inv => ChainsAgree
  BY DEF Inv, Chains, Rooted, ChainsAgree, Created, IsFirstInChain, Ledger
<1>2. QED BY <1>1, Invariance, PTL

\* What a user was paid for is within what was donated, in both rounds and
\* however the grace period is moved (_collateralOwingBase does not wrap).
THEOREM DividendsNeverWrap == Spec => []LastWithinDonations
<1>1. Inv => LastWithinDonations
  BY DEF Inv
<1>2. QED BY <1>1, Invariance, PTL

-----------------------------------------------------------------------------
(* The finish of an oracle is final. *)

\* No call changes the scores of a finished oracle, or reopens it.
LEMMA StepFreezes ==
    ASSUME Inv, Next, NEW o \in Oracles, oracleFinished[o]
    PROVE  /\ oracleFinished'[o]
           /\ payoutNumerators'[o] = payoutNumerators[o]
           /\ payoutDenominators'[o] = payoutDenominators[o]
<1>1. /\ oracleFinished \in [Oracles -> BOOLEAN]
      /\ payoutNumerators \in [Oracles -> [Tokens -> Nat]]
      /\ payoutDenominators \in [Oracles -> Nat]
  BY DEF Inv, TypeOK, BidTypeOK
<1>2. CASE UNCHANGED bidVars
  BY <1>2 DEF bidVars
<1>3. ASSUME NEW p \in Oracles, NEW m, Publish(p, m), ~oracleFinished[p]
      PROVE  /\ oracleFinished'[o]
             /\ payoutNumerators'[o] = payoutNumerators[o]
             /\ payoutDenominators'[o] = payoutDenominators[o]
  BY <1>1, <1>3 DEF Publish
<1>4. CASE OracleCalls
  <2>1. PICK sender \in Users :
           \/ UNCHANGED bidVars
           \/ \E p \in Oracles, t \in Scored, m \in Scores : ReportNumerator(sender, p, t, m)
           \/ \E p \in Oracles, t1, t2 \in Scored, m1, m2 \in Scores :
                 ReportNumeratorsBatch(sender, p, t1, m1, t2, m2)
           \/ \E p \in Oracles : FinishOracle(sender, p)
    BY <1>4 DEF OracleCalls
  <2>2. ASSUME NEW p \in Oracles, NEW t, NEW m, ReportNumerator(sender, p, t, m)
        PROVE  /\ oracleFinished'[o]
               /\ payoutNumerators'[o] = payoutNumerators[o]
               /\ payoutDenominators'[o] = payoutDenominators[o]
    BY <1>3, <2>2 DEF ReportNumerator
  <2>3. ASSUME NEW p \in Oracles, NEW t1, NEW t2, NEW m1, NEW m2,
               ReportNumeratorsBatch(sender, p, t1, m1, t2, m2)
        PROVE  /\ oracleFinished'[o]
               /\ payoutNumerators'[o] = payoutNumerators[o]
               /\ payoutDenominators'[o] = payoutDenominators[o]
    BY <1>3, <2>3 DEF ReportNumeratorsBatch
  <2>4. ASSUME NEW p \in Oracles, FinishOracle(sender, p)
        PROVE  /\ oracleFinished'[o]
               /\ payoutNumerators'[o] = payoutNumerators[o]
               /\ payoutDenominators'[o] = payoutDenominators[o]
    BY <1>1, <2>4 DEF FinishOracle
  <2>5. QED BY <1>2, <2>1, <2>2, <2>3, <2>4
<1>5. CASE Answered /\ Tick /\ UNCHANGED <<bidVars, salaryVars, accountVars, daoVars>>
  BY <1>2, <1>5
<1>6. CASE TokenCalls
  <2>1. UNCHANGED bidVars
    BY <1>6 DEF TokenCalls, SafeTransferFrom, BaseSafeTransferFrom, SafeBatchTransferFrom,
       BaseSafeBatchTransferFrom, Install
  <2>2. QED BY <1>2, <2>1
<1>7. CASE SalaryCalls
  <2>1. UNCHANGED bidVars
    BY <1>7 DEF SalaryCalls, MintSalary, MintReturns, RecreateCondition, Install
  <2>2. QED BY <1>2, <2>1
<1>8. CASE CollateralCalls
  <2>1. UNCHANGED bidVars
    BY <1>8 DEF CollateralCalls, Withdraw
  <2>2. QED BY <1>2, <2>1
<1>9. CASE AccountCalls
  <2>1. UNCHANGED bidVars
    BY <1>9 DEF AccountCalls, PermitRestoreAccount, DispermitRestoreAccount, RestoreFunds,
       RestoreFundsBatch, baseVars
  <2>2. QED BY <1>2, <2>1
<1>10. CASE DAOCalls
  <2>1. UNCHANGED bidVars
    BY <1>10 DEF DAOCalls, RegisterCustomer, RegisterSalary, Install, SetDAOControl, SetDAO, baseVars
  <2>2. QED BY <1>2, <2>1
<1>11. QED BY <1>4, <1>5, <1>6, <1>7, <1>8, <1>9, <1>10 DEF Next

\* "The result can't change if the oracle has finished" (finishOracle).
THEOREM FinishedSharesFrozen == Spec => SharesFrozen
<1>1. Inv /\ [Next]_vars =>
        [\A o \in Oracles : oracleFinished[o] =>
            /\ oracleFinished'[o]
            /\ payoutNumerators'[o] = payoutNumerators[o]
            /\ payoutDenominators'[o] = payoutDenominators[o]]_vars
  BY StepFreezes
<1>2. QED BY <1>1, Invariance, PTL DEF Spec, SharesFrozen

-----------------------------------------------------------------------------
(* The contract implements SalaryStream. *)

\* The streams that the conditions of a ledger are, and the streams and the
\* payments of a state, as the refinement reads them.
StartOf(s) ==
    [n \in ConditionIds |->
        IF s.firstConditionInChain[n] = n THEN s.conditionCreationDates[n] ELSE 0]

UntilOf(s) ==
    [n \in ConditionIds |->
        IF s.firstConditionInChain[n] = n
          THEN IF awaiting[n] > 0 THEN now ELSE s.lastSalaryDates[n]
          ELSE 0]

CallersOf(s) ==
    {n \in ConditionIds : /\ s.firstConditionInChain[n] = n
                          /\ s.salaryReceivers[n] \in Contracts}

SameStreams(s, r) ==
    StartOf(r) = StartOf(s) /\ UntilOf(r) = UntilOf(s) /\ CallersOf(r) = CallersOf(s)

StreamStart == StartOf(Ledger)

StreamUntil == UntilOf(Ledger)

StreamCallers == CallersOf(Ledger)

StreamMinted == [n \in ConditionIds |-> totals[Condition(n)]]

\* A transfer or a recreation begins no stream.
LEMMA StreamsKept ==
    ASSUME Inv, NEW s \in LedgerType, NEW r, Blank(s, totals),
           \/ SameChains(s, r)
           \/ \E n \in ConditionIds : Recreated(s, r, n)
    PROVE  SameStreams(s, r)
<1>1. CASE SameChains(s, r)
  BY <1>1 DEF SameChains, SameStreams, StartOf, UntilOf, CallersOf
<1>2. ASSUME NEW n \in ConditionIds, Recreated(s, r, n)
      PROVE  SameStreams(s, r)
  <2> DEFINE new == s.maxConditionId + 1
  <2>1. n \in 1..s.maxConditionId
    BY <1>2, FirstWasCreated DEF Recreated
  <2>2. new \in ConditionIds /\ s.maxConditionId \in Nat
    BY <1>2, BoundAssumption DEF BoundAssumption, Recreated, OneMore, LedgerType, ConditionIds
  <2>3. /\ r.firstConditionInChain = [s.firstConditionInChain EXCEPT ![new] = n]
        /\ r.conditionCreationDates = [s.conditionCreationDates EXCEPT ![new] = now]
        /\ r.lastSalaryDates = [s.lastSalaryDates EXCEPT ![new] = s.lastSalaryDates[n]]
        /\ r.salaryReceivers = [s.salaryReceivers EXCEPT ![new] = s.salaryReceivers[n]]
    BY <1>2 DEF Recreated, OneMore
  <2>4. s.firstConditionInChain[new] = 0
    BY <2>2 DEF Blank
  <2>5. new # n /\ new # 0
    BY <2>1, <2>2
  <2>6. /\ s.firstConditionInChain \in [ConditionIds -> ConditionIds]
        /\ s.conditionCreationDates \in [ConditionIds -> Nat]
        /\ s.lastSalaryDates \in [ConditionIds -> Nat]
        /\ s.salaryReceivers \in [ConditionIds -> Addresses]
    BY DEF LedgerType
  <2> HIDE DEF new
  <2>7. ASSUME NEW m \in ConditionIds
        PROVE  \/ r.firstConditionInChain[m] # m /\ s.firstConditionInChain[m] # m
               \/ /\ r.firstConditionInChain[m] = m /\ s.firstConditionInChain[m] = m
                  /\ r.conditionCreationDates[m] = s.conditionCreationDates[m]
                  /\ r.lastSalaryDates[m] = s.lastSalaryDates[m]
                  /\ r.salaryReceivers[m] = s.salaryReceivers[m]
    BY <2>2, <2>3, <2>4, <2>5, <2>6
  <2>8. StartOf(r) = StartOf(s) /\ UntilOf(r) = UntilOf(s)
    BY <2>7 DEF StartOf, UntilOf
  <2>9. CallersOf(r) = CallersOf(s)
    BY <2>7 DEF CallersOf
  <2>10. QED BY <2>8, <2>9 DEF SameStreams
<1>3. QED BY <1>1, <1>2

\* Installing a ledger with the same streams changes none.
LEMMA InstallStutters ==
    ASSUME NEW r, Install(r), SameStreams(Ledger, r)
    PROVE  UNCHANGED <<now, StreamStart, StreamUntil, StreamMinted, StreamCallers>>
<1>1. now' = now /\ totals' = totals /\ awaiting' = awaiting
  BY DEF Install
<1>2. StreamMinted' = StreamMinted
  BY <1>1 DEF StreamMinted
<1>3. /\ StreamStart' = StartOf(r)
      /\ StreamUntil' = UntilOf(r)
      /\ StreamCallers' = CallersOf(r)
  BY <1>1 DEF Install, StreamStart, StartOf, StreamUntil, UntilOf, StreamCallers, CallersOf, Ledger
<1>4. QED BY <1>1, <1>2, <1>3 DEF SameStreams, StreamStart, StreamUntil, StreamCallers

\* A registration begins a stream.
LEMMA RegisterBegins ==
    ASSUME Inv, NEW customer \in Addresses, RegisterSalary(customer)
    PROVE  \E n \in ConditionIds :
              /\ StreamStart[n] = 0
              /\ StreamStart' = [StreamStart EXCEPT ![n] = now]
              /\ StreamUntil' = [StreamUntil EXCEPT ![n] = now]
              /\ StreamCallers' \in {StreamCallers, StreamCallers \cup {n}}
              /\ UNCHANGED <<now, StreamMinted>>
<1> DEFINE new == maxConditionId + 1
           N == NewCondition(Ledger, customer)
           r == [N EXCEPT !.lastSalaryDates[new] = now]
<1>1. CanCreateCondition(Ledger) /\ Install(r)
  BY DEF RegisterSalary
<1>2. /\ Ledger \in LedgerType /\ now \in Nat /\ Ledger.maxConditionId = maxConditionId
      /\ maxConditionId \in Nat
  BY LedgerTyped, BoundAssumption DEF BoundAssumption, Inv, TypeOK, LockTypeOK, Ledger, ConditionIds
<1>3. new \in ConditionIds /\ new # 0
  BY <1>1, <1>2, RoomForCondition
<1>4. /\ N \in LedgerType /\ OneMore(Ledger, N, customer, new, Ledger.lastSalaryDates[new])
      /\ N.lastSalaryDates = lastSalaryDates
  BY <1>1, <1>2, NewConditionAdds DEF Ledger
<1> HIDE DEF N
<1>5. /\ r.firstConditionInChain = N.firstConditionInChain
      /\ r.conditionCreationDates = N.conditionCreationDates
      /\ r.salaryReceivers = N.salaryReceivers
      /\ r.lastSalaryDates = [lastSalaryDates EXCEPT ![new] = now]
  BY <1>4 DEF LedgerType
<1> HIDE DEF r
<1>6. /\ firstConditionInChain' = [firstConditionInChain EXCEPT ![new] = new]
      /\ conditionCreationDates' = [conditionCreationDates EXCEPT ![new] = now]
      /\ salaryReceivers' = [salaryReceivers EXCEPT ![new] = customer]
      /\ lastSalaryDates' = [lastSalaryDates EXCEPT ![new] = now]
      /\ now' = now /\ totals' = totals /\ awaiting' = awaiting
  BY <1>1, <1>4, <1>5 DEF OneMore, Install, Ledger
<1>7. firstConditionInChain[new] = 0
  BY <1>2, <1>3 DEF Inv, Chains, Blank, Ledger
<1>8. /\ firstConditionInChain \in [ConditionIds -> ConditionIds]
      /\ conditionCreationDates \in [ConditionIds -> Nat]
      /\ salaryReceivers \in [ConditionIds -> Addresses]
      /\ lastSalaryDates \in [ConditionIds -> Nat]
  BY DEF Inv, TypeOK, SalaryTypeOK
<1> HIDE DEF new
<1>9. StreamStart[new] = 0
  BY <1>3, <1>7 DEF StreamStart, StartOf, Ledger
<1>10. StreamStart' = [StreamStart EXCEPT ![new] = now]
  <2>1. ASSUME NEW m \in ConditionIds
        PROVE  StreamStart'[m] = [StreamStart EXCEPT ![new] = now][m]
    BY <1>3, <1>6, <1>8 DEF StreamStart, StartOf, Ledger
  <2>2. QED BY <2>1 DEF StreamStart, StartOf, Ledger
<1>11. StreamUntil' = [StreamUntil EXCEPT ![new] = now]
  <2>1. ASSUME NEW m \in ConditionIds
        PROVE  StreamUntil'[m] = [StreamUntil EXCEPT ![new] = now][m]
    BY <1>3, <1>6, <1>8 DEF StreamUntil, UntilOf, Ledger
  <2>2. QED BY <2>1 DEF StreamUntil, UntilOf, Ledger
<1>12. StreamCallers' \in {StreamCallers, StreamCallers \cup {new}}
  <2>1. \A m \in ConditionIds \ {new} : m \in StreamCallers' <=> m \in StreamCallers
    BY <1>6, <1>8 DEF StreamCallers, CallersOf, Ledger
  <2>2. new \notin StreamCallers
    BY <1>3, <1>7 DEF StreamCallers, CallersOf, Ledger
  <2>3. StreamCallers \subseteq ConditionIds /\ StreamCallers' \subseteq ConditionIds
    BY DEF StreamCallers, CallersOf
  <2>4. QED BY <2>1, <2>2, <2>3
<1>13. StreamMinted' = StreamMinted
  BY <1>6 DEF StreamMinted
<1>14. QED BY <1>3, <1>6, <1>9, <1>10, <1>11, <1>12, <1>13

\* A mint pays a stream, for the first time this second or, of a caller, again.
LEMMA MintPays ==
    ASSUME Inv, NEW sender \in Users, NEW n \in ConditionIds, NEW to \in Addresses,
           MintSalary(sender, n, to)
    PROVE  /\ StreamStart[n] # 0
           /\ \/ /\ StreamMinted' = [StreamMinted EXCEPT ![n] = @ + (now - StreamUntil[n])]
                 /\ StreamUntil' = [StreamUntil EXCEPT ![n] = now]
              \/ /\ n \in StreamCallers
                 /\ StreamUntil[n] = now
                 /\ \E amount \in 0..(now - StreamStart[n]) :
                       StreamMinted' = [StreamMinted EXCEPT ![n] = @ + amount]
                 /\ UNCHANGED StreamUntil
           /\ UNCHANGED <<now, StreamStart, StreamCallers>>
<1> DEFINE v == now - lastSalaryDates[n]
<1>1. /\ n \in 1..maxConditionId
      /\ firstConditionInChain[n] = n
      /\ totals' = [totals EXCEPT ![Condition(n)] = @ + v]
      /\ \/ /\ awaiting' = [awaiting EXCEPT ![n] = awaiting[n] + 1]
            /\ lastSalaryDates' = lastSalaryDates
         \/ /\ awaiting' = awaiting
            /\ lastSalaryDates' = [lastSalaryDates EXCEPT ![n] = now]
      /\ UNCHANGED <<lockVars, chainVars>>
  BY MintStep
<1>2. now' = now /\ StreamStart' = StreamStart /\ StreamCallers' = StreamCallers
  BY <1>1 DEF lockVars, chainVars, StreamStart, StartOf, StreamCallers, CallersOf, Ledger
<1>3. /\ conditionCreationDates[n] \in 1..now
      /\ lastSalaryDates[n] \in 1..now
      /\ conditionCreationDates[n] <= lastSalaryDates[n]
  BY <1>1 DEF Inv, Chains, PaidUp, Ledger
<1>4. /\ StreamStart[n] = conditionCreationDates[n]
      /\ StreamUntil[n] = IF awaiting[n] > 0 THEN now ELSE lastSalaryDates[n]
  BY <1>1 DEF StreamStart, StartOf, StreamUntil, UntilOf, Ledger
<1>5. /\ now \in Nat /\ totals \in [Tokens -> Nat]
      /\ awaiting \in [ConditionIds -> 0..MaxNested]
      /\ lastSalaryDates \in [ConditionIds -> Nat]
      /\ firstConditionInChain' = firstConditionInChain
  BY <1>1 DEF Inv, TypeOK, LockTypeOK, TokenTypeOK, SalaryTypeOK, chainVars
<1>6. StreamUntil' = [StreamUntil EXCEPT ![n] = now]
  <2>1. \A m \in ConditionIds \ {n} : /\ awaiting'[m] = awaiting[m]
                                       /\ lastSalaryDates'[m] = lastSalaryDates[m]
    BY <1>1, <1>5
  <2>2. awaiting'[n] > 0 \/ lastSalaryDates'[n] = now
    BY <1>1, <1>5
  <2>3. ASSUME NEW m \in ConditionIds
        PROVE  StreamUntil'[m] = [StreamUntil EXCEPT ![n] = now][m]
    BY <1>1, <1>2, <1>5, <2>1, <2>2 DEF StreamUntil, UntilOf, Ledger
  <2>4. QED BY <2>3 DEF StreamUntil, UntilOf, Ledger
<1>7. StreamMinted' = [StreamMinted EXCEPT ![n] = @ + v]
  <2>1. ASSUME NEW m \in ConditionIds
        PROVE  totals'[Condition(m)] =
                 IF m = n THEN totals[Condition(n)] + v ELSE totals[Condition(m)]
    <3>1. Condition(m) \in Tokens /\ Condition(n) \in Tokens
      BY TokenKinds
    <3>2. m # n => Condition(m) # Condition(n)
      BY TokensDistinct
    <3> HIDE DEF v
    <3>3. QED BY <1>1, <1>5, <3>1, <3>2
  <2> HIDE DEF v
  <2>2. QED BY <2>1 DEF StreamMinted
<1>8. CASE awaiting[n] = 0
  BY <1>2, <1>3, <1>4, <1>6, <1>7, <1>8
<1>9. CASE awaiting[n] > 0
  <2>1. n \in StreamCallers
    BY <1>9 DEF Inv, Asked, StreamCallers, CallersOf, Ledger
  <2>2. StreamUntil[n] = now /\ v \in 0..(now - StreamStart[n])
    BY <1>3, <1>4, <1>5, <1>9
  <2>3. StreamUntil' = StreamUntil
    BY <1>6, <2>2 DEF StreamUntil, UntilOf
  <2> HIDE DEF v
  <2>4. \E amount \in 0..(now - StreamStart[n]) :
           StreamMinted' = [StreamMinted EXCEPT ![n] = @ + amount]
    BY <1>7, <2>2
  <2>5. StreamStart[n] # 0
    BY <1>3, <1>4
  <2>6. QED BY <1>2, <2>1, <2>2, <2>3, <2>4, <2>5
<1>10. QED BY <1>5, <1>8, <1>9

\* The return of a payment is none: its date is the one it was paid up to.
LEMMA ReturnStutters ==
    ASSUME Inv, NEW n \in ConditionIds, MintReturns(n)
    PROVE  UNCHANGED <<now, StreamStart, StreamUntil, StreamMinted, StreamCallers>>
<1>1. /\ awaiting[n] > 0
      /\ awaiting' = [awaiting EXCEPT ![n] = awaiting[n] - 1]
      /\ lastSalaryDates' = [lastSalaryDates EXCEPT ![n] = now]
      /\ UNCHANGED <<tokenVars, lockVars, chainVars>>
  BY DEF MintReturns
<1>2. /\ awaiting \in [ConditionIds -> 0..MaxNested]
      /\ lastSalaryDates \in [ConditionIds -> Nat]
  BY DEF Inv, TypeOK, SalaryTypeOK
<1>3. /\ now' = now /\ StreamStart' = StreamStart /\ StreamCallers' = StreamCallers
      /\ StreamMinted' = StreamMinted /\ firstConditionInChain' = firstConditionInChain
  BY <1>1 DEF tokenVars, lockVars, chainVars, StreamStart, StartOf, StreamCallers, CallersOf,
              StreamMinted, Ledger
<1>4. \A m \in ConditionIds :
         (IF awaiting'[m] > 0 THEN now ELSE lastSalaryDates'[m])
            = (IF awaiting[m] > 0 THEN now ELSE lastSalaryDates[m])
  BY <1>1, <1>2
<1>5. StreamUntil' = StreamUntil
  BY <1>3, <1>4 DEF StreamUntil, UntilOf, Ledger
<1>6. QED BY <1>3, <1>5

\* The calls that leave salaries alone change no stream.
LEMMA QuietStutters ==
    ASSUME UNCHANGED <<now, salaryVars>>,
           \A n \in ConditionIds : totals'[Condition(n)] = totals[Condition(n)]
    PROVE  UNCHANGED <<now, StreamStart, StreamUntil, StreamMinted, StreamCallers>>
BY DEF salaryVars, chainVars, StreamStart, StreamUntil, StreamMinted, StreamCallers,
       StartOf, UntilOf, CallersOf, Ledger

\* A step of the contract is a step of the streams, or none.
LEMMA StreamStep ==
    ASSUME Inv, [Next]_vars
    PROVE  \/ /\ now' = now + 1
              /\ UNCHANGED <<StreamStart, StreamUntil, StreamMinted, StreamCallers>>
           \/ \E n \in ConditionIds :
                 /\ StreamStart[n] = 0
                 /\ StreamStart' = [StreamStart EXCEPT ![n] = now]
                 /\ StreamUntil' = [StreamUntil EXCEPT ![n] = now]
                 /\ StreamCallers' \in {StreamCallers, StreamCallers \cup {n}}
                 /\ UNCHANGED <<now, StreamMinted>>
           \/ \E n \in ConditionIds :
                 /\ StreamStart[n] # 0
                 /\ \/ /\ StreamMinted' = [StreamMinted EXCEPT ![n] = @ + (now - StreamUntil[n])]
                       /\ StreamUntil' = [StreamUntil EXCEPT ![n] = now]
                    \/ /\ n \in StreamCallers
                       /\ StreamUntil[n] = now
                       /\ \E amount \in 0..(now - StreamStart[n]) :
                             StreamMinted' = [StreamMinted EXCEPT ![n] = @ + amount]
                       /\ UNCHANGED StreamUntil
                 /\ UNCHANGED <<now, StreamStart, StreamCallers>>
           \/ UNCHANGED <<now, StreamStart, StreamUntil, StreamMinted, StreamCallers>>
<1>1. /\ Ledger \in LedgerType /\ now \in Nat /\ now >= 1
      /\ Chains(Ledger, totals, now) /\ Blank(Ledger, totals)
      /\ Amounts \subseteq Nat
      /\ \A a \in Addresses : OriginalAddress(a) \in Addresses
      /\ \A a \in Users : CurrentAddress(a) \in Addresses
      /\ Customers \subseteq Addresses
  BY LedgerTyped, BoundAssumption, DAOAssumption
  DEF BoundAssumption, DAOAssumption, Inv, TypeOK, LockTypeOK, AccountTypeOK, OriginalAddress,
      CurrentAddress, Addresses, Chains
<1>2. CASE Answered /\ Tick /\ UNCHANGED <<bidVars, salaryVars, accountVars, daoVars>>
  <2>1. now' = now + 1 /\ totals' = totals /\ UNCHANGED salaryVars
    BY <1>2 DEF Tick, tokenVars
  <2>2. StreamStart' = StreamStart /\ StreamMinted' = StreamMinted /\ StreamCallers' = StreamCallers
    BY <2>1 DEF salaryVars, chainVars, StreamStart, StreamMinted, StreamCallers, StartOf,
                CallersOf, Ledger
  <2>3. StreamUntil' = StreamUntil
    BY <1>2, <2>1 DEF Answered, salaryVars, chainVars, StreamUntil, UntilOf, Ledger
  <2>4. QED BY <2>1, <2>2, <2>3
<1>3. CASE TokenCalls
  <2>1. PICK sender \in Users :
           \/ \E operator \in Users, approved \in BOOLEAN :
                 /\ SetApprovalForAll(sender, operator, approved)
                 /\ UNCHANGED <<lockVars, bidVars, salaryVars>>
           \/ \E from, to \in Addresses, t \in Tokens, v \in Amounts :
                 SafeTransferFrom(sender, from, to, t, v)
           \/ \E from, to \in Addresses, t1, t2 \in Tokens, v1, v2 \in Amounts :
                 SafeBatchTransferFrom(sender, from, to, t1, v1, t2, v2)
    BY <1>3 DEF TokenCalls
  <2>2. CASE \E operator \in Users, approved \in BOOLEAN :
                 /\ SetApprovalForAll(sender, operator, approved)
                 /\ UNCHANGED <<lockVars, bidVars, salaryVars>>
    BY <2>2, QuietStutters DEF SetApprovalForAll, lockVars
  <2>3. ASSUME NEW from \in Addresses, NEW to \in Addresses, NEW t \in Tokens, NEW v \in Amounts,
               SafeTransferFrom(sender, from, to, t, v)
        PROVE  UNCHANGED <<now, StreamStart, StreamUntil, StreamMinted, StreamCallers>>
    <3> DEFINE r == Transfer(Ledger, sender, t, from, to, v)
    <3>1. v \in Nat /\ CanTransfer(Ledger, sender, t, from, v) /\ Install(r)
      BY <1>1, <2>3 DEF SafeTransferFrom, BaseSafeTransferFrom
    <3>2. /\ r \in LedgerType
          /\ SameChains(Ledger, r) \/ \E n \in ConditionIds : Recreated(Ledger, r, n)
      BY <1>1, <3>1, TransferCases
    <3> HIDE DEF r
    <3>3. SameStreams(Ledger, r)
      BY <1>1, <3>2, StreamsKept
    <3>4. QED BY <3>1, <3>3, InstallStutters
  <2>4. ASSUME NEW from \in Addresses, NEW to \in Addresses, NEW t1 \in Tokens, NEW t2 \in Tokens,
               NEW v1 \in Amounts, NEW v2 \in Amounts,
               SafeBatchTransferFrom(sender, from, to, t1, v1, t2, v2)
        PROVE  UNCHANGED <<now, StreamStart, StreamUntil, StreamMinted, StreamCallers>>
    <3> DEFINE first == Transfer(Ledger, sender, t1, from, to, v1)
               r == Transfer(first, sender, t2, from, to, v2)
    <3>1. /\ v1 \in Nat /\ v2 \in Nat
          /\ CanTransfer(Ledger, sender, t1, from, v1)
          /\ CanTransfer(first, sender, t2, from, v2)
          /\ Install(r)
      BY <1>1, <2>4 DEF SafeBatchTransferFrom, BaseSafeBatchTransferFrom
    <3>2. /\ first \in LedgerType
          /\ SameChains(Ledger, first) \/ \E n \in ConditionIds : Recreated(Ledger, first, n)
      BY <1>1, <3>1, TransferCases
    <3> HIDE DEF first
    <3>3. SameChains(first, r) \/ \E n \in ConditionIds : Recreated(first, r, n)
      BY <1>1, <3>1, <3>2, TransferCases
    <3> HIDE DEF r
    <3>4. Chains(first, totals, now)
      BY <1>1, <3>2, SameChainsKept, RecreatedKeepsChains
    <3>5. SameStreams(Ledger, first) /\ SameStreams(first, r)
      BY <1>1, <3>2, <3>3, <3>4, StreamsKept DEF Chains
    <3>6. SameStreams(Ledger, r)
      BY <3>5 DEF SameStreams
    <3>7. QED BY <3>1, <3>6, InstallStutters
  <2>5. QED BY <2>1, <2>2, <2>3, <2>4
<1>4. CASE SalaryCalls
  <2>1. ASSUME NEW n \in ConditionIds, RecreateCondition(n)
        PROVE  UNCHANGED <<now, StreamStart, StreamUntil, StreamMinted, StreamCallers>>
    <3>1. Recreated(Ledger, Recreate(Ledger, n), n) /\ Install(Recreate(Ledger, n))
      BY <1>1, <2>1, RecreateAdds DEF RecreateCondition
    <3>2. SameStreams(Ledger, Recreate(Ledger, n))
      BY <1>1, <3>1, StreamsKept
    <3>3. QED BY <3>1, <3>2, InstallStutters
  <2>2. QED BY <1>1, <1>4, <2>1, MintPays, ReturnStutters DEF SalaryCalls
<1>5. CASE OracleCalls /\ UNCHANGED <<salaryVars, accountVars, daoVars>>
  <2>1. UNCHANGED <<totals, now>>
    BY <1>5 DEF OracleCalls, CreateOracle, ChangeOracleOwner, UpdateGracePeriodEnds,
       ReportNumerator, ReportNumeratorsBatch, Publish, FinishOracle, tokenVars, lockVars
  <2>2. QED BY <1>5, <2>1, QuietStutters
<1>6. CASE CollateralCalls /\ UNCHANGED <<salaryVars, accountVars, daoVars>>
  <2>1. PICK c \in Collaterals :
           \/ \E from \in Users, to \in Users \cup {This}, v \in Amounts :
                 CollateralTransfer(c, from, to, v)
           \/ \E o \in Oracles, v \in Amounts, from \in Users \cup {This}, to \in Addresses :
                 Donate(c, o, v, from, to)
           \/ \E o \in Oracles : GatherDeFiProfit(c, o)
           \/ \E sender \in Users, o \in Oracles, t \in Tokens : Withdraw(sender, c, o, t)
    BY <1>6 DEF CollateralCalls
  <2>2. ASSUME NEW o \in Oracles, NEW v \in Nat, NEW from \in Addresses, NEW to \in Addresses,
               Donate(c, o, v, from, to)
        PROVE  UNCHANGED <<now, StreamStart, StreamUntil, StreamMinted, StreamCallers>>
    BY <1>6, <2>2, DonateTotals, QuietStutters DEF Donate
  <2>3. CASE \E o \in Oracles, v \in Amounts, from \in Users \cup {This}, to \in Addresses :
                Donate(c, o, v, from, to)
    BY <1>1, <2>2, <2>3 DEF Addresses
  <2>4. CASE \E o \in Oracles : GatherDeFiProfit(c, o)
    BY <2>2, <2>4, GatherDonates DEF Inv, Addresses
  <2>5. CASE \/ \E from \in Users, to \in Users \cup {This}, v \in Amounts :
                   CollateralTransfer(c, from, to, v)
             \/ \E sender \in Users, o \in Oracles, t \in Tokens : Withdraw(sender, c, o, t)
    <3>1. UNCHANGED <<totals, now>>
      BY <2>5 DEF CollateralTransfer, Withdraw, WithdrawCollateral, tokenVars
    <3>2. QED BY <1>6, <3>1, QuietStutters
  <2>6. QED BY <2>1, <2>3, <2>4, <2>5
<1>7. CASE AccountCalls /\ UNCHANGED daoVars
  <2>1. UNCHANGED <<totals, now, salaryVars>>
    BY <1>7 DEF AccountCalls, PermitRestoreAccount, DispermitRestoreAccount, RestoreFunds,
       RestoreFundsBatch, baseVars, tokenVars, lockVars
  <2>2. QED BY <2>1, QuietStutters
<1>8. CASE DAOCalls
  <2>1. ASSUME NEW customer \in Customers, NEW underControl \in ControlChoices,
               RegisterCustomer(customer, underControl)
        PROVE  RegisterSalary(OriginalAddress(customer)) /\ OriginalAddress(customer) \in Addresses
    BY <1>1, <2>1 DEF RegisterCustomer
  <2>2. ASSUME UNCHANGED baseVars PROVE UNCHANGED <<now, StreamStart, StreamUntil, StreamMinted, StreamCallers>>
    BY <2>2, QuietStutters DEF baseVars, tokenVars, lockVars
  <2>3. QED BY <1>8, <2>1, <2>2, RegisterBegins DEF DAOCalls, SetDAOControl, SetDAO
<1>9. CASE UNCHANGED vars
  BY <1>9, QuietStutters DEF vars, baseVars, tokenVars, lockVars
<1>10. QED BY <1>2, <1>3, <1>4, <1>5, <1>6, <1>7, <1>8, <1>9 DEF Next

\* The contract implements SalaryStream: each salary is a stream that starts once
\* and of which the first condition alone is paid, a token for each second since
\* the last payment; only a receiver with code may be paid again, and only within
\* the second of a payment (mintSalary).
THEOREM ContractImplementsStream == Spec => ImplementsStream
<1>1. Init => Stream!Init
  <2> SUFFICES ASSUME Init PROVE Stream!Init
    OBVIOUS
  <2>1. /\ now = 1 /\ awaiting = [n \in ConditionIds |-> 0]
        /\ firstConditionInChain = [n \in ConditionIds |-> 0]
        /\ conditionCreationDates = [n \in ConditionIds |-> 0]
        /\ lastSalaryDates = [n \in ConditionIds |-> 0]
        /\ salaryReceivers = [n \in ConditionIds |-> Zero]
        /\ \A n \in ConditionIds : totals[Condition(n)] = 0
    BY TokenKinds DEF Init, LockInit, SalaryInit, TokenInit
  <2>2. Zero \notin Contracts
    BY AddressAssumption, CodeAssumption DEF AddressAssumption, CodeAssumption
  <2>3. QED BY <2>1, <2>2 DEF Stream!Init, PaidUntil
<1>2. Inv /\ [Next]_vars => [Stream!Next]_(Stream!streamVars)
  <2> SUFFICES ASSUME Inv, [Next]_vars PROVE [Stream!Next]_(Stream!streamVars)
    OBVIOUS
  <2> DEFINE S == [n \in ConditionIds |->
                    IF firstConditionInChain[n] = n THEN conditionCreationDates[n] ELSE 0]
             U == [n \in ConditionIds |->
                    IF firstConditionInChain[n] = n THEN PaidUntil(n) ELSE 0]
             M == [n \in ConditionIds |-> totals[Condition(n)]]
             C == {n \in ConditionIds : /\ firstConditionInChain[n] = n
                                        /\ salaryReceivers[n] \in Contracts}
  <2>1. /\ StreamStart = S /\ StreamStart' = S'
        /\ StreamUntil = U /\ StreamUntil' = U'
        /\ StreamMinted = M /\ StreamMinted' = M'
        /\ StreamCallers = C /\ StreamCallers' = C'
    BY DEF StreamStart, StreamUntil, StreamMinted, StreamCallers, StartOf, UntilOf, CallersOf,
           PaidUntil, Ledger
  <2>2. /\ Stream!streamVars = <<now, S, U, M, C>>
        /\ Stream!streamVars' = <<now', S', U', M', C'>>
    BY DEF Stream!streamVars
  <2>3. CASE /\ now' = now + 1
             /\ UNCHANGED <<StreamStart, StreamUntil, StreamMinted, StreamCallers>>
    <3>1. now' = now + 1 /\ S' = S /\ U' = U /\ M' = M /\ C' = C
      <4> HIDE DEF S, U, M, C
      <4> QED BY <2>1, <2>3
    <3>2. Stream!Second
      BY <3>1 DEF Stream!Second
    <3>3. QED BY <3>2 DEF Stream!Next
  <2>4. ASSUME NEW n \in ConditionIds,
               StreamStart[n] = 0,
               StreamStart' = [StreamStart EXCEPT ![n] = now],
               StreamUntil' = [StreamUntil EXCEPT ![n] = now],
               StreamCallers' \in {StreamCallers, StreamCallers \cup {n}},
               UNCHANGED <<now, StreamMinted>>
        PROVE  Stream!Next
    <3>1. /\ S[n] = 0 /\ S' = [S EXCEPT ![n] = now] /\ U' = [U EXCEPT ![n] = now]
          /\ C' \in {C, C \cup {n}} /\ now' = now /\ M' = M
      <4> HIDE DEF S, U, M, C
      <4> QED BY <2>1, <2>4
    <3>2. Stream!Begin(n)
      BY <3>1 DEF Stream!Begin
    <3>3. QED BY <3>2 DEF Stream!Next
  <2>5. ASSUME NEW n \in ConditionIds,
               StreamStart[n] # 0,
               StreamMinted' = [StreamMinted EXCEPT ![n] = @ + (now - StreamUntil[n])],
               StreamUntil' = [StreamUntil EXCEPT ![n] = now],
               UNCHANGED <<now, StreamStart, StreamCallers>>
        PROVE  Stream!Next
    <3>1. /\ S[n] # 0 /\ M' = [M EXCEPT ![n] = @ + (now - U[n])] /\ U' = [U EXCEPT ![n] = now]
          /\ now' = now /\ S' = S /\ C' = C
      <4> HIDE DEF S, U, M, C
      <4> QED BY <2>1, <2>5
    <3>2. Stream!Pay(n)
      BY <3>1 DEF Stream!Pay
    <3>3. QED BY <3>2 DEF Stream!Next
  <2>6. ASSUME NEW n \in ConditionIds,
               n \in StreamCallers,
               StreamUntil[n] = now,
               NEW amount \in 0..(now - StreamStart[n]),
               StreamMinted' = [StreamMinted EXCEPT ![n] = @ + amount],
               UNCHANGED <<now, StreamStart, StreamUntil, StreamCallers>>
        PROVE  Stream!Next
    <3>1. /\ n \in C /\ U[n] = now /\ amount \in 0..(now - S[n])
          /\ M' = [M EXCEPT ![n] = @ + amount]
          /\ now' = now /\ S' = S /\ U' = U /\ C' = C
      <4> HIDE DEF S, U, M, C
      <4> QED BY <2>1, <2>6
    <3>2. Stream!PayAgain(n)
      BY <3>1 DEF Stream!PayAgain
    <3>3. QED BY <3>2 DEF Stream!Next
  <2>7. CASE UNCHANGED <<now, StreamStart, StreamUntil, StreamMinted, StreamCallers>>
    <3> HIDE DEF S, U, M, C
    <3> QED BY <2>1, <2>2, <2>7
  <2>8. QED BY <2>3, <2>4, <2>5, <2>6, <2>7, StreamStep
<1>3. QED BY <1>1, <1>2, Invariance, PTL DEF Spec, ImplementsStream, Stream!Spec

-----------------------------------------------------------------------------
(* The DAO. *)

\* Only registration and an account with a salary put an account under control.
LEMMA StepKeepsControl == ControlNeedsSalary /\ [Next]_vars => ControlNeedsSalary'
<1> SUFFICES ASSUME ControlNeedsSalary, [Next]_vars
             PROVE  ControlNeedsSalary'
  OBVIOUS
<1> USE DEF ControlNeedsSalary
<1>1. CASE UNCHANGED daoVars
  BY <1>1 DEF daoVars
<1>2. CASE DAOCalls
  <2>1. ASSUME NEW customer \in Customers, NEW underControl \in ControlChoices,
               RegisterCustomer(customer, underControl)
        PROVE  ControlNeedsSalary'
    BY <2>1 DEF RegisterCustomer
  <2>2. ASSUME NEW sender \in Users, NEW underControl \in ControlChoices,
               SetDAOControl(sender, underControl)
        PROVE  ControlNeedsSalary'
    BY <2>2 DEF SetDAOControl
  <2>3. ASSUME NEW dao \in DAOs, SetDAO(dao)
        PROVE  ControlNeedsSalary'
    BY <2>3 DEF SetDAO
  <2>4. QED BY <1>2, <2>1, <2>2, <2>3 DEF DAOCalls
<1>3. QED BY <1>1, <1>2 DEF Next, vars, daoVars

\* The DAO has a say over an account only once the account has a salary
\* (registerCustomer, setDAOControl).
THEOREM ControlComesWithSalary == Spec => []ControlNeedsSalary
<1>1. Init => ControlNeedsSalary
  BY DEF Init, ControlNeedsSalary
<1>2. QED BY <1>1, StepKeepsControl, PTL DEF Spec
=============================================================================
