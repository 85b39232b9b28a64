------------------------------ MODULE BaseLock ------------------------------
(***************************************************************************)
(* BaseLock.sol: collateral is donated to an oracle's ecosystem and, once   *)
(* the oracle has finished, paid out in proportion to conditional tokens.   *)
(* `finished` and `rewardShare` are what the contract above answers for the *)
(* virtual functions isOracleFinished and _calcRewardShare.                 *)
(***************************************************************************)
EXTENDS ERC1155WithTotals

CONSTANTS
    MaxTime,     \* bound: the last block timestamp
    MaxDonated,  \* bound: donations counted per collateral
    Deadlines,   \* bound: the ends of the grace period an oracle may set
    Wealth,      \* the collateral each user owns at the start
    FixedOne     \* the number 1 in ABDKMath64x64 (2^64 in the library)

ASSUME LockAssumption ==
    /\ MaxTime \in Nat /\ MaxDonated \in Nat /\ FixedOne \in Nat \ {0}
    /\ Deadlines \subseteq Nat
    /\ Wealth \in [Users -> Nat]

VARIABLES
    now,               \* block.timestamp
    maxOracleId,
    oracleOwners,      \* oracleOwnersMap
    gracePeriodEnds,
    userUsedRedeem,    \* userUsedRedeemMap: the pairs <<user, token>> set to true
    lastFirstRound,    \* lastCollateralBalanceFirstRoundMap
    lastSecondRound,   \* lastCollateralBalanceSecondRoundMap
    usersWithdrewInFirstRound,
    maxConditionId,
    conditionOwners,
    collateral,        \* balances in the (external) collateral contracts
    paid               \* history: the sum of the CollateralWithdrawn amounts

oracleVars == <<maxOracleId, oracleOwners, gracePeriodEnds>>
payoutVars == <<userUsedRedeem, lastFirstRound, lastSecondRound,
                usersWithdrewInFirstRound, paid>>
conditionVars == <<maxConditionId, conditionOwners>>
lockVars == <<now, oracleVars, payoutVars, conditionVars, collateral>>

LockTypeOK ==
    /\ now \in Nat
    /\ maxOracleId \in 0..MaxOracle
    /\ oracleOwners \in [Oracles -> Addresses]
    /\ gracePeriodEnds \in [Oracles -> Nat]
    /\ userUsedRedeem \subseteq Users \X Tokens
    /\ lastFirstRound \in [Tokens -> [Users -> Nat]]
    /\ lastSecondRound \in [Tokens -> [Users -> Nat]]
    /\ usersWithdrewInFirstRound \in [Oracles -> Nat]
    /\ maxConditionId \in ConditionIds
    /\ conditionOwners \in [ConditionIds -> Addresses]
    /\ collateral \in [Collaterals -> [Addresses -> Nat]]
    /\ paid \in [Collaterals -> [Oracles -> Nat]]

LockInit ==
    /\ now = 1
    /\ maxOracleId = 0
    /\ oracleOwners = [o \in Oracles |-> Zero]
    /\ gracePeriodEnds = [o \in Oracles |-> 0]
    /\ userUsedRedeem = {}
    /\ lastFirstRound = [t \in Tokens |-> [u \in Users |-> 0]]
    /\ lastSecondRound = [t \in Tokens |-> [u \in Users |-> 0]]
    /\ usersWithdrewInFirstRound = [o \in Oracles |-> 0]
    /\ maxConditionId = 0
    /\ conditionOwners = [n \in ConditionIds |-> Zero]
    /\ collateral = [c \in Collaterals |->
                       [a \in Addresses |-> IF a \in Users THEN Wealth[a] ELSE 0]]
    /\ paid = [c \in Collaterals |-> [o \in Oracles |-> 0]]

-----------------------------------------------------------------------------
(* Helpers. *)

\* ABDKMath64x64: divu (which reverts on y = 0), mul and mulu, all rounding down.
Divu(x, y) == (x * FixedOne) \div y
FixedMul(x, y) == (x * y) \div FixedOne

IsOracle(sender, o) == oracleOwners[o] = sender

IsInFirstRound(o) == now <= gracePeriodEnds[o]

\* Mutant of IsUnlocked: a transfer does not look at the redeem map.
UnlockedAlways(from, t) == TRUE

IsUnlocked(from, t) == <<from, t>> \notin userUsedRedeem

\* _doCreateCondition of this contract.
CanCreateCondition(s) == s.maxConditionId < MaxCondition

CreateCondition(s, customer) ==
    LET n == s.maxConditionId + 1
    IN  [s EXCEPT !.maxConditionId = n, !.conditionOwners[n] = customer]

\* _collateralOwingBase: the supply a balance is divided by, and the amount owed.
SupplyOf(t, o) ==
    IF IsInFirstRound(o) THEN totals[t] ELSE usersWithdrewInFirstRound[o]

\* Mutant of NewDividends: earlier payments are forgotten.
AllDividends(c, o, user) == totals[PerOracle(c, o)]

NewDividends(c, o, user) ==
    LET counter == PerOracle(c, o)
    IN  totals[counter] - IF IsInFirstRound(o) THEN lastFirstRound[counter][user]
                                               ELSE lastSecondRound[counter][user]

Owing(c, o, t, user, rewardShare) ==
    LET oracleShare == Divu(balances[t][user], SupplyOf(t, o))
    IN  FixedMul(FixedMul(oracleShare, rewardShare), NewDividends(c, o, user))

\* safeTransferFrom of the collateral contract (external).
CanSpend(c, from, v) == collateral[c][from] >= v

Spend(c, from, to, v) ==
    LET debited == [collateral EXCEPT ![c][from] = @ - v]
    IN  collateral' = [debited EXCEPT ![c][to] = @ + v]

-----------------------------------------------------------------------------
(* Calls. *)

Tick ==
    /\ now < MaxTime
    /\ now' = now + 1
    /\ UNCHANGED <<tokenVars, oracleVars, payoutVars, conditionVars, collateral>>

\* A transfer in the collateral contract that this contract knows nothing of.
CollateralTransfer(c, from, to, v) ==
    /\ CanSpend(c, from, v)
    /\ Spend(c, from, to, v)
    /\ UNCHANGED <<tokenVars, now, oracleVars, payoutVars, conditionVars>>

CreateOracle(sender) ==
    /\ maxOracleId < MaxOracle
    /\ maxOracleId' = maxOracleId + 1
    /\ oracleOwners' = [oracleOwners EXCEPT ![maxOracleId + 1] = sender]
    /\ UNCHANGED <<tokenVars, now, gracePeriodEnds, payoutVars, conditionVars, collateral>>

ChangeOracleOwner(sender, newOwner, o) ==
    /\ IsOracle(sender, o)
    /\ oracleOwners' = [oracleOwners EXCEPT ![o] = newOwner]
    /\ UNCHANGED <<tokenVars, now, maxOracleId, gracePeriodEnds, payoutVars,
                   conditionVars, collateral>>

UpdateGracePeriodEnds(sender, o, time) ==
    /\ IsOracle(sender, o)
    /\ gracePeriodEnds' = [gracePeriodEnds EXCEPT ![o] = time]
    /\ UNCHANGED <<tokenVars, now, maxOracleId, oracleOwners, payoutVars,
                   conditionVars, collateral>>

\* Both counters are minted to `to`, then the collateral is pulled from `from`
\* (who approved this contract beforehand, or is this contract).  The acceptance
\* check of each mint would call a `to` with code; such donations are left out.
Donate(c, o, v, from, to) ==
    /\ totals[Donated(c)] + v <= MaxDonated
    /\ to \notin Contracts \cup {Zero}
    /\ CanSpend(c, from, v)
    /\ LET s == Mint(Mint([balances |-> balances, totals |-> totals],
                          to, PerOracle(c, o), v), to, Donated(c), v)
       IN  balances' = s.balances /\ totals' = s.totals
    /\ Spend(c, from, This, v)
    /\ UNCHANGED <<operatorApprovals, now, oracleVars, payoutVars, conditionVars>>

\* Mutant of GatherDeFiProfit: the donations already counted are not subtracted.
GatherEverything(c, o) ==
    LET counted == balances[Donated(c)][This]
    IN  /\ counted # 0
        /\ Donate(c, o,
                  (collateral[c][This] * balances[PerOracle(c, o)][This]) \div counted,
                  This, This)

GatherDeFiProfit(c, o) ==
    LET counted == balances[Donated(c)][This]
        difference == collateral[c][This] - counted
    IN  /\ collateral[c][This] >= counted
        /\ counted # 0
        /\ Donate(c, o, (difference * balances[PerOracle(c, o)][This]) \div counted,
                  This, This)

\* Mutant of Recorded: the donations are added to those recorded before.
RecordedOnTop(last, counter, user) == [last EXCEPT ![counter][user] = @ + totals[counter]]

\* The user is paid for every donation counted so far.
Recorded(last, counter, user) == [last EXCEPT ![counter][user] = totals[counter]]

WithdrawCollateral(sender, c, o, t, finished, rewardShare) ==
    LET counter == PerOracle(c, o)
        owing == Owing(c, o, t, sender, rewardShare)
        Paid(last) == IF owing = 0 THEN last ELSE Recorded(last, counter, sender)
    IN  /\ finished
        /\ SupplyOf(t, o) # 0
        /\ userUsedRedeem' = userUsedRedeem \cup {<<sender, t>>}
        /\ IF IsInFirstRound(o)
             THEN /\ lastFirstRound' = Paid(lastFirstRound)
                  /\ UNCHANGED <<lastSecondRound, usersWithdrewInFirstRound>>
             ELSE /\ lastSecondRound' = Paid(lastSecondRound)
                  /\ usersWithdrewInFirstRound' =
                       [usersWithdrewInFirstRound EXCEPT ![o] = @ + owing]
                  /\ UNCHANGED lastFirstRound
        /\ CanSpend(c, This, owing)
        /\ Spend(c, This, sender, owing)
        /\ paid' = [paid EXCEPT ![c][o] = @ + owing]
        /\ UNCHANGED <<tokenVars, now, oracleVars, conditionVars>>
=============================================================================
