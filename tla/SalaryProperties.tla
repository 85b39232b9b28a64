-------------------------- MODULE SalaryProperties --------------------------
(***************************************************************************)
(* The correctness properties of SalaryWithDAO.                              *)
(***************************************************************************)
EXTENDS SalaryWithDAO, Functions

Created == 1..maxConditionId

\* The conditions of the chain that starts at n.
Chain(n) == {m \in Created : firstConditionInChain[m] = n}

Held(t) == SumFunction(balances[t])

\* What an account holds of a chain, whichever of its tokens it holds it in.
HeldInChain(a, n) == SumFunction([m \in Chain(n) |-> balances[Condition(m)][a]])

-----------------------------------------------------------------------------
(* Salaries and chains. *)

\* The second up to which a salary was paid, the payments under way included.
PaidUntil(n) == IF awaiting[n] > 0 THEN now ELSE lastSalaryDates[n]

\* A salary is minted once for every second between the creation of its first
\* condition and the last payment, whatever was recreated or transferred in
\* between, when its receiver has no code; a receiver with code, which may be
\* paid again while the date of a payment is not written, is never paid less.
\* A recreated condition is never minted (mintSalary).
SalaryOncePerSecond ==
    \A n \in Created :
        LET elapsed == PaidUntil(n) - conditionCreationDates[n]
        IN  IF IsFirstInChain(Ledger, n)
              THEN /\ totals[Condition(n)] >= elapsed
                   /\ salaryReceivers[n] \notin Contracts => totals[Condition(n)] = elapsed
              ELSE totals[Condition(n)] = 0

\* All conditions of a chain belong to one person, and the first one is the
\* oldest (_recreateCondition, the only way a chain grows).
ChainsAgree ==
    \A n \in Created :
        LET f == firstConditionInChain[n]
        IN  /\ f \in 1..n
            /\ IsFirstInChain(Ledger, f)
            /\ salaryReceivers[n] = salaryReceivers[f]
            /\ conditionOwners[n] = salaryReceivers[n]
            /\ conditionCreationDates[f] <= conditionCreationDates[n]

\* Recreating and transferring, in any order and also in one batch, never
\* leaves more tokens of a chain in the accounts than were minted for it.
ChainConserved ==
    \A n \in Created :
        SumFunction([m \in Chain(n) |-> Held(Condition(m))])
            <= SumFunction([m \in Chain(n) |-> totals[Condition(m)]])

\* The contract pays salaries as SalaryStream promises: the streams are the
\* first conditions, and no other condition ever pays; the callers are the
\* streams of receivers with code.
Stream == INSTANCE SalaryStream WITH
    Streams <- ConditionIds,
    start <- [n \in ConditionIds |->
                IF firstConditionInChain[n] = n THEN conditionCreationDates[n] ELSE 0],
    until <- [n \in ConditionIds |->
                IF firstConditionInChain[n] = n THEN PaidUntil(n) ELSE 0],
    minted <- [n \in ConditionIds |-> totals[Condition(n)]],
    callers <- {n \in ConditionIds : /\ firstConditionInChain[n] = n
                                     /\ salaryReceivers[n] \in Contracts}

ImplementsStream == Stream!Spec

-----------------------------------------------------------------------------
(* Who moves what. *)

\* Redeeming locks: whoever comes to hold more of a token got it minted, holds
\* a condition that was just created, or took it from an account that has not
\* redeemed with it, so that redeemed tokens are not gathered elsewhere and
\* redeemed again (safeTransferFrom and its batch form, which checks the locks
\* before any of its transfers recreates a condition).  The zero address, to
\* which the DAO may restore an account, redeems nothing.
Gain(t, a) == balances'[t][a] - balances[t][a]
Loss(t, a) == balances[t][a] - balances'[t][a]

JustCreated == {Condition(n) : n \in (maxConditionId + 1)..maxConditionId'}

LockedTokensNotGathered ==
    [][\A t \in Tokens \ JustCreated, a \in Addresses \ {Zero} :
          Gain(t, a) > 0 =>
             \/ totals'[t] > totals[t]
             \/ \E b \in Addresses : <<b, t>> \notin userUsedRedeem /\ Loss(t, b) >= Gain(t, a)]_vars

\* What a user holds of a chain, or of a donation counter, shrinks only by a
\* call of his own, of an operator he approved, or of the DAO he is under.
\* Recreating a condition, open to anyone, takes nothing from him.
CallsOf(a) ==
    \/ \E from, to \in Addresses, t \in Tokens, v \in Amounts :
          SafeTransferFrom(a, from, to, t, v)
    \/ \E from, to \in Addresses, t1, t2 \in Tokens, v1, v2 \in Amounts :
          SafeBatchTransferFrom(a, from, to, t1, v1, t2, v2)
    \/ \E t \in Tokens : RestoreFunds(a, a, a, t, FALSE)
    \/ \E t1, t2 \in Tokens : RestoreFundsBatch(a, a, a, t1, t2, FALSE)

LosesHoldings(a) ==
    \/ \E n \in Created : HeldInChain(a, n)' < HeldInChain(a, n)
    \/ \E t \in Tokens : t[1] # "condition" /\ balances'[t][a] < balances[t][a]

OnlyOwnerSpends ==
    [][\A a \in Users \ underDAOControl :
          (LosesHoldings(a) /\ \A b \in Addresses : <<a, b>> \notin operatorApprovals)
             => CallsOf(a)]_vars

\* The DAO has a say over an account only once the account has a salary.
ControlNeedsSalary == underDAOControl \subseteq accountHasSalary

-----------------------------------------------------------------------------
(* Scores and payouts. *)

\* The denominator of an oracle is the sum of its numerators, also after a
\* batch that scores one token twice (_updateNumerator).
DenominatorIsSum ==
    \A o \in Oracles : payoutDenominators[o] = SumFunction(payoutNumerators[o])

\* "The result can't change if the oracle has finished": shares are frozen.
SharesFrozen ==
    [][\A o \in Oracles : oracleFinished[o] =>
          /\ oracleFinished'[o]
          /\ payoutNumerators'[o] = payoutNumerators[o]
          /\ payoutDenominators'[o] = payoutDenominators[o]]_vars

\* The unchecked subtraction of _collateralOwingBase never wraps: what a user
\* was already paid for is within the donations counted for the oracle.
LastWithinDonations ==
    \A c \in Collaterals, o \in Oracles, u \in Users :
        /\ lastFirstRound[PerOracle(c, o)][u] <= totals[PerOracle(c, o)]
        /\ lastSecondRound[PerOracle(c, o)][u] <= totals[PerOracle(c, o)]

\* What an oracle's ecosystem paid out was donated to it.
PaidWithinDonations ==
    \A c \in Collaterals, o \in Oracles : paid[c][o] <= totals[PerOracle(c, o)]

\* The donations counted for a collateral were received: the contract still has
\* them or has paid them out (gatherDeFiProfit counts no more than the profit).
CountersBacked ==
    \A c \in Collaterals :
        totals[Donated(c)] <=
            collateral[c][This] + SumFunction(paid[c])

-----------------------------------------------------------------------------
(* What the comments of the contracts say and the code does otherwise. *)

\* "Total supply of a token" (ERC1155WithTotals.totalSupply): a total is the sum
\* of the balances.
TotalIsSupply == \A t \in Tokens : totals[t] = Held(t)

\* "oracleId => amount user withdrew in first round" (usersWithdrewInFirstRound):
\* what is paid in the first round is recorded there.
FirstRoundRecorded ==
    [][\A o \in Oracles : IsInFirstRound(o) =>
          usersWithdrewInFirstRound'[o] - usersWithdrewInFirstRound[o] =
             SumFunction([c \in Collaterals |-> paid'[c][o] - paid[c][o]])]_vars
=============================================================================
