------------------------- MODULE BaseBidOnAddresses -------------------------
(***************************************************************************)
(* BaseBidOnAddresses.sol: the owner of an oracle reports a score            *)
(* (numerator) per condition until it finishes; the share of a condition is  *)
(* its score over the sum of all scores.                                     *)
(***************************************************************************)
EXTENDS BaseLock

CONSTANTS
    Scored,  \* bound: the tokens scores are reported for
    Scores   \* bound: the scores an oracle may report

ASSUME ScoreAssumption == Scored \subseteq Tokens /\ Scores \subseteq Nat

VARIABLES
    oracleFinished,      \* oracleFinishedMap
    payoutNumerators,    \* payoutNumeratorsMap
    payoutDenominators   \* payoutDenominatorMap

bidVars == <<oracleFinished, payoutNumerators, payoutDenominators>>

BidTypeOK ==
    /\ oracleFinished \in [Oracles -> BOOLEAN]
    /\ payoutNumerators \in [Oracles -> [Tokens -> Nat]]
    /\ payoutDenominators \in [Oracles -> Nat]

BidInit ==
    /\ oracleFinished = [o \in Oracles |-> FALSE]
    /\ payoutNumerators = [o \in Oracles |-> [t \in Tokens |-> 0]]
    /\ payoutDenominators = [o \in Oracles |-> 0]

-----------------------------------------------------------------------------
\* The scores of one oracle: the sum of all, and the score of each token.
Market(o) == [sum |-> payoutDenominators[o], score |-> payoutNumerators[o]]

\* _updateNumerator.  SafeMath's sub is CanUpdate.
CanUpdate(m, t, numerator) == m.sum + numerator >= m.score[t]

\* Mutant of UpdateNumerator: the replaced score stays in the sum.
UpdateAddingOnly(m, t, numerator) ==
    [m EXCEPT !.sum = @ + numerator, !.score[t] = numerator]

UpdateNumerator(m, t, numerator) ==
    [m EXCEPT !.sum = @ + numerator - m.score[t], !.score[t] = numerator]

Publish(o, m) ==
    /\ payoutDenominators' = [payoutDenominators EXCEPT ![o] = m.sum]
    /\ payoutNumerators' = [payoutNumerators EXCEPT ![o] = m.score]
    /\ UNCHANGED <<tokenVars, lockVars, oracleFinished>>

\* _calcRewardShare; divu reverts when nothing was scored.
HasRewardShare(o) == payoutDenominators[o] # 0
RewardShare(o, t) == Divu(payoutNumerators[o][t], payoutDenominators[o])

-----------------------------------------------------------------------------
\* Mutant of ReportNumerator: scores are accepted after the finish.
ReportAnytime(sender, o, t, numerator) ==
    /\ IsOracle(sender, o)
    /\ CanUpdate(Market(o), t, numerator)
    /\ Publish(o, UpdateNumerator(Market(o), t, numerator))

ReportNumerator(sender, o, t, numerator) ==
    /\ IsOracle(sender, o)
    /\ ~oracleFinished[o]
    /\ CanUpdate(Market(o), t, numerator)
    /\ Publish(o, UpdateNumerator(Market(o), t, numerator))

\* A batch of two scores; both may be of the same token.
ReportNumeratorsBatch(sender, o, t1, numerator1, t2, numerator2) ==
    LET first == UpdateNumerator(Market(o), t1, numerator1)
    IN  /\ IsOracle(sender, o)
        /\ ~oracleFinished[o]
        /\ CanUpdate(Market(o), t1, numerator1)
        /\ CanUpdate(first, t2, numerator2)
        /\ Publish(o, UpdateNumerator(first, t2, numerator2))

FinishOracle(sender, o) ==
    /\ IsOracle(sender, o)
    /\ oracleFinished' = [oracleFinished EXCEPT ![o] = TRUE]
    /\ UNCHANGED <<tokenVars, lockVars, payoutNumerators, payoutDenominators>>

\* withdrawCollateral, with the two virtual functions it calls.
Withdraw(sender, c, o, t) ==
    /\ HasRewardShare(o)
    /\ WithdrawCollateral(sender, c, o, t, oracleFinished[o], RewardShare(o, t))
    /\ UNCHANGED bidVars
=============================================================================
