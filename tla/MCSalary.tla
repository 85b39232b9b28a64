------------------------------ MODULE MCSalary ------------------------------
(* Small instances of SalaryWithDAO, chosen by the cfg files.  Some of them  *)
(* take only some of the calls of Next, on the conditions stated here.       *)
EXTENDS SalaryProperties

CONSTANTS alice, bob, self, zero, defaultDAO, council, gold

MCNoWealth == [u \in Users |-> 0]
MCWealth == [u \in Users |-> 2]
MCWealthOfBob == [u \in Users |-> IF u = bob THEN 3 ELSE 0]
MCScored == {Condition(1)}
-----------------------------------------------------------------------------
Rest(v) == UNCHANGED <<v, accountVars, daoVars>>

\* The calls of the life of a market: the oracle keeps its owner and the
\* accounts are not restored.
MarketCalls ==
    \/ Answered /\ Tick /\ Rest(<<bidVars, salaryVars>>)
    \/ DAOCalls
    \/ \E sender \in Users :
         \/ CreateOracle(sender) /\ Rest(<<bidVars, salaryVars>>)
         \/ \E o \in Oracles : \/ /\ \E time \in Deadlines : UpdateGracePeriodEnds(sender, o, time)
                                  /\ Rest(<<bidVars, salaryVars>>)
                               \/ /\ \E t \in Scored, m \in Scores : ReportNumerator(sender, o, t, m)
                                  /\ Rest(salaryVars)
                               \/ FinishOracle(sender, o) /\ Rest(salaryVars)
                               \/ \E c \in Collaterals, t \in Tokens :
                                    Withdraw(sender, c, o, t) /\ Rest(salaryVars)

ConditionalTransfers ==
    \E sender \in Users, to \in Addresses, n \in ConditionIds, v \in Amounts :
        SafeTransferFrom(sender, sender, to, Condition(n), v) /\ Rest(<<>>)

\* The life of salaries: everyone transfers what he holds himself, one token or
\* the same amount of two at a time.
ChainNext ==
    \/ Answered /\ Tick /\ Rest(<<bidVars, salaryVars>>)
    \/ SalaryCalls /\ Rest(<<>>)
    \/ DAOCalls
    \/ \E from, to \in Users, n, m \in Created, v \in Amounts :
          /\ \/ SafeTransferFrom(from, from, to, Condition(n), v)
             \/ SafeBatchTransferFrom(from, from, to, Condition(n), v, Condition(m), v)
          /\ Rest(<<>>)

ChainSpec == Init /\ [][ChainNext]_vars

\* Users donate, and donations are assigned to the contract.
DonationsToContract ==
    \E c \in Collaterals, o \in Oracles, v \in Amounts, from \in Users :
        /\ \/ Donate(c, o, v, from, This)
           \/ CollateralTransfer(c, from, This, v)
           \/ GatherDeFiProfit(c, o)
        /\ Rest(<<bidVars, salaryVars>>)

MarketNext ==
    \/ MarketCalls
    \/ SalaryCalls /\ Rest(<<>>)
    \/ ConditionalTransfers
    \/ DonationsToContract

MarketSpec == Init /\ [][MarketNext]_vars

\* No salary is minted once an oracle has finished.
NoLateMint ==
    (\E o \in Oracles : oracleFinished[o]) =>
        \A n \in ConditionIds : totals'[Condition(n)] = totals[Condition(n)]

FixedSupplySpec == Init /\ [][MarketNext /\ NoLateMint]_vars

\* Nothing is donated from, or assigned to, another account.
DonatedToContractNext ==
    \/ MarketCalls
    \/ SalaryCalls /\ Rest(<<>>)
    \/ DonationsToContract

DonatedToContractSpec == Init /\ [][DonatedToContractNext]_vars
=============================================================================
