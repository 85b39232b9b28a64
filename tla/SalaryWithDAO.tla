--------------------------- MODULE SalaryWithDAO ---------------------------
(***************************************************************************)
(* SalaryWithDAO.sol, the contract that is deployed: every external call of  *)
(* it and of the contracts it inherits from, and the specification.          *)
(***************************************************************************)
EXTENDS BaseRestorableSalary

CONSTANTS
    Customers,       \* bound: the addresses that get registered
    ControlChoices,  \* bound: the choices made about DAO control
    DAOs,            \* addresses the DAO plugin may have
    DefaultDAO       \* the address of DefaultDAOInterface, which refuses everything

ASSUME DAOAssumption ==
    Customers \subseteq Addresses /\ ControlChoices \subseteq BOOLEAN /\ DefaultDAO \in DAOs

VARIABLES
    daoPlugin,
    underDAOControl,
    accountHasSalary

daoVars == <<daoPlugin, underDAOControl, accountHasSalary>>

vars == <<baseVars, accountVars, daoVars>>

DAOTypeOK ==
    /\ daoPlugin \in DAOs
    /\ underDAOControl \subseteq Addresses
    /\ accountHasSalary \subseteq Addresses

\* Every variable keeps its type.
TypeOK ==
    /\ TokenTypeOK
    /\ LockTypeOK
    /\ BidTypeOK
    /\ SalaryTypeOK
    /\ AccountTypeOK
    /\ DAOTypeOK

Init ==
    /\ TokenInit
    /\ LockInit
    /\ BidInit
    /\ SalaryInit
    /\ AccountInit
    /\ daoPlugin \in DAOs
    /\ underDAOControl = {}
    /\ accountHasSalary = {}

-----------------------------------------------------------------------------
\* checkAllowed(Un)restoreAccount: the account is under DAO control and the
\* plugin, external, does not refuse.
DAOMayAllow(old) == old \in underDAOControl /\ daoPlugin # DefaultDAO

\* registerCustomer.
RegisterCustomer(customer, underControl) ==
    /\ RegisterSalary(OriginalAddress(customer))
    /\ accountHasSalary' = accountHasSalary \cup {customer}
    /\ underDAOControl' = IF underControl THEN underDAOControl \cup {customer}
                                          ELSE underDAOControl \ {customer}
    /\ UNCHANGED <<accountVars, daoPlugin>>

\* Mutant of SetDAOControl: an account without a salary may choose too.
SetDAOControlUnchecked(sender, underControl) ==
    /\ underDAOControl' = IF underControl
                            THEN underDAOControl \cup {OriginalAddress(sender)}
                            ELSE underDAOControl \ {OriginalAddress(sender)}
    /\ UNCHANGED <<baseVars, accountVars, daoPlugin, accountHasSalary>>

SetDAOControl(sender, underControl) ==
    LET orig == OriginalAddress(sender)
    IN  /\ orig \in accountHasSalary
        /\ underDAOControl' = IF underControl THEN underDAOControl \cup {orig}
                                              ELSE underDAOControl \ {orig}
        /\ UNCHANGED <<baseVars, accountVars, daoPlugin, accountHasSalary>>

\* Only the plugin itself can call it; the default one calls nothing.
SetDAO(dao) ==
    /\ daoPlugin # DefaultDAO
    /\ daoPlugin' = dao
    /\ UNCHANGED <<baseVars, accountVars, underDAOControl, accountHasSalary>>

-----------------------------------------------------------------------------
TokenCalls ==
    \E sender \in Users :
        \/ \E operator \in Users, approved \in BOOLEAN :
              /\ SetApprovalForAll(sender, operator, approved)
              /\ UNCHANGED <<lockVars, bidVars, salaryVars>>
        \/ \E from, to \in Addresses, t \in Tokens, v \in Amounts :
              SafeTransferFrom(sender, from, to, t, v)
        \/ \E from, to \in Addresses, t1, t2 \in Tokens, v1, v2 \in Amounts :
              SafeBatchTransferFrom(sender, from, to, t1, v1, t2, v2)

SalaryCalls ==
    \/ \E sender \in Users, n \in ConditionIds :
          MintSalary(sender, n, CurrentAddress(sender))
    \/ \E n \in ConditionIds : MintReturns(n) \/ RecreateCondition(n)

OracleCalls ==
    \E sender \in Users :
        \/ /\ \/ CreateOracle(sender)
              \/ \E o \in Oracles, a \in Addresses : ChangeOracleOwner(sender, a, o)
              \/ \E o \in Oracles, time \in Deadlines : UpdateGracePeriodEnds(sender, o, time)
           /\ UNCHANGED bidVars
        \/ \E o \in Oracles, t \in Scored, m \in Scores : ReportNumerator(sender, o, t, m)
        \/ \E o \in Oracles, t1, t2 \in Scored, m1, m2 \in Scores :
              ReportNumeratorsBatch(sender, o, t1, m1, t2, m2)
        \/ \E o \in Oracles : FinishOracle(sender, o)

CollateralCalls ==
    \E c \in Collaterals :
        \/ /\ \/ \E from \in Users, to \in Users \cup {This}, v \in Amounts :
                    CollateralTransfer(c, from, to, v)
              \/ \E o \in Oracles, v \in Amounts, from \in Users \cup {This}, to \in Addresses :
                    Donate(c, o, v, from, to)
              \/ \E o \in Oracles : GatherDeFiProfit(c, o)
           /\ UNCHANGED bidVars
        \/ \E sender \in Users, o \in Oracles, t \in Tokens : Withdraw(sender, c, o, t)

\* The plugin may refuse what it may allow.
AccountCalls ==
    \E sender \in Users, old, new \in Addresses :
        \E allowed \in IF DAOMayAllow(old) THEN BOOLEAN ELSE {FALSE} :
            \/ PermitRestoreAccount(sender, old, new, allowed)
            \/ DispermitRestoreAccount(old, new, allowed)
            \/ \E t \in Tokens : RestoreFunds(sender, old, new, t, allowed)
            \/ \E t1, t2 \in Tokens : RestoreFundsBatch(sender, old, new, t1, t2, allowed)

DAOCalls ==
    \/ \E customer \in Customers, underControl \in ControlChoices :
          RegisterCustomer(customer, underControl)
    \/ \E sender \in Users, underControl \in ControlChoices : SetDAOControl(sender, underControl)
    \/ \E dao \in DAOs : SetDAO(dao)

Next ==
    \/ Answered /\ Tick /\ UNCHANGED <<bidVars, salaryVars, accountVars, daoVars>>
    \/ TokenCalls /\ UNCHANGED <<accountVars, daoVars>>
    \/ SalaryCalls /\ UNCHANGED <<accountVars, daoVars>>
    \/ OracleCalls /\ UNCHANGED <<salaryVars, accountVars, daoVars>>
    \/ CollateralCalls /\ UNCHANGED <<salaryVars, accountVars, daoVars>>
    \/ AccountCalls /\ UNCHANGED daoVars
    \/ DAOCalls

Spec == Init /\ [][Next]_vars
=============================================================================
