----------------------------- MODULE BaseSalary -----------------------------
(***************************************************************************)
(* BaseSalary.sol: a salary of one token per second, minted on request.      *)
(* Whoever holds a salary may have it recalculated: a new condition joins    *)
(* the chain and takes over the receiver's balance.  A transfer sent by the  *)
(* receiver does so too.                                                     *)
(***************************************************************************)
EXTENDS BaseBidOnAddresses

CONSTANT MaxNested  \* bound: payments of one salary under way at a time

ASSUME NestedAssumption == MaxNested \in Nat

VARIABLES
    conditionCreationDates,
    lastSalaryDates,
    salaryReceivers,
    firstConditionInChain,
    firstToLastConditionInChain,
    awaiting  \* the payments of a salary whose receiver was called and has not answered

chainVars == <<conditionCreationDates, salaryReceivers, firstConditionInChain,
               firstToLastConditionInChain>>
salaryVars == <<chainVars, lastSalaryDates, awaiting>>

SalaryTypeOK ==
    /\ conditionCreationDates \in [ConditionIds -> Nat]
    /\ lastSalaryDates \in [ConditionIds -> Nat]
    /\ salaryReceivers \in [ConditionIds -> Addresses]
    /\ firstConditionInChain \in [ConditionIds -> ConditionIds]
    /\ firstToLastConditionInChain \in [ConditionIds -> ConditionIds]
    /\ awaiting \in [ConditionIds -> 0..MaxNested]

SalaryInit ==
    /\ conditionCreationDates = [n \in ConditionIds |-> 0]
    /\ lastSalaryDates = [n \in ConditionIds |-> 0]
    /\ salaryReceivers = [n \in ConditionIds |-> Zero]
    /\ firstConditionInChain = [n \in ConditionIds |-> 0]
    /\ firstToLastConditionInChain = [n \in ConditionIds |-> 0]
    /\ awaiting = [n \in ConditionIds |-> 0]

-----------------------------------------------------------------------------
\* Everything a transfer or a recreation can change.
Ledger == [balances |-> balances, maxConditionId |-> maxConditionId,
           conditionOwners |-> conditionOwners,
           conditionCreationDates |-> conditionCreationDates,
           lastSalaryDates |-> lastSalaryDates,
           salaryReceivers |-> salaryReceivers,
           firstConditionInChain |-> firstConditionInChain,
           firstToLastConditionInChain |-> firstToLastConditionInChain]

Install(s) ==
    /\ balances' = s.balances
    /\ maxConditionId' = s.maxConditionId
    /\ conditionOwners' = s.conditionOwners
    /\ conditionCreationDates' = s.conditionCreationDates
    /\ lastSalaryDates' = s.lastSalaryDates
    /\ salaryReceivers' = s.salaryReceivers
    /\ firstConditionInChain' = s.firstConditionInChain
    /\ firstToLastConditionInChain' = s.firstToLastConditionInChain
    /\ UNCHANGED <<totals, operatorApprovals, now, oracleVars, payoutVars,
                   collateral, bidVars, awaiting>>

IsFirstInChain(s, n) == s.firstConditionInChain[n] = n

IsLastInChain(s, n) ==
    s.firstToLastConditionInChain[s.firstConditionInChain[n]] = n

\* Mutant of EnsureLast: any condition will do.
EnsureNonZero(s, n) == n # 0

\* The modifiers ensureFirstConditionInChain and ensureLastConditionInChain.
EnsureFirst(s, n) == n # 0 /\ IsFirstInChain(s, n)
EnsureLast(s, n) == n # 0 /\ IsLastInChain(s, n)

\* _doCreateCondition, the condition being the first and last of its chain.
NewCondition(s, customer) ==
    LET n == s.maxConditionId + 1
    IN  [CreateCondition(s, customer) EXCEPT
           !.salaryReceivers[n] = customer,
           !.conditionCreationDates[n] = now,
           !.firstConditionInChain[n] = n,
           !.firstToLastConditionInChain[n] = n]

\* _recreateCondition.
CanRecreate(s, n) == EnsureFirst(s, n) /\ CanCreateCondition(s)

\* Mutant of Recreate: the receiver is that of the newest condition.
RecreateForNewest(s, n) ==
    LET new == s.maxConditionId + 1
    IN  [NewCondition(s, s.salaryReceivers[s.maxConditionId]) EXCEPT
           !.firstConditionInChain[new] = n]

Recreate(s, n) ==
    LET customer == s.salaryReceivers[n]
        old == s.firstToLastConditionInChain[n]
        new == s.maxConditionId + 1
    IN  [NewCondition(s, customer) EXCEPT
           !.firstConditionInChain[new] = n,
           !.balances[Condition(new)][customer] = s.balances[Condition(old)][customer],
           !.balances[Condition(old)][customer] = 0,
           !.lastSalaryDates[new] = s.lastSalaryDates[n]]

\* _doTransfer: a receiver who sends off the last token of his chain has the
\* condition recreated, and the transfer reverts when that does.
Recreates(s, sender, t) ==
    \E n \in ConditionIds : /\ t = Condition(n)
                            /\ n # 0
                            /\ s.salaryReceivers[n] = sender
                            /\ IsLastInChain(s, n)

CanTransfer(s, sender, t, from, v) ==
    /\ CanMove(s, t, from, v)
    /\ Recreates(s, sender, t) => CanRecreate(s, t[2])

Transfer(s, sender, t, from, to, v) ==
    LET moved == Move(s, t, from, to, v)
    IN  IF Recreates(s, sender, t) THEN Recreate(moved, t[2]) ELSE moved

-----------------------------------------------------------------------------
\* mintSalary up to the acceptance check of the mint.  A receiver with code is
\* called there, before the date of the payment is written, and may call the
\* contract, or have it called, before it answers; a receiver without code is
\* not, and the date is written in the same step.  A receiver that refuses
\* reverts all that came after its own call: none of it happened.  `to` is where
\* originalToCurrentAddress, virtual, says the sender lives now.
MintSalary(sender, n, to) ==
    LET last == firstToLastConditionInChain[n]
        s == Mint([balances |-> balances, totals |-> totals], to,
                  Condition(last), now - lastSalaryDates[n])
    IN  /\ EnsureLast(Ledger, n)
        /\ lastSalaryDates[n] # 0
        /\ conditionOwners[last] = sender
        /\ balances' = s.balances
        /\ totals' = s.totals
        /\ \/ /\ to \in Contracts
              /\ awaiting[n] < MaxNested
              /\ awaiting' = [awaiting EXCEPT ![n] = @ + 1]
              /\ UNCHANGED lastSalaryDates
           \/ /\ to \notin Contracts
              /\ lastSalaryDates' = [lastSalaryDates EXCEPT ![n] = now]
              /\ UNCHANGED awaiting
        /\ UNCHANGED <<operatorApprovals, lockVars, bidVars, chainVars>>

\* The rest of mintSalary, once the receiver has answered.  The payments under
\* way at a time end in any order here: all of them write the same date.
MintReturns(n) ==
    /\ awaiting[n] > 0
    /\ awaiting' = [awaiting EXCEPT ![n] = @ - 1]
    /\ lastSalaryDates' = [lastSalaryDates EXCEPT ![n] = now]
    /\ UNCHANGED <<tokenVars, lockVars, bidVars, chainVars>>

\* Time stands still within a transaction: it passes when no call is under way.
Answered == \A n \in ConditionIds : awaiting[n] = 0

RecreateCondition(n) ==
    /\ CanRecreate(Ledger, n)
    /\ Install(Recreate(Ledger, n))

\* Mutant of RegisterSalary: the salary starts before the registration.
RegisterBackdated(customer) ==
    /\ CanCreateCondition(Ledger)
    /\ Install([NewCondition(Ledger, customer) EXCEPT
                  !.lastSalaryDates[maxConditionId + 1] = 1])

\* _registerCustomer: anyone may register anyone; the oracle is not looked at.
RegisterSalary(customer) ==
    /\ CanCreateCondition(Ledger)
    /\ Install([NewCondition(Ledger, customer) EXCEPT
                  !.lastSalaryDates[maxConditionId + 1] = now])

\* _baseSafeTransferFrom, behind the check that `from` did not redeem.
BaseSafeTransferFrom(sender, from, to, t, v) ==
    /\ to # Zero
    /\ IsApproved(from, sender)
    /\ CanTransfer(Ledger, sender, t, from, v)
    /\ Install(Transfer(Ledger, sender, t, from, to, v))

SafeTransferFrom(sender, from, to, t, v) ==
    /\ IsUnlocked(from, t)
    /\ BaseSafeTransferFrom(sender, from, to, t, v)

\* _baseSafeBatchTransferFrom, for a batch of two; the locks of both are
\* checked before any transfer is made.
BaseSafeBatchTransferFrom(sender, from, to, t1, v1, t2, v2) ==
    LET first == Transfer(Ledger, sender, t1, from, to, v1)
    IN  /\ to # Zero
        /\ IsApproved(from, sender)
        /\ CanTransfer(Ledger, sender, t1, from, v1)
        /\ CanTransfer(first, sender, t2, from, v2)
        /\ Install(Transfer(first, sender, t2, from, to, v2))

SafeBatchTransferFrom(sender, from, to, t1, v1, t2, v2) ==
    /\ IsUnlocked(from, t1)
    /\ IsUnlocked(from, t2)
    /\ BaseSafeBatchTransferFrom(sender, from, to, t1, v1, t2, v2)
=============================================================================
