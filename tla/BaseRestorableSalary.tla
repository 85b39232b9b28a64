------------------------ MODULE BaseRestorableSalary ------------------------
(***************************************************************************)
(* BaseRestorableSalary.sol: an account may be succeeded by another one, to  *)
(* which its tokens can then be moved.  `mayRestore` and `mayUnrestore` are  *)
(* the answers of the virtual checkAllowed functions to the sender.          *)
(***************************************************************************)
EXTENDS BaseSalary

VARIABLES
    originalAddresses,           \* Zero where the mapping holds nothing
    originalToCurrentAddresses,
    newToOldAccount

accountVars == <<originalAddresses, originalToCurrentAddresses, newToOldAccount>>

AccountTypeOK ==
    /\ originalAddresses \in [Addresses -> Addresses]
    /\ originalToCurrentAddresses \in [Addresses -> Addresses]
    /\ newToOldAccount \in [Addresses -> Addresses]

AccountInit ==
    /\ originalAddresses = [a \in Addresses |-> Zero]
    /\ originalToCurrentAddresses = [a \in Addresses |-> Zero]
    /\ newToOldAccount = [a \in Addresses |-> Zero]

baseVars == <<tokenVars, lockVars, bidVars, salaryVars>>

-----------------------------------------------------------------------------
\* _originalAddress and originalToCurrentAddress.
OriginalAddress(a) ==
    IF originalAddresses[a] # Zero THEN originalAddresses[a] ELSE a

CurrentAddress(a) ==
    IF originalToCurrentAddresses[a] # Zero THEN originalToCurrentAddresses[a] ELSE a

\* _avoidZeroAddressManipulatins.
AvoidsZero(old, new) ==
    /\ old # Zero
    /\ new # Zero
    /\ originalAddresses[new] # Zero
    /\ newToOldAccount[new] # Zero

\* checkMovedOwner: the loop follows newToOldAccount from `old` and must meet
\* `new` no later than the zero address.  A loop with no end runs out of gas.
MovedOwner(old, new) ==
    LET account[i \in Nat] == IF i = 0 THEN old ELSE newToOldAccount[account[i - 1]]
    IN  \E i \in 0..Cardinality(Addresses) :
            /\ account[i] = new
            /\ \A j \in 0..(i - 1) : account[j] # Zero

\* Move the whole balance of a token; on one account, the second assignment
\* undoes the first.
RestoreToken(b, old, new, t) ==
    LET moved == [b EXCEPT ![t][new] = b[t][old]]
    IN  [moved EXCEPT ![t][old] = 0]

-----------------------------------------------------------------------------
(* A call that reverts leaves everything unchanged.  Reverting is spelt out  *)
(* for the next two calls, which do nothing else when nothing was linked yet. *)

PermitRestoreAccount(sender, old, new, mayRestore) ==
    /\ IF (sender = old \/ mayRestore) /\ AvoidsZero(old, new)
         THEN /\ newToOldAccount' = [newToOldAccount EXCEPT ![new] = old]
              /\ originalAddresses' =
                   [originalAddresses EXCEPT ![new] = OriginalAddress(old)]
              /\ originalToCurrentAddresses' =
                   [originalToCurrentAddresses EXCEPT ![OriginalAddress(old)] = new]
         ELSE UNCHANGED accountVars
    /\ UNCHANGED baseVars

DispermitRestoreAccount(old, new, mayUnrestore) ==
    /\ IF mayUnrestore /\ AvoidsZero(old, new)
         THEN /\ newToOldAccount' = [newToOldAccount EXCEPT ![new] = Zero]
              /\ originalToCurrentAddresses' =
                   [originalToCurrentAddresses EXCEPT ![old] = Zero]
              /\ originalAddresses' = [originalAddresses EXCEPT ![new] = Zero]
         ELSE UNCHANGED accountVars
    /\ UNCHANGED baseVars

RestoreFunds(sender, old, new, t, mayRestore) ==
    /\ sender = new \/ mayRestore
    /\ MovedOwner(old, new)
    /\ balances' = RestoreToken(balances, old, new, t)
    /\ UNCHANGED <<totals, operatorApprovals, lockVars, bidVars, salaryVars, accountVars>>

RestoreFundsBatch(sender, old, new, t1, t2, mayRestore) ==
    /\ sender = new \/ mayRestore
    /\ MovedOwner(old, new)
    /\ balances' = RestoreToken(RestoreToken(balances, old, new, t1), old, new, t2)
    /\ UNCHANGED <<totals, operatorApprovals, lockVars, bidVars, salaryVars, accountVars>>
=============================================================================
