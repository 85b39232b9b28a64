------------------------- MODULE ERC1155WithTotals -------------------------
(***************************************************************************)
(* The multi-token ledger of EIP-3267 (ERC1155.sol, ERC1155WithTotals.sol): *)
(* balances per token and holder, operator approvals, and the running total *)
(* of each token.  Supplies are never burnt: nothing calls _burn.           *)
(*                                                                         *)
(* The contracts above this one compose several ledger changes in a single  *)
(* call, so a change is an operator from a ledger (a record) to a ledger    *)
(* and the action of a call installs the last one.                          *)
(***************************************************************************)
EXTENDS Naturals, FiniteSets

CONSTANTS
    Users,         \* the accounts that call the contract: every possible msg.sender
    Contracts,     \* those of them that have code, which an acceptance check calls
    This,          \* the address of the contract itself
    Zero,          \* address(0)
    Collaterals,   \* pairs (ERC-1155 contract, token ID) used as collateral
    MaxCondition,  \* bound: conditions created so far
    MaxOracle,     \* bound: oracles created so far
    Amounts        \* bound: amounts tried in transfers and donations

ASSUME AddressAssumption == This # Zero /\ This \notin Users /\ Zero \notin Users
ASSUME CodeAssumption == Contracts \subseteq Users
\* An address has 160 bits and a token ID 256.
ASSUME FiniteAssumption == IsFiniteSet(Users) /\ IsFiniteSet(Collaterals)
ASSUME BoundAssumption ==
    MaxCondition \in Nat /\ MaxOracle \in Nat /\ Amounts \subseteq Nat

Addresses == Users \cup {This, Zero}
Oracles == 1..MaxOracle

\* Condition IDs.  0 is never given out; the maps of the code hold 0 there.
ConditionIds == 0..MaxCondition

\* The three kinds of token ID: a conditional token (an ID below 2^64), and
\* the two donation counters, whose IDs are hashes of their parameters.
Condition(n) == <<"condition", n>>
PerOracle(c, o) == <<"perOracle", c, o>>
Donated(c) == <<"donated", c>>

Tokens == {Condition(n) : n \in ConditionIds}
            \cup {PerOracle(c, o) : c \in Collaterals, o \in Oracles}
            \cup {Donated(c) : c \in Collaterals}

VARIABLES
    balances,          \* _balances: token -> holder -> amount
    totals,            \* totalBalances: token -> amount
    operatorApprovals  \* _operatorApprovals: the pairs <<owner, operator>>

tokenVars == <<balances, totals, operatorApprovals>>

TokenTypeOK ==
    /\ balances \in [Tokens -> [Addresses -> Nat]]
    /\ totals \in [Tokens -> Nat]
    /\ operatorApprovals \subseteq Addresses \X Addresses

TokenInit ==
    /\ balances = [t \in Tokens |-> [a \in Addresses |-> 0]]
    /\ totals = [t \in Tokens |-> 0]
    /\ operatorApprovals = {}

-----------------------------------------------------------------------------
(* Ledger operators. *)

\* _doMint; the callers check that `to` is not the zero address.
Mint(s, to, t, v) ==
    [s EXCEPT !.balances[t][to] = @ + v, !.totals[t] = @ + v]

\* Mutants: the debit is not checked; the credit reads a stale balance; the
\* approval is not looked at.
CanMoveUnchecked(s, t, from, v) == TRUE

MoveStale(s, t, from, to, v) ==
    [s EXCEPT !.balances[t][from] = @ - v,
              !.balances[t][to] = s.balances[t][to] + v]

ApprovedUnchecked(from, sender) == TRUE

\* BaseLock._doTransfer, SafeMath's sub being CanMove: debit, then credit what
\* the debit left, so that a transfer to oneself changes nothing.
CanMove(s, t, from, v) == s.balances[t][from] >= v

Move(s, t, from, to, v) ==
    LET debited == [s EXCEPT !.balances[t][from] = @ - v]
    IN  [debited EXCEPT !.balances[t][to] = @ + v]

\* May `sender` move the tokens of `from`?
IsApproved(from, sender) == from = sender \/ <<from, sender>> \in operatorApprovals

-----------------------------------------------------------------------------
SetApprovalForAll(sender, operator, approved) ==
    /\ sender # operator
    /\ operatorApprovals' = IF approved
                              THEN operatorApprovals \cup {<<sender, operator>>}
                              ELSE operatorApprovals \ {<<sender, operator>>}
    /\ UNCHANGED <<balances, totals>>
=============================================================================
