# Verification of the reference implementations in EIPs

The repository is a collection of proposals. Most of it is prose; the programs in it are the
reference implementations under `content/*/assets` and the workflows that run the site. This
project models those programs that keep state and have something to get wrong over time,
model-checks them with TLC and proves the main theorems with TLAPS.

Paths below are relative to the repository; `contracts/` is short for
`content/03267/assets/contracts/`.

## 1. Inventory

| Component | State | Operations | What is hard about it | What makes it correct |
|---|---|---|---|---|
| Token ledger (`contracts/ERC1155`) | balances, totals, approvals | mint, transfer, approve | a transfer to oneself; totals kept apart from balances | nothing is created by a transfer; only the owner spends |
| Collateral lock (`BaseLock.sol`) | oracles, grace periods, redeem map, last paid balances of two rounds | donate, gatherDeFiProfit, withdrawCollateral | users withdraw in any order, in two rounds whose border moves, from balances that move between withdrawals; an unchecked subtraction; rounding | no more is paid than was donated; counters are backed by collateral; redeemed tokens are not redeemed elsewhere |
| Oracle scores (`BaseBidOnAddresses.sol`) | finished flag, numerators, denominator | report (one, batch), finish | the denominator is kept by differences; reports race the finish | shares add up and are frozen by the finish |
| Salaries (`BaseSalary.sol`) | chains of conditions, dates, receivers | register, mint, recreate, transfer | anyone recreates anyone's condition at any time, also in the middle of a batch; a new condition takes over a date; a receiver with code is called before the date of its payment is written | each second is paid, and once unless its receiver calls while it is paid; a chain belongs to one person |
| Restoration and DAO (`BaseRestorableSalary.sol`, `SalaryWithDAO.sol`) | account links, DAO plugin, control flags | permit, dispermit, restore, register, setDAOControl, setDAO | three linked maps; the plugin may refuse; anyone registers anyone | control needs a salary; nothing is taken without a say |
| Deposit tree (`content/04881/assets/deposit_snapshot.py`) | a partly pruned Merkle tree, its length, the last finalized block | push_leaf, finalize, get_snapshot, from_snapshot, get_proof | pruning, snapshots and replays in any order by several clients; two algorithms that read the same list of hashes | the root is that of the deposit contract, proofs verify |
| CI pipeline (`.github/workflows/ci.yml`, `post-ci.yml`) | runs and their jobs, concurrency groups, artifacts, label and comment of a pull request | event, cancel, job, complete, fetch, comment, label | cancelled runs complete too; the runs that set the label have no concurrency group | the label agrees with the newest run; every event is judged or superseded; failures are reported |
| Review trigger (`review-trigger.yml`, `review.yml`) | runs, concurrency groups, artifacts | event, write and save the number, cancel, review | events without a pull request share one group; an event that asks for nothing cancels one that does | what asks for a review gets one or is superseded |
| Binary tree (`content/07745/assets/binary_tree.py`) | a tree of hashes, any of which may be absent | get, set, expand, collapse | invalidation stops at the first absent ancestor; expansion initialises optional containers and may be refused half-way | no cached hash is stale; the tree behaves as one without a cache |
| Log index (`content/07745/assets/log_index.py`) | the layout of a tree; a state machine on top of it | empty_node, addresses, add entries | case distinctions on the leading bits of an index | the layout is that of the SSZ types |
| Decimal arithmetic (`content/07543/assets`) | the loops of two series | DECADD, DECNEG, DECMUL, DECINV, DECEXP, DECLN, DECSIN on coefficient and exponent | normalisation, rounding, several forms of a number, words that wrap | results are the exact ones to the precision |
| Signature registry and precompile (`content/07932/assets`) | one call at a time | decode, charge, validate, verify | eight points of failure, each after another amount of gas; boundaries of r and s | the gas is what the tests say; no signature has a second form for the same address |
| Transaction conversion (`content/06404/assets`) | none | upgrade RLP to SSZ, validate, recover, hash | eleven payload classes; v of a legacy transaction encodes three things, each side by a formula of its own | nothing is lost; one SSZ form for each transaction |
| SSZ Optional (`content/06475/assets/optional.py`) | the backing of a view | construct, decode, serialize, set | None, Some(None) and empty elements have few bytes | one encoding and one root for each value |
| State byte cost (`content/08037/assets/quantization_analysis.ipynb`) | the best offset of a search | compute the cost, its boundaries, search | a ceiling, two truncations and an offset are undone to find a boundary | the boundaries are sharp, the offset is the best |
| Weak subjectivity calculator, typed data example, Yul scripts, publishing workflow, texts | none | | | no behaviour over time |

How they interact: the EIP-3267 contracts are one deployed contract by inheritance
(`ERC1155WithTotals` < `BaseLock` < `BaseBidOnAddresses` < `BaseSalary` < `BaseRestorableSalary` <
`SalaryWithDAO`). They share one state and call each other through virtual functions:
`BaseLock.withdrawCollateral` asks for `isOracleFinished` and `_calcRewardShare`,
`BaseLock._baseSafeTransferFrom` calls the `_doTransfer` that `BaseSalary` overrides,
`mintSalary` asks for `originalToCurrentAddress`. Outside are the contracts that hold the collateral, the
fixed-point library and the DAO plugin. Deposit trees of different clients interact through
snapshots. The workflows interact through the completed events of their runs and the artifacts they
upload. The log index asks the binary tree for nodes and gives it the values of empty ones. The precompile
and the validation of SSZ transactions use one signature registry. The remaining components are
independent.

## 2. Modules

The salary contract, in the order of inheritance; each module EXTENDS the one before it:

| Module | Source | Variables and actions |
|---|---|---|
| `ERC1155WithTotals` | `ERC1155.sol`, `ERC1155WithTotals.sol` | `balances`, `totals`, `operatorApprovals`; operators `Mint`, `Move`, action `SetApprovalForAll` |
| `BaseLock` | `BaseLock.sol` | oracles, payout records, `now`, the external `collateral`, and `paid`, the sum of the `CollateralWithdrawn` events; `CreateOracle`, `ChangeOracleOwner`, `UpdateGracePeriodEnds`, `Donate`, `GatherDeFiProfit`, `WithdrawCollateral`, `CollateralTransfer`, `Tick` |
| `BaseBidOnAddresses` | `BaseBidOnAddresses.sol` | scores; `ReportNumerator`, `ReportNumeratorsBatch`, `FinishOracle`, `Withdraw` |
| `BaseSalary` | `BaseSalary.sol` | chains, and `awaiting`, the payments whose receiver was called and has not answered; `MintSalary`, `MintReturns`, `RecreateCondition`, `RegisterSalary`, `SafeTransferFrom`, `SafeBatchTransferFrom` |
| `BaseRestorableSalary` | `BaseRestorableSalary.sol` | account links; `PermitRestoreAccount`, `DispermitRestoreAccount`, `RestoreFunds`, `RestoreFundsBatch` |
| `SalaryWithDAO` | `SalaryWithDAO.sol` | `RegisterCustomer`, `SetDAOControl`, `SetDAO`; `Init`, `Next`, `Spec` of the whole contract |
| `SalaryStream` | what a salary promises | the abstract specification: a stream begins once and a payment pays one token per second since the last (`Begin`, `Pay`); only a receiver that acts while it is paid may be paid again within that second (`PayAgain`) |
| `SalaryProperties` | | the properties of the contract, the refinement mapping to `SalaryStream` |
| `FiniteSums` | | sums over finite sets, with the lemmas about them |
| `SalaryProofs`, `SalaryHoldingsProofs`, `SalaryPayoutProofs` | | lemmas and theorems, each module on top of the one before it: the ledger and the contract, what accounts hold together, who loses it, what is paid |
| `MCSalary` | | constants for TLC and the specifications that restrict `Spec` |

An external call is one action, but for `mintSalary`: the EVM runs one call at a time and undoes a call that reverts, so a
guard is the conjunction of the `require`s, modifiers and SafeMath checks, and a reverted call
is no step. A call that composes several changes (a batch, a transfer that recreates, two
mints of a donation) is written with operators from a ledger record to the next one, and the action
installs the last. `mintSalary` writes the date of a payment (`BaseSalary.sol:92`) after the acceptance
check of the mint (`:91`) has called the receiver. To a receiver with code it is two actions: `MintSalary` mints, and
`MintReturns` writes the date once the receiver has answered. Between them any call may happen, another `mintSalary` of the same
condition included, while time stands still (`Answered`). A receiver that refuses reverts everything since its own call, which
is none of these steps. `PermitRestoreAccount` and `DispermitRestoreAccount` spell out the revert, because
in this code their guard is never met (see section 6) and an action that never happens would say
nothing.

The deposit tree: `DepositSnapshot` holds the algorithms, `DepositTree` the clients as a state machine with actions
`Deposit`, `Follow`, `FinalizeEth1Data`, `Restore`, and its properties; `MCDepositTree` its instance, `DepositTreeProofs`
the theorems. A tree is a function from places, a level and a number within it, to the object of one of the four classes that
is there, so that a method is a recursive function over the places: what it returns comes from the children (`Roots`,
`IsFull`, `Found`), what it is called with from the parent (`Entered`, `Calls`, `Parts`).
The reference is `PerfectRoots`, the hashes by definition over all `2^Depth` positions.

The workflows:

| Module | Source | Variables and actions |
|---|---|---|
| `CIPipeline` | `ci.yml`, `post-ci.yml` | jobs of every run, runs asked to stop, uploaded artifacts, the order of completion, the step of every post run, label and comments; `PullRequestEvent`, `StartRun`, `UploadArtifact`, `JobEnds`, `Complete`, `Fetch`, `AddComment`, `ChangeLabel` |
| `ReviewPipeline` | `review-trigger.yml`, `review.yml` | events, the step of every trigger run, artifacts, reviews; `Event`, `WritePRNumber`, `SavePRNumber`, `Cancel`, `Review` |
| `CIPipelineProofs` | | the theorem about the label |
| `MCWorkflows` | | both, one of them in a behaviour |

Runs, jobs, concurrency groups and artifacts are GitHub's: the modules model what the workflow files ask of it
(`cancel-in-progress`, `workflow_run` on `completed`), and leave open what it does not promise. Whether
completed events are served in order is a choice made once in `Init` (`inOrder`). The jobs that check a proposal are members of
`Jobs`; only the job that saves the metadata is told from the others, because `post-ci.yml` needs its artifact.

The Merkle trees:

| Module | Source | Variables and actions |
|---|---|---|
| `TreeShape`, `TreeContents` | what `binary_tree.py` promises | `root`, the last `call` and whether it `raised`; `Get`, `Set`, `Expand`, `Collapse`, `Refuse`: what each call does to a tree that caches and forgets nothing, and what `btree_get` returns |
| `BinaryTree` | `binary_tree.py` | `data`, the nodes that are present, `raised`, and `call`, the last call with its arguments and result; `Get`, `Set`, `Expand`, `Collapse`, each with everything it caches, expands or invalidates on its way, also when it then raises |
| `GeneralizedIndex`, `LogIndexLayout` | `binary_tree.py`, `log_index.py` | the functions on indices and `log_index_empty_node`, walked from the root down beside the SSZ type of each node |
| `OptionalView` | `content/06475/assets/optional.py` | the type and backing of a view; `New`, `Decode`, `Set` |
| `BinaryTreeProofs` | | theorems about `BinaryTree` and its refinement |
| `MCMerkle` | | all three, one of them in a behaviour |

The decimals: `DecimalFloat` (a coefficient and an exponent in a word of `Width` bits, every operation wrapping as the 256-bit
word does), `DecimalFunctions` (the loops of the functions, one term at a time), `DecimalRegister` (a contract
that computes with one register, an action per opcode) and `FixedPoint`, what the opcodes promise. `MCDecimal` is the instance.

The signatures:

| Module | Source | Variables and actions |
|---|---|---|
| `AlgorithmRegistry` | `content/07932/assets/algorithm_registry` | operators only; recovery is a constant operator (`ecdsa_recover`), keys and addresses are tuples |
| `Sigrecover` | `content/07932/assets/precompile.py` | `pc`, `input`, `gas`, `output`; `Call`, `Decode`, `Charge`, `ValidateSignature`, `Verify`, `Return` |
| `RlpTransactions`, `SszTransactions`, `TransactionConversion` | `content/06404/assets` | operators: hashes, payload classes, validation, upgrade and recovery |
| `Transactions` | the same | a node that takes transactions in both formats; `ReceiveRlp`, `ReceiveSsz`, `upgrade_rlp_transaction_to_ssz`, `Validate`, `Done` |
| `SignaturesProofs` | | theorems about the conversion and about the precompile |
| `MCSignatures` | | the inputs; both state machines |

The cost of state: `StateByteCost` (the cost, its boundaries and their distance), `OffsetSearch` (the search, one offset a
step), `GasLimitWalk` (blocks that move the gas limit), `MCQuantization` (both).

`MCWorkflows`, `MCMerkle`, `MCSignatures` and `MCQuantization` put parts side by side that share no state, and let
a behaviour be of one of them. Nothing is lost by that, because no step of one part
reads or writes a variable of another, and no state is spent on interleavings that mean nothing. Parts that do interact, the inherited
contracts, the two workflows of a chain, the clients of a deposit tree, are composed step by step.

### Abstractions

- Accounts of users are externally owned or have code (`Contracts`). What the acceptance check of a receiver with code calls is left open, as any calls at
  that point. It is an action of its own only where the contract changes its state after it, which is `mintSalary`: a transfer makes it last,
  where whatever is called is like a later call. `donate` makes it between its mints and the pull of the collateral; donations
  assigned to an account with code are left out (`to \notin Contracts`). The contract itself receives through
  `ERC1155Holder`, which accepts. Payments under way at a time answer in any order, since all write the same
  date, and `MaxNested` bounds how many there are of a condition.
- The collateral contract moves balances when the sender has them; approvals there are taken as given.
  ABDKMath64x64 computes with the unit `FixedOne` (2^64 in the library) and rounds down.
  The factor 10^18 by which `mintSalary` scales seconds is taken as 1: no property depends on the unit.
- A token ID is a tagged tuple. The code hashes the parameters of a donation counter; distinct tuples
  stand for no collisions, and conditional IDs stay below 2^64.
- `uint256` arithmetic does not overflow within the bounds; SafeMath's subtractions are guards; the
  unchecked subtraction of `_collateralOwingBase` is a plain subtraction, and `LastWithinDonations`
  says that it never goes below zero.
- A batch has two elements, which may be the same token twice.
- Condition 0 is never created, but the maps of the code answer for it, so it is in `ConditionIds`.
- Hashes of the deposit tree are symbolic: pairing is injective, so equal roots mean equal trees.
- Hashes of the binary tree and of SSZ are pairs: injective, and what is hashed can be read off.
- The binary tree has 3 levels in the run (`GTI_MAX_LEVEL` 8), where the code has 255; a container is a node whose empty
  value is zero. Zero is the empty tuple, which no hash is. Callers set leaves and expand a node that is present or lies in an untouched region, as `log_index.py` does; an
  `AssertionError` ends the behaviour.
- The widths of the log index are small powers of two; indices are unbounded, as in Python.
- Keccak is symbolic. Recovery of a key is a constant operator, of which `RecoveryAssumption` says what holds on any curve of odd prime order: for
  one r, two signatures of a digest have one key exactly if they are the same or opposite (`N - s`, `1 - y_parity`). A key may sign the same data
  with another nonce, which gives another r; nothing is assumed or shown of that. The run computes with a group of order 7.
  The group order, 2^8, 2^64 and 2^256 are small numbers that keep
  their order; every field of a transaction has a value of its own.
- The gas of the decimal opcodes is not counted. `Width` is 28: products of the operands fit, powers of ten above it wrap.
- The steps of a post run call GitHub's API and are taken to succeed.
- A block is known by the number of deposits it saw; the passing run gives a client Eth1Data
  that saw at least one deposit and does not go back, as the finality of the beacon chain guarantees.

## 3. Runs

Constants that bound a run of the salary contract: `MaxCondition`, `MaxOracle`, `MaxTime`, `MaxDonated`, `Amounts`,
`MaxNested`, `Deadlines`, `Scores`, `Scored`, `Customers`, `ControlChoices`, `Wealth`. The others are named in the table. The bounds
end every behaviour, which is why most runs do not check deadlock; the contract itself has no
state in which all calls revert (time passes). `workflows` and `signatures` check deadlock: a pull request whose runs are
all served may stay as it is, and that is a step of its own (`AllDone`).

| Run | Question | Bounds and why they are enough |
|---|---|---|
| `salary_chain` | Is every second paid, and once where the receiver cannot call, whatever is recreated, transferred or batched? Do chains belong to one person? Does the contract implement `SalaryStream`? (`SalaryOncePerSecond`, `ChainsAgree`, `ChainConserved`, `ImplementsStream`) | `ChainSpec`; two users, each of whom may be registered any number of times, one of them a contract; 3 conditions: a chain of three, or a chain of two beside another's; 3 seconds: a mint before and after a recreation; amounts 0 and 1; `MaxNested` 2: a payment within a payment |
| `salary_accounts` | Who can take what? Does every call keep the types, and subtract nothing below zero? (`OnlyOwnerSpends`, `ControlNeedsSalary`, `TypeOK`) | two users who may approve each other, both registered or not, under DAO control or not, a plugin that refuses and one that may allow |
| `redeem_locks` | Is a redeemed token gathered elsewhere, by transfer, batch or recreation? Do scores add up, and freeze? (`LockedTokensNotGathered`, `DenominatorIsSum`, `SharesFrozen`) | the full `Spec`; two users, two conditions, one oracle, scores 1 and 2, one of them replaced by the other, alone and in a batch that scores one token twice |
| `donations` | Are the counters backed, and what is owed never below zero? (`CountersBacked`, `LastWithinDonations`) | two oracles, profit of 1 or 2 gathered for each, a deadline before and after `now`, so that a user meets the rounds in either order |
| `fixed_supply` | Are payments within donations when no salary is minted after the finish? (`PaidWithinDonations`) | two users who hold tokens of two conditions, transfer and withdraw in any order; `FixedOne` 4 gives halves and quarters |
| `late_mint` | `PaidWithinDonations` with mints after the finish: violated | as `fixed_supply` |
| `deposit_tree` | Do two clients that push, prune and restore from each other in any order agree with the contract? (`RootsAgree`, `SnapshotIsEth1Data`, `UnfinalizedProvable`, `EarlierVersions`) | depth 4 and 9 deposits, so that both halves of the tree are entered: finalized lists of up to three hashes and the boundaries of subtrees of all sizes but the whole; clients are symmetric |
| `workflows` | Does the label tell how the newest event ended? Is every event judged, every failure reported, every review done? (`LabelTellsHead`, `HeadIsJudged`, `FailureReported`, `ReviewedOrSuperseded`) | `MaxEvents` 3: a run that supersedes one and is superseded by another; `MaxUnordered` 2 where post runs overtake each other; `MaxReviewEvents` 2, of two pull requests and all five kinds: supersession takes two |
| `merkle` | Is a cached hash ever stale, does the tree behave as one without a cache, and what does a refused call leave? (`InvalidatedUpwards`, `CachedIsFresh`, `RefusalKeepsRoot`, `ContentsSpec`) Is the layout that of the types? (`LayoutAgrees`, `ExpansionKeepsHash`) Does every optional have one encoding and one root? (`RootsTellValues`, `OneEncoding`) | 3 levels with an optional container within another, four leaves; every path of a log index of height up to 13, which ends in the leaves of each type; `VIEW CallsAside` leaves `call`, which no guard reads, out of the fingerprint of a state: `ContentsSpec` is checked on every step all the same; the inside of topics is left out (section 6); optionals nested three deep and all byte strings of up to five of four bytes |
| `signatures` | What does a call of the precompile cost, whatever fails? (`GasAsTested`) Has the signature of an address a second form? (`AddressesUnique`) Is the conversion lossless, decided by the signatures, and canonical? (`Lossless`, `UpgradedIsDecidedBySignatures`, `OneSszForm`, `SigHashIsOfPayload`) | scalars at and next to 0, half the order and the order; lengths at and next to each limit; every type of transaction, chain 0 and 1, v at each boundary; every SSZ payload class with every type_ claimed |
| `quantization` | Is the offset of the proposal the one the search finds? (`OffsetIsBest`) Are the boundaries sharp and the cost monotone and stable? (`BoundariesAreSharp`, `CostFollowsLimit`, `CostIsStable`) | the numbers of the notebook, all 10001 offsets; `MaxBlocks` 10, where the least distance is 9.1 blocks; walks start from the limits of the table, from where the raw cost passes a power of two, and from 556 and 557 million, on either side of the limit (556,074,058) from which the steps are twice as coarse |
| `decimal_ops` | Do the opcodes implement fixed-point arithmetic? (`ImplementsFixedPoint`) | `MaxCalls` 3: an operation on the result of an operation; six operands: each form of a number; precisions 0 to 3 |

Four specifications in `MCSalary` take only some of the calls, to keep the instances small where the
others do not matter: `ChainSpec` takes the calls of salaries and the transfers that users make of what they hold; `MarketSpec` leaves out account restoration and the change of an oracle's owner, reduces transfers to
those of conditional tokens by their owner, and donates only to the contract; `FixedSupplySpec` adds the premise that
nothing is minted after the finish; `DonatedToContractSpec` leaves transfers out, and says that donations are
assigned to the contract and come from users. Without these premises the properties are false: `late_mint` shows it
for the one, and `donate`, which accepts the contract itself as the donor, makes it so for the other.

### Refinements

- `ImplementsStream`: the salary contract implements `SalaryStream`, checked and proved; the mapping takes a payment to be made when it is minted
  (`PaidUntil`), the date it leaves to be written afterwards being a stutter.
- `ContentsSpec`: `BinaryTree` implements `TreeContents`, checked and proved; the mapping takes the root a caller would read, the last call and
  whether it raised. Both sides name the call of a step and its arguments, so that each step of `BinaryTree` must be the step that
  `TreeContents` has for that call.
- `ImplementsFixedPoint`: `DecimalRegister` implements `FixedPoint`; the mapping takes a decimal, in whatever form, to its
  thousandths. The terms of a series are stutters. A sum, product or reciprocal is exact but for the digits below the
  precision, an exponential or logarithm is near the true one at the points of a table.

### Fairness

`CIPipeline` and `ReviewPipeline` assume weak fairness of each run's own steps: GitHub's runners take every queued run, start
every completed event's run and end every job, which has a time limit. The fairness of a job's end does not say how it
ends. No fairness is assumed of events: nobody has to push.

Nothing else assumes fairness. The steps of the contract are transactions, those of the trees and the precompile are calls, and
somebody may choose not to make them, so nothing there must happen.

Each property has a mutant in `PROJECT.json`: a small change of the model, such as a dropped guard or a stale read,
defined just before the definition it mutates, under which TLC finds the property violated.

## 4. Theorems

`SalaryProofs` proves, for all values of the constants that satisfy the named assumptions
(`AddressAssumption`, `CodeAssumption`, `NestedAssumption`, `FiniteAssumption`, `BoundAssumption`, `LockAssumption`, `ScoreAssumption`, `DAOAssumption`), with
`SalaryHoldingsProofs` and `SalaryPayoutProofs` on top of it:

| Theorem | Statement |
|---|---|
| `Invariance` | `Spec => []Inv` |
| `TypeCorrect` | `Spec => []TypeOK` |
| `PaidOncePerSecond` | `Spec => []SalaryOncePerSecond` |
| `ChainsBelongTogether` | `Spec => []ChainsAgree` |
| `DividendsNeverWrap` | `Spec => []LastWithinDonations` |
| `FinishedSharesFrozen` | `Spec => SharesFrozen` |
| `ControlComesWithSalary` | `Spec => []ControlNeedsSalary` |
| `ContractImplementsStream` | `Spec => ImplementsStream` |
| `DenominatorsAreSums` | `Spec => []DenominatorIsSum` |
| `ChainsConserved` | `Spec => []ChainConserved` |
| `DonationsWereReceived` | `DonatedToContractSpec => []CountersBacked` |
| `AccountsNeverLinked` | `Spec => []LinksBlank` |
| `RedeemedNotGathered` | `Spec => LockedTokensNotGathered` |
| `OwnersSpend` | `Spec => OnlyOwnerSpends` |
| `SecondRoundNeverStarts` | `Spec => []FirstRoundOnly` |
| `PaymentsWithinDonations` | `Init /\ [][Next /\ NoLateMint]_vars => []PaidWithinDonations`, where `Scored \subseteq Conditions` |
| `MarketPaysWithinDonations` | `FixedSupplySpec => []PaidWithinDonations`, where `Scored \subseteq Conditions` |

The assumptions say that the addresses of the contract and `address(0)` are not users, that users and collaterals are
finitely many, that the accounts with code are some of the users, that bounds are natural numbers, that `FixedOne` is positive, and that inputs are of their types.

Why a strengthening is needed. The types are not inductive: `mintSalary` subtracts a date from the
time and `withdrawCollateral` one counter from another. `Inv` therefore adds `LastWithinDonations`
and `Chains`, which says of every condition that was not created that nothing is recorded for it
(`Blank`), and of every created one that it leads to a first one of the same person (`Rooted`), what
it was paid (`PaidUp`), and that only a first one with a receiver that has code awaits an answer (`Asked`). `PaidUp` gives an equation for a receiver without
code and an inequality for one with code, to whom the seconds since the last written date may be minted again. The point the argument turns on is `MintedIsFirst`: `mintSalary` accepts
the condition that `firstToLastConditionInChain` names as the last one, and because that map is
set on creation and never again, only the first condition of a chain passes the check. So a recreated
condition, which carries a copy of the payment date, is never paid. If `_recreateCondition` maintained the map as its comment says,
`SalaryOncePerSecond` and the proof would have to be revised.

Layout. The first part of `SalaryProofs` proves what the ledger operators do: a transfer changes balances only or
adds one condition to a chain (`TransferCases`); adding a condition keeps `Chains` (`OneMoreKeepsChains`). A batch follows
by using these twice. Then come frame lemmas for the calls that leave a part alone,
one lemma per group of calls, and one step per call. The refinement has a lemma per kind of stream step
(`RegisterBegins`, `MintPays`, `StartKept`). Streams are of the receiver at the time of registration, who is found through links that
are never made: `LinksBlank` (`AccountsNeverLinked`) says that a payment goes to the receiver itself.

What accounts hold together (`SalaryHoldingsProofs`). These properties compare sums over accounts, tokens and conditions, so the
lemmas of `FiniteSums` come first: a sum over a finite set is the sum over a part of it and over the rest, one
changed summand changes it by the difference, moving an amount from one summand to another leaves it. The library defines the sum by a fold, a recursion that picks
an element of the set. Its induction theorems take an operator and cannot be instantiated, so `FiniteSums` proves induction for sets
of numbers and of finite sets (membership in a set in place of a predicate), and from it that the recursion has a solution.
`ChainConserved` by itself is not inductive: a recreation adds a condition to a chain, and one that already held something would
bring it in. `Conserved` adds that of a condition not yet created nothing is held, and speaks of the chain of every number, created or not.
`CountersBacked` is not inductive either: gathering a profit mints two counters, and a donation to the contract is
taken from what it has. `AssignedToContract` says that the contract itself holds all that is counted, which is what the premise of the run
is for: a counter held by another account may be transferred. `DonatedToContractIsNext` shows
that the premise only leaves calls out.

Who loses what another gains (`SalaryHoldingsProofs`, second part). Both properties are about steps, and both fail if an account may be linked to
another one, since then restoring it moves its tokens. `LinksBlank` is inductive because the guard of `PermitRestoreAccount` asks
for the link it is to make. Under it restoring funds only ever moves tokens of an account to itself or to the zero address, and the lemmas on single
transfers say for each call that a gain is matched by the loss of one account that has not redeemed, and that a loss within a chain is
the sender's.

What is paid (`SalaryPayoutProofs`). `PaidWithinDonations` says that what was paid of a collateral for an oracle is at most what
was donated to it. A payment is the rounded product of a donation, the share of a condition among the scores, and the share of the user in
that condition, each read at the time of the withdrawal. Between two withdrawals the balances move, more is donated, and conditions are
recreated. That balances add up to a supply (`Conserved`) says nothing of the sum of payments made at different times.

The invariant says instead that *somehow* the payments were due (`Covered`): there is a count `G` of the tokens of every
user such that (`Entitled`) a user's balance counts in full, and what counts of a condition over all users is at most what was minted of
it, and (`PaymentsDue`) what was paid is at most the sum over the users of the last donations they were paid for times the weight
of what counts for them. The point is that a token that was redeemed goes on counting for the account that redeemed it; it
cannot be sent on, so it counts for no other (this is where `RedeemedNotGathered` comes from). `DueIsDonated` derives the property:
the weights of all users are at most one, by exchanging the sum over users with the one over conditions (`SumSwap`), twice
rounding down. Every call then has to give a new count: a transfer moves what counts along (`MoveEntitles`), a recreation counts
only the first condition of a chain, which is what scores and supplies are of (`RecreateEntitles`), a withdrawal
raises a user's last donation and pays at most the difference times the weight (`WithdrawDue`), a mint is counted for its receiver, before
the finish, when nothing was paid yet (`MintEntitles`, `NoLateMint`). TLC checked the invariant on the instance of `fixed_supply` first.

The premises. `NoLateMint` is needed: `late_mint` is the counterexample. Scores are of conditions (`Scored \subseteq
Conditions`): `reportNumeratorsBatch` takes the conditions as `uint64`, which no counter of donations is, but
`reportNumerator` takes a `uint256`, so the contract leaves it to the owner of the oracle. Nothing else is assumed: the theorem is of all calls of `Next`,
restorations, batches and donations by or to anybody included, which the run leaves out. The proof
shows that the second round does not matter, for a reason the code does not intend: `FirstRoundOnly`, nothing was ever recorded to divide by
(section 6), so a withdrawal after the grace period reverts.

`CIPipelineProofs` proves `LabelOfNewestEvent`, `Spec => []LabelTellsHead`, for any jobs and any number of events
(`PipelineAssumption`: one of the jobs saves the metadata). The label is a fact about the last post run, and it takes a chain of
facts to know which that is. `Ordered`: a run starts when all older ones have completed, so the newest is the last
to complete. `NewestLast`: it is the last of the list. `Served`: when events are served in order, a post run begins when
all before it are done. `Labelled`: so once that of the newest run is done, no other one changes the label, and it says how
that run ended. `Inv` is their conjunction with the types; one lemma per action shows that it is kept.

`SignaturesProofs` proves of the precompile, for any lengths, scalars and data (`LengthAssumption`), `GasOfEveryCall`
(`SigrecoverSpec => []GasAsTested`), `OneSignaturePerAddress` (`SigrecoverSpec => []AddressesUnique`, with
`RecoveryAssumption` of the curve: of the two forms that a key can give by one r, validation lets through the one with s in the lower half) and
`OneSignerOfDataAndHash`: a hash given as signing data has the signer of the data it is the hash of. The invariant
says for every `pc` what was checked and charged before.

It proves four theorems of the conversion, for any transactions that decode (`TransactionAssumption`: the fields of the
type, natural numbers, SSZ numbers within their widths), any widths (`RangeAssumption`) and any order of the group (`OrderAssumption`):

| Theorem | Statement |
|---|---|
| `UpgradeLossless` | `Spec => []Lossless` |
| `SignaturesDecide` | `Spec => []UpgradedIsDecidedBySignatures` |
| `SszFormIsUnique` | `Spec => []OneSszForm` |
| `SignedIsPayload` | `Spec => []SigHashIsOfPayload` |

Their invariant (`ConversionInvariant`) says where the transaction in hand is from, and that a verdict is that of validation. The
work is in the functions: `UpgradeRecovered` (recovering undoes upgrading, by a case per type), `WireKept` (upgrading
undoes recovering, where validation and unpacking accept, of a blob transaction up to what its classes declare), `UpgradeValidated`, and `TypedSigned` and `LegacySigned`, which
compare what is hashed to sign with the payload. They show what each check of the code is for: `WireKept` needs the type in the payload, the magic, and the
nonzero chain of an authorization (a zero chain would be upgraded to the other class); `LegacyV` needs v from 35 on
(`CanUpgrade` refuses a negative chain). `Lossless` supposes `CanRecover`, that the code gets through recovering at all, which it does
not for every v (section 6).

`BinaryTreeProofs` proves, for a tree of any number of nodes (`TreeAssumption`: at least one leaf; it need not be a power of two), any
containers, any values but the one that stands for an absent node (`ValueAssumption`) and any nodes touched (`TouchedAssumption`):

| Theorem | Statement |
|---|---|
| `TreeInvariance` | `Spec => []Inv`: after calls that did not raise, `TreeOK` |
| `InvalidationComplete` | `Spec => []InvalidatedUpwards` |
| `CachesFresh` | `Spec => []CachedIsFresh` |
| `RefusalsKeepRoot` | `Spec => RefusalKeepsRoot` |
| `TreeImplementsContents` | `Spec => ContentsSpec` |

`TreeOK` says four things of the nodes that are present: they are nodes and hold values (`Typed`); a node that is absent above a
present one has no present ancestor (`Connected`, which is `InvalidatedUpwards`); a present node has both children or none, and is their
hash if it has them (`Hashed`); once something is present, the root can be read (`Rooted`). `Connected` by itself is not
inductive: were one leaf the only node present, expanding a node in the other half of the tree would write the leaf's ancestor that is
the sibling of a new node, and not those between. `Rooted` excludes it. TLC checked `Inv` on the instance of `merkle` first.
From `TreeOK`, reading is the same with and without the cached nodes (`GetChangesNothing`, `CachedIsReadable`), so a
hash cached by `AfterGet` is the one that would be computed, and dropping ancestors whose descendants stay, or descendants
of a node that stays, changes nothing that a caller reads.

The definitions are recursive functions over nodes. The proofs unfold them by induction over the nodes from the leaves up, or from the root down for
`Above`, as an induction on a set of numbers, and argue about ancestors with the line they form: of two ancestors of one node, one is
above the other. The refinement has a lemma per call; it compares `At` of the root, top down, with what is read, bottom up: `At` gives each node what `NodeIn`
reads at it, or its empty value under an empty container; `Put` then rebuilds exactly the ancestors that `AfterSet` and
`AfterExpand` invalidate.

`DepositTreeProofs` proves of the deposit tree, for any depth (`DepthAssumption`), any set of clients and any number of deposits that the contract
takes (`DepositAssumption`, at most `2^Depth - 1`):

| Theorem | Statement |
|---|---|
| `TreesAreDetermined` | `Spec => []DepositInv` |
| `PrunedRootsAgree` | `Spec => []RootsAgree` |
| `SnapshotsAreEth1Data` | `Spec => []SnapshotIsEth1Data` |
| `UnfinalizedAreProvable` | `Spec => []UnfinalizedProvable` |
| `EarlierVersionsRestored` | `Spec => []EarlierVersions` |

None of the four properties is inductive, since equal roots say little of the objects below. `DepositInv` says that the tree of a
client is determined by two numbers, the deposits it saw and those it finalized: it is `Pruned(f, m)`, in which a place
is present if it is the top or a half of a subtree that has a deposit and has one, or room for one, that is not finalized
(`Split`). So the order of pushes, prunings and restorations leaves no trace, which is what makes a snapshot
enough. TLC checked `DepositInv` at depth 3 first. There is a lemma per method. `RootsPruned`: what is present has the hash of the perfect tree.
`PushPruned`: pushing deposit `m` into `Pruned(f, m)` gives `Pruned(f, m + 1)`; the zero subtree that
is entered is the one that begins at `m`. `FinalizePruned`: finalizing `c` deposits, `f <= c <= m`, gives `Pruned(c, m)`. `FinalizedFound`:
`get_finalized` lists `PartsOf(f)`, the hashes of the largest full subtrees before `f`, at most one of a level (`PartsLength`).
`CalculatedRoot`: the loop over the bits of the count goes up the way to the first deposit that is not finalized, taking a
hash from the list where the way comes from the right. `ParsedPruned`: parsing that list gives `Pruned(f, f)`.
`BranchChecks`: a proof is checked along the same way, because what is beside the way to an unfinalized deposit is present (`WayPresent`).
Each method is recursive, so each lemma is one about a step (`RootStep`, `CallStep`, ...), a solution of the
recursion that satisfies it, and an induction over places, upwards or downwards (`PlacesUp`, `PlacesDown`), that there is no other.

Model-checked only, and why:

- The liveness properties (`HeadIsJudged`, `FailureReported`, `ReviewedOrSuperseded`): the prover does not reason about fairness.
- The layout, the optionals and the decimals: facts about what recursive definitions over types, bytes and digits compute.
- The cost of state bytes: it holds of the given numbers, by computation.

## 5. Plan

Done, in this order: the salary contract and its theorems; the deposit tree; the workflows, with liveness; the binary tree
with its refinement, the layout of the log index; the pure algorithms (decimals, registry, conversion, optional, cost), each as the
state machine of its caller; the label and the precompile proved.

Proved since: what accounts hold together and who loses it, and the conversion of transactions.

Proved last: the binary tree with its refinement, that payments stay within donations, and the deposit tree, whose algorithms were
written as functions over places for that.

Left: the bounds of the cost of a state byte (`BoundariesAreSharp`, `CostIsStable`) for other numbers than the given ones.

## 6. What the code does otherwise than it says

Shown by the run `late_mint`: a share is a balance over the supply at the time of each withdrawal. Minting goes on after the
finish, so a user who withdraws before a mint and another who withdraws after it, in the same round, are paid more than was
donated, although `BaseLock.sol:480` says "no out-of-funds".

Formulas that the modules keep at their end, not in a run, because the code does not satisfy them. Named in the cfg given, each has a
counterexample of a few steps (those of `LogIndexLayout`, `OptionalView` and `ReviewPipeline` through the instance that
the MC module has of them):

| Formula | Cfg | What happens |
|---|---|---|
| `SalaryProperties.TotalIsSupply` | `SalaryChain` | A recreation moves balances and leaves totals (`BaseSalary.sol:177`): the new token has supply 0, by which a withdrawal divides. |
| `SalaryProperties.FirstRoundRecorded` | `FixedSupply` | `usersWithdrewInFirstRound` grows in the second round (`BaseLock.sol:258`), not in the first. It starts at 0 and divides in the second round, where the division reverts: after the grace period nobody is paid. |
| `LogIndexLayout.VectorItemsFound`, `AddressesExist` | `Merkle` | `root << height + index` is `root << (height + index)` (`binary_tree.py:134`, and `:143` likewise), so that `index_entry_gti`, `map_row_gti` and `prog_list_chunk_gti` give nodes that are not in the tree. |
| `LogIndexLayout.ColumnTellsValue` | `Merkle` | The same in `get_column_index` (`log_index.py:376`). |
| `OptionalView.ByteLengthAgrees` | `Merkle` | `value_byte_length` does not count the marker byte (`optional.py:68`) and asks an undefined name for the length of an element of variable size (`:70`). |
| `OptionalView.SetTakesEffect` | `Merkle` | `set` from None to a value, or back, calls `to_gindex`, which is not imported (`optional.py:83`). |
| `ReviewPipeline.PullRequestReviewed` | `Workflows` | A comment, or a bot's event, cancels a trigger run of its group that was to ask for a review, and asks for none itself; comments on all issues share one group (`review-trigger.yml:17`). |
| `Sigrecover.FailureIsReturned` | `Signatures` | Verification raises the library's exception for an r that is no x-coordinate; the precompile catches only `AssertionError` (`precompile.py:28`). |
| `Transactions.AcceptedIsIdentified` | `Signatures` | Validation accepts a signature with further bytes, which `secp256k1_unpack` refuses (`registry.py:53`): the accepted transaction has no hash. |
| `Transactions.ConversionLossless` | `Signatures` | A legacy transaction with v from 2^256 on is upgraded, since half of it fits, and its v cannot be computed again in 256 bits (`tx_hashes.py:9`). |
| `Transactions.UpgradedAsDeclared` | `Signatures` | The priority fees of a blob transaction are upgraded to `BlobFeesPerGas` with a blob fee of 0 (`convert.py:88`), where its payload declares `BasicFeesPerGas` (`ssz_types.py:229`). `OneSszForm` therefore compares what the declared classes read (`AsDeclared`) for this type, the transactions themselves for the others. |
| `DecimalRegister.SinAccurate` | `DecimalOps` | The power of the series starts at 1, not at the argument (`decimal_float.go:182`, `:188`). |
| `DecimalRegister.LnOfPositive` | `DecimalOps` | DECLN of 0 returns a number (`decimal_float.go:128`). |

Read in the code while modelling:

- `firstToLastConditionInChain` is documented as the last condition of a chain (`BaseSalary.sol:69`) and is
  never updated by a recreation; `Rooted` and `MintedIsFirst` prove it.
- A recreation moves a balance locked by a withdrawal to a token that is not locked (`BaseSalary.sol:176`), while
  `BaseLock.sol:231` says it cannot be transferred any more. `LockedTokensNotGathered` is what remains true. An earlier form
  of it, about every account that redeemed, was violated beyond its bounds: a receiver who redeemed may still move
  another's tokens to himself as an operator.
- `donate` accepts the contract itself as the donor, so collateral that is there already is counted again (`BaseLock.sol:159`).
- `restoreFunds` of an account to itself leaves it nothing (`BaseRestorableSalary.sol:83`).
- `permitRestoreAccount` requires the new account to be linked already (`BaseRestorableSalary.sol:117`) and is the only function that
  links accounts, so no account can ever be linked.
- `Leaf.finalize` ignores the count (`deposit_snapshot.py:151`): Eth1Data that saw no deposit finalizes the first one.
- Served out of order, the label of an older run may stay (`post-ci.yml:55`), which is why `LabelTellsHead` supposes `inOrder`; a run
  that ends before its metadata is uploaded leaves the label of an earlier one.
- `log_entry_empty_node` hands the function for topics the index relative to the entry, where it expects the one relative to the
  topics (`log_index.py:616`), so that it answers for another node, or raises; `merkle` does not descend there.
- A caller that catches the `AssertionError` of a refused expansion and goes on may find the root unreadable (`binary_tree.py:92`):
  the nodes written before the refusal stay.
- The state machine of the log index does not get through a call: `LogIndexState` lacks `@dataclass`, `advance_index` calls
  `collapse_map` without the log index, `log_index_add_log_entries` shadows `log_index`, a call has one argument too many
  (`log_index.py:329`), and `add_to_filter_maps` never increments `layer_index`.
- A legacy transaction with v below 35 other than 27 and 28 is refused, one with s in the upper half is upgraded and then
  found invalid; `calculate_transaction_intrinsic_gas` calls `get_signature_gas_cost` without the hash it needs.
- `TestDecLn` (`decimal_float_test.go:294`) expects 0.5849609375 for the logarithms of 1, 0.5 and 11 alike. `DECLN` computes the true ones to its
  precision, which is what `LnPoints` of `FixedPoint` asks; the test does not compile, since `eq` lacks its gas argument (`:303`).
- A contract that receives a salary and mints again from its acceptance callback is paid the same seconds again (`BaseSalary.sol:91`): the
  equation of `SalaryOncePerSecond` is for receivers without code.
- Decimals: a reciprocal whose exponent exceeds the precision panics (`:82`), a sum of 0 and a number with a large exponent
  wraps (`:384`), rounding leaves trailing zeros although a comment says the form is normal (`:416`), and DECLN with 0 steps recurses without end.
- Below a gas limit of about 12.2 million the cost of a state byte is clamped at 1 (`quantization_analysis.ipynb`).

## 7. Not modelled

- `BidOnAddresses.sol` (not deployed, and it cannot create an oracle), `_burn` and the batch forms of mint and burn (internal, called by nothing),
  URIs and interface detection (no protocol state), `setURI` of the DAO, donations assigned to an account with code, gas.
- The state machine of the log index: no call of it completes in the code as it is (section 6), so there is no behaviour to be
  faithful to.
- The gas of the decimal opcodes, and the Yul scripts that use them: straight-line arithmetic.
- The notebook's search over the parameters of the step size, its tables of prices and its printing.
- The weak subjectivity calculator: one closed formula, whose products exceed the 32-bit integers of TLC.
- The typed data example, the publishing workflow, the texts and the site: no behaviour over time.

`PROJECT.json` lists each component with its reason and every hazard with the properties that cover it.
