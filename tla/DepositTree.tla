----------------------------- MODULE DepositTree -----------------------------
(***************************************************************************)
(* Clients that follow the deposit contract, each at its own pace: they push *)
(* the deposits they see, prune what was finalized, and start over from a    *)
(* snapshot, their own after a restart or that of another client.            *)
(***************************************************************************)
EXTENDS DepositSnapshot

CONSTANTS
    Clients,
    MaxDeposits  \* bound: deposits made; the contract takes 2^Depth - 1

ASSUME DepositAssumption == MaxDeposits \in 0..(Size[Depth] - 1)

VARIABLES
    deposits,  \* deposits made in the contract; the i-th is DepositRoot(i), from 0
    trees      \* the DepositTree of each client

vars == <<deposits, trees>>

Init ==
    /\ deposits = 0
    /\ trees = [c \in Clients |-> NewTree]

Deposit ==
    /\ deposits < MaxDeposits
    /\ deposits' = deposits + 1
    /\ UNCHANGED trees

\* push_leaf, of the next deposit in the log.
Follow(c) ==
    /\ trees[c].mix_in_length < deposits
    /\ trees' = [trees EXCEPT ![c] = TreePush(@, DepositRoot(@.mix_in_length))]
    /\ UNCHANGED deposits

\* finalize, with the Eth1Data of a block that saw `count` deposits.
FinalizeEth1Data(c, count) ==
    /\ trees' = [trees EXCEPT ![c] = TreeFinalize(@, count)]
    /\ UNCHANGED deposits

\* from_snapshot(get_snapshot()): c starts over from the snapshot of d.
Restore(c, d) ==
    /\ trees[d].finalized_execution_block # NoBlock
    /\ SnapshotIsValid(GetSnapshot(trees[d]))
    /\ trees' = [trees EXCEPT ![c] = FromSnapshot(GetSnapshot(trees[d]))]
    /\ UNCHANGED deposits

\* Finalized Eth1Data saw a deposit, and only moves forward.
FinalizedCounts(t) ==
    {count \in 1..t.mix_in_length : count >= t.finalized_execution_block}

Next ==
    \/ Deposit
    \/ \E c \in Clients : Follow(c)
    \/ \E c \in Clients : \E count \in FinalizedCounts(trees[c]) : FinalizeEth1Data(c, count)
    \/ \E c, d \in Clients : Restore(c, d)

Spec == Init /\ [][Next]_vars

-----------------------------------------------------------------------------
(* The roots by definition: a perfect tree with a leaf for every place,      *)
(* those without a deposit holding zero.                                     *)

PerfectRoots(count) ==
    LET root[p \in Places] ==
          IF p[1] = 0 THEN IF p[2] < count THEN DepositRoot(p[2]) ELSE <<>>
          ELSE Sha256(root[Left(p)], root[Right(p)])
    IN  root

ContractRoot(count) == Sha256(PerfectRoots(count)[Top], ToLeBytes(count))

\* A tree that was pruned, restored and extended in any order has the root of
\* the contract for the deposits it has seen (get_root).
RootsAgree ==
    \A c \in Clients : TreeRoot(trees[c]) = ContractRoot(trees[c].mix_in_length)

\* A snapshot holds "the same information as the Eth1Data": the count and root
\* of the finalized block, in a list of at most Depth hashes (get_snapshot).
SnapshotIsEth1Data ==
    \A c \in Clients : trees[c].finalized_execution_block # NoBlock =>
        LET s == GetSnapshot(trees[c])
        IN  /\ s.deposit_count = s.execution_block
            /\ s.deposit_root = ContractRoot(s.execution_block)
            /\ Len(s.finalized) <= Depth

\* Pruning keeps what proofs need: a client can prove every deposit it has seen
\* and not finalized, against its own root (get_proof, check_proof).
UnfinalizedProvable ==
    \A c \in Clients : \A index \in 0..(trees[c].mix_in_length - 1) :
        index >= trees[c].finalized_execution_block =>
            LET p == TreeProof(trees[c], index)
            IN  /\ CanProve(trees[c], index)
                /\ p.leaf = DepositRoot(index)
                /\ MerkleRootFromBranch(p.leaf, p.proof, index) = TreeRoot(trees[c])

\* "Generating proofs for deposits against an earlier version of the tree": a
\* copy restored from the snapshot and extended to any count since has the root
\* the contract had then.
CopyAt(t, count) ==
    LET copy == FromSnapshot(GetSnapshot(t))
        grown[n \in 0..MaxDeposits] == IF n <= copy.mix_in_length THEN copy
                            ELSE TreePush(grown[n - 1], DepositRoot(n - 1))
    IN  grown[count]

EarlierVersions ==
    \A c \in Clients :
        \A count \in 1..trees[c].mix_in_length :
            count >= trees[c].finalized_execution_block
              /\ trees[c].finalized_execution_block # NoBlock
                => /\ TreeRoot(CopyAt(trees[c], count)) = ContractRoot(count)
                   /\ SnapshotIsValid(GetSnapshot(trees[c]))
=============================================================================
