--------------------------- MODULE DepositSnapshot ---------------------------
(***************************************************************************)
(* deposit_snapshot.py (EIP-4881): the Merkle tree of the deposit contract,  *)
(* its pruning, and the snapshot another client restores it from.            *)
(*                                                                         *)
(* Hashes are symbolic: sha256 is an injective pairing.  A value of the      *)
(* hash type is a tuple: <<>> is 32 zero bytes, <<i>> the root of deposit i,  *)
(* <<n, 0, 0>> the length n in 32 bytes, and a pair is a hash.               *)
(*                                                                         *)
(* A tree is the object at each of its places.  A method that recurses is a  *)
(* function of the place it is at: upwards from the children for what it      *)
(* returns, down from the parent for what it is called with.                  *)
(***************************************************************************)
EXTENDS Integers, Sequences

CONSTANT Depth  \* DEPOSIT_CONTRACT_DEPTH, 32 in the code

ASSUME DepthAssumption == Depth \in Nat \ {0}

Sha256(l, r) == <<l, r>>
ToLeBytes(n) == <<n, 0, 0>>
DepositRoot(i) == <<i>>

zerohashes[level \in 0..(Depth - 1)] ==
    IF level = 0 THEN <<>> ELSE Sha256(zerohashes[level - 1], zerohashes[level - 1])

-----------------------------------------------------------------------------
(* Places: a level above the leaves, and the number of subtrees of that      *)
(* level to the left.                                                        *)

\* 2**level, the deposits that a subtree of a level has room for.
Size[level \in 0..Depth] == IF level = 0 THEN 1 ELSE 2 * Size[level - 1]

Places == UNION {{level} \X (0..(Size[Depth - level] - 1)) : level \in 0..Depth}
Top == <<Depth, 0>>
Left(p) == <<p[1] - 1, 2 * p[2]>>
Right(p) == <<p[1] - 1, 2 * p[2] + 1>>
Parent(p) == <<p[1] + 1, p[2] \div 2>>

\* The first deposit of a subtree, and the first one after it.
First(p) == p[2] * Size[p[1]]
Beyond(p) == First(p) + Size[p[1]]

Within(p, q) == p[1] <= q[1] /\ First(q) <= First(p) /\ First(p) < Beyond(q)

\* index >> level, the place on the way to a deposit.
Toward(index, level) == <<level, index \div Size[level]>>
Sibling(p) == <<p[1], IF p[2] % 2 = 1 THEN p[2] - 1 ELSE p[2] + 1>>

-----------------------------------------------------------------------------
(* Merkle trees: the four classes, and their methods by cases. *)

Absent == [kind |-> "Absent"]
Zero(n) == [kind |-> "Zero", n |-> n]
Leaf(hash) == [kind |-> "Leaf", hash |-> hash]
Finalized(count, hash) == [kind |-> "Finalized", deposit_count |-> count, hash |-> hash]
Node == [kind |-> "Node"]   \* left and right are at the places below it

EmptyTree == [p \in Places |-> IF p = Top THEN Zero(Depth) ELSE Absent]

\* get_root of each subtree.
Roots(tree) ==
    LET root[p \in Places] ==
          CASE tree[p].kind = "Node" -> Sha256(root[Left(p)], root[Right(p)])
            [] tree[p].kind = "Zero" -> IF tree[p].n = Depth
                                          THEN Sha256(zerohashes[Depth - 1], zerohashes[Depth - 1])
                                          ELSE zerohashes[tree[p].n]
            [] OTHER -> tree[p].hash
    IN  root

\* Mutant of IsFull: a subtree is full as soon as its left half is.
HalfFull(tree) ==
    LET full[p \in Places] == \/ tree[p].kind \in {"Leaf", "Finalized"}
                              \/ tree[p].kind = "Node" /\ full[Left(p)]
    IN  full

\* is_full of each subtree.
IsFull(tree) ==
    LET full[p \in Places] == \/ tree[p].kind \in {"Leaf", "Finalized"}
                              \/ tree[p].kind = "Node" /\ full[Right(p)]
    IN  full

\* Where push_leaf is called: to the left unless that half is full.
Entered(tree) ==
    LET full == IsFull(tree)
        entered[p \in Places] ==
          \/ p = Top
          \/ /\ p # Top
             /\ entered[Parent(p)]
             /\ tree[Parent(p)].kind = "Node"
             /\ \/ p = Left(Parent(p)) /\ ~full[p]
                \/ p = Right(Parent(p)) /\ full[Left(Parent(p))]
    IN  entered

\* create([leaf], level), the only way the code calls create with leaves: the
\* leaf is the first one below `at`, and all beside the way to it is zero.
Create(leaf, at) ==
    [p \in {p \in Places : Within(p, at)} |->
        CASE First(p) = First(at) /\ p[1] = 0 -> Leaf(leaf)
          [] First(p) = First(at) /\ p[1] > 0 -> Node
          [] First(p) # First(at) /\ First(Parent(p)) = First(at) -> Zero(p[1])
          [] OTHER -> Absent]

\* Zero.push_leaf.  A full tree has no push_leaf: the callers never reach one.
PushLeaf(tree, leaf) ==
    LET entered == Entered(tree)
        zero == CHOOSE p \in Places : entered[p] /\ tree[p].kind = "Zero"
        new == Create(leaf, zero)
    IN  [p \in Places |-> IF p \in DOMAIN new THEN new[p] ELSE tree[p]]

\* Whether finalize returns a Finalized in place of a node.  A leaf is finalized
\* whatever the count.
Replaced(node, level, count) ==
    \/ node.kind = "Leaf"
    \/ node.kind = "Node" /\ Size[level] <= count

\* Mutant of EntersRight: the right half is entered for nothing.
EntersRightAtHalf(count, half) == count >= half

EntersRight(count, half) == count > half

NotCalled == -1
Dropped == -2    \* below what was replaced

\* The count that finalize is called with at each place.
Calls(tree, count) ==
    LET called[p \in Places] ==
          IF p = Top THEN count
          ELSE IF tree[p].kind = "Absent" THEN NotCalled
          ELSE LET q == Parent(p)
                   above == called[q]
                   half == Size[p[1]]
               IN  IF above < 0 THEN above
                   ELSE IF Replaced(tree[q], q[1], above) THEN Dropped
                   ELSE IF p = Left(q) THEN above
                   ELSE IF EntersRight(above, half) THEN above - half ELSE NotCalled
    IN  called

\* Zero has no finalize: it is the whole tree when it is called, whose result
\* the caller drops.
Finalize(tree, count) ==
    LET called == Calls(tree, count)
        root == Roots(tree)
    IN  [p \in Places |->
          IF called[p] = Dropped THEN Absent
          ELSE IF called[p] # NotCalled /\ Replaced(tree[p], p[1], called[p])
                 THEN Finalized(Size[p[1]], root[p])
                 ELSE tree[p]]

FoundNone == [count |-> 0, result |-> <<>>]
FoundIn(node) == [count |-> node.deposit_count, result |-> <<node.hash>>]
FoundBoth(l, r) == [count |-> l.count + r.count, result |-> l.result \o r.result]

\* get_finalized of each subtree: the number of finalized deposits, and their
\* hashes in `result`.
Found(tree) ==
    LET found[p \in Places] ==
          IF tree[p].kind = "Finalized" THEN FoundIn(tree[p])
          ELSE IF tree[p].kind = "Node" THEN FoundBoth(found[Left(p)], found[Right(p)])
          ELSE FoundNone
    IN  found

GetFinalized(tree) == Found(tree)[Top]

NoCall == [finalized |-> <<>>, deposits |-> -1]

\* What from_snapshot_parts is called with at each place; the code writes out
\* the calls whose result is at hand.
Parts(finalized, deposits) ==
    LET call[p \in Places] ==
          IF p = Top THEN [finalized |-> finalized, deposits |-> deposits]
          ELSE LET above == call[Parent(p)]
                   half == Size[p[1]]
               IN  IF above.finalized = <<>> \/ above.deposits \in {-1, 0, 2 * half}
                     THEN NoCall
                   ELSE IF p = Left(Parent(p))
                     THEN [finalized |-> above.finalized,
                           deposits |-> IF above.deposits <= half THEN above.deposits ELSE half]
                   ELSE IF above.deposits <= half
                     THEN [finalized |-> <<>>, deposits |-> 0]
                     ELSE [finalized |-> Tail(above.finalized), deposits |-> above.deposits - half]
    IN  call

\* from_snapshot_parts: what a call returns, at its place.
Parsed(call, level) ==
    IF call = NoCall THEN Absent
    ELSE IF call.finalized = <<>> \/ call.deposits = 0 THEN Zero(level)
    ELSE IF call.deposits = Size[level] THEN Finalized(call.deposits, Head(call.finalized))
    ELSE Node

FromSnapshotParts(finalized, deposits) ==
    LET call == Parts(finalized, deposits)
    IN  [p \in Places |-> Parsed(call[p], p[1])]

\* Mutant of GenerateProof: the siblings are left in the order they are met in.
ProofTopDown(tree, index) ==
    LET root == Roots(tree)
    IN  [leaf |-> root[Toward(index, 0)],
         proof |-> [k \in 1..Depth |-> root[Sibling(Toward(index, Depth - k))]]]

\* generate_proof: the leaf, and the siblings on its path from the bottom up.
GenerateProof(tree, index) ==
    LET root == Roots(tree)
    IN  [leaf |-> root[Toward(index, 0)],
         proof |-> [k \in 1..Depth |-> root[Sibling(Toward(index, k - 1))]]]

Bit(n, i) == (n \div Size[i]) % 2

\* merkle_root_from_branch, as the tests verify a proof.
MerkleRootFromBranch(leaf, branch, index) ==
    LET root[i \in 0..Len(branch)] ==
          IF i = 0 THEN leaf
          ELSE IF Bit(index, i - 1) = 1 THEN Sha256(branch[i], root[i - 1])
                                        ELSE Sha256(root[i - 1], branch[i])
    IN  root[Len(branch)]

-----------------------------------------------------------------------------
(* Snapshots and deposit trees. *)

\* calculate_root: a finalized hash is taken, last one first, for every bit of
\* the count that is set.
HashedIn(finalized, s, level) ==
    IF s.size % 2 = 1
      THEN [size |-> s.size \div 2, index |-> s.index - 1,
            root |-> Sha256(finalized[s.index], s.root)]
      ELSE [size |-> s.size \div 2, index |-> s.index,
            root |-> Sha256(s.root, zerohashes[level])]

CalculateRoot(finalized, deposit_count) ==
    LET loop[level \in 0..Depth] ==
          IF level = 0
            THEN [size |-> deposit_count, index |-> Len(finalized), root |-> zerohashes[0]]
            ELSE HashedIn(finalized, loop[level - 1], level - 1)
    IN  Sha256(loop[Depth].root, ToLeBytes(deposit_count))

NoBlock == -1

\* A block is known by the number of deposits made when it was mined.
NewTree == [tree |-> EmptyTree, mix_in_length |-> 0, finalized_execution_block |-> NoBlock]

\* get_snapshot, for a tree that was finalized.
GetSnapshot(t) ==
    LET f == GetFinalized(t.tree)
    IN  [finalized |-> f.result, deposit_count |-> f.count,
         deposit_root |-> CalculateRoot(f.result, f.count),
         execution_block |-> t.finalized_execution_block]

\* Mutant of FromSnapshot: the replay starts from the first deposit.
FromSnapshotFromZero(s) ==
    [tree |-> FromSnapshotParts(s.finalized, s.deposit_count),
     mix_in_length |-> 0,
     finalized_execution_block |-> s.execution_block]

\* from_snapshot, whose assertion is SnapshotIsValid.
SnapshotIsValid(s) == s.deposit_root = CalculateRoot(s.finalized, s.deposit_count)

FromSnapshot(s) ==
    [tree |-> FromSnapshotParts(s.finalized, s.deposit_count),
     mix_in_length |-> s.deposit_count,
     finalized_execution_block |-> s.execution_block]

TreeRoot(t) == Sha256(Roots(t.tree)[Top], ToLeBytes(t.mix_in_length))

TreePush(t, leaf) ==
    [t EXCEPT !.mix_in_length = @ + 1, !.tree = PushLeaf(@, leaf)]

\* DepositTree.finalize: the tree is changed in place, and when finalize returns
\* another object (a Finalized whole tree) it is not kept.
TreeFinalize(t, deposit_count) ==
    [t EXCEPT !.finalized_execution_block = deposit_count,
              !.tree = IF Size[Depth] <= deposit_count THEN @
                       ELSE Finalize(@, deposit_count)]

\* get_proof, whose assertions are CanProve.
CanProve(t, index) ==
    t.mix_in_length > 0 /\ index > GetFinalized(t.tree).count - 1

TreeProof(t, index) ==
    LET p == GenerateProof(t.tree, index)
    IN  [p EXCEPT !.proof = Append(@, ToLeBytes(t.mix_in_length))]
=============================================================================
