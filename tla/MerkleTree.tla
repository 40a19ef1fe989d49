----------------------------- MODULE MerkleTree -----------------------------
(***************************************************************************)
(* The contract's incremental Merkle tree, contracts/src/MerkleTree.sol:   *)
(* one hash per level and insertion, the filled left subtrees kept for     *)
(* every tree, a new tree when the current one is full.  It is shown to    *)
(* implement CommitmentTree, which the pool is specified with.             *)
(***************************************************************************)
EXTENDS MerkleHash

CONSTANTS
    Leaf,        \* the commitments inserted
    Depth,       \* TREE_DEPTH
    MaxInserts   \* bound of the model

MAX_LEAVES == Pow2(Depth)
Tree == 0..(MaxInserts \div MAX_LEAVES)

ASSUME TreeAssumption ==
    /\ Zero \notin Leaf
    /\ Depth \in Nat \ {0} /\ MaxInserts \in Nat
    /\ ShiftWidth \in Nat \ {0}

VARIABLES
    filledSubtrees,    \* by tree and level, the last left node
    leafCounts,        \* by tree
    currentTreeIndex,
    totalLeaves,
    currentRoot,
    knownRoots,
    inserted           \* history: the leaves, in order

contractVars == <<filledSubtrees, leafCounts, currentTreeIndex, totalLeaves,
                  currentRoot, knownRoots, inserted>>

Init ==
    /\ filledSubtrees = [t \in Tree |-> [level \in 0..(Depth - 1) |-> Zero]]
    /\ leafCounts = [t \in Tree |-> 0]
    /\ currentTreeIndex = 0
    /\ totalLeaves = 0
    /\ currentRoot = Zero
    /\ knownRoots = {}
    /\ inserted = <<>>

\* (mutant: the node kept for a left child is the parent, one level too high)
ClimbStoringParent(from, level) ==
    LET up == Hash(from.node, Zeros(Depth)[level])
    IN IF from.index % 2 = 0
       THEN [node |-> up, index |-> from.index \div 2,
             filled |-> [from.filled EXCEPT ![level] = up]]
       ELSE [node |-> Hash(from.filled[level], from.node), index |-> from.index \div 2,
             filled |-> from.filled]

\* One round of the loop of _insert: a left child is stored and paired with
\* an empty subtree, a right child is paired with the stored left one.
Climb(from, level) ==
    IF from.index % 2 = 0
    THEN [node |-> Hash(from.node, Zeros(Depth)[level]), index |-> from.index \div 2,
          filled |-> [from.filled EXCEPT ![level] = from.node]]
    ELSE [node |-> Hash(from.filled[level], from.node), index |-> from.index \div 2,
          filled |-> from.filled]

IsFull(count) == count >= MAX_LEAVES

\* _insert
InsertLeaf(leaf) ==
    LET full == IsFull(leafCounts[currentTreeIndex])
        tree == IF full THEN currentTreeIndex + 1 ELSE currentTreeIndex
        index == IF full THEN 0 ELSE leafCounts[currentTreeIndex]
        climb[level \in 0..Depth] ==
            IF level = 0
            THEN [node |-> leaf, index |-> index, filled |-> filledSubtrees[tree]]
            ELSE Climb(climb[level - 1], level - 1)
        top == climb[Depth]
    IN
    /\ totalLeaves < MaxInserts
    /\ currentTreeIndex' = tree
    /\ filledSubtrees' = [filledSubtrees EXCEPT ![tree] = top.filled]
    /\ leafCounts' = [leafCounts EXCEPT ![tree] = index + 1]
    /\ totalLeaves' = totalLeaves + 1
    /\ currentRoot' = top.node
    /\ knownRoots' = knownRoots \cup {top.node}
    /\ inserted' = Append(inserted, leaf)

Next == \E leaf \in Leaf : InsertLeaf(leaf)

Spec == Init /\ [][Next]_contractVars

-----------------------------------------------------------------------------
\* Properties

TypeOK ==
    /\ currentTreeIndex \in Tree
    /\ leafCounts \in [Tree -> 0..MAX_LEAVES]
    /\ totalLeaves \in 0..MaxInserts
    /\ inserted \in Seq(Leaf)

\* The leaves of the tree that leaf n went to, up to leaf n.
Prefix(n) == SubSeq(inserted, ((n - 1) \div MAX_LEAVES) * MAX_LEAVES + 1, n)

\* The leaves a path to the current root can be found for (with the nodes of
\* the tree as siblings) are those of its tree, each one at its own index:
\* this is InTree of CommitmentTree, and every known root was current once.
ProvableAreInserted ==
    LET current == Prefix(totalLeaves)
        tree == FullTree(current, Depth)
        nodes == [level \in 0..(Depth - 1) |-> {tree[level][i] : i \in DOMAIN tree[level]}]
        paths == {s \in [0..(Depth - 1) -> UNION {nodes[d] : d \in DOMAIN nodes}] :
                    \A d \in DOMAIN s : s[d] \in nodes[d]}
    IN totalLeaves > 0 => \A index \in 0..(MAX_LEAVES - 1) :
         {leaf \in Leaf : \E s \in paths :
                            PathRoot(leaf, s, Bits(index, Depth), Depth) = currentRoot}
           = IF index < Len(current) THEN {current[index + 1]} ELSE {}

\* The SDK's buildMerkleTree builds the contract's tree, and its proofs lead
\* to the contract's root, exactly for the depths that its shift can compute
\* the size for; a depth of the shift's width, its default, is not one.  A
\* proof of generateSparseProof, "when only one deposit exists", leads to no
\* root of the contract, which pads with hashes of empty subtrees; only in a
\* tree of depth 1 there is no difference.
SdkTreeAgrees ==
    LET current == Prefix(totalLeaves) IN
    totalLeaves > 0 =>
        /\ \A depth \in 1..ShiftWidth :
               BuiltRoot(current, depth) = FullRoot(current, depth) <=> depth < ShiftWidth - 1
        /\ \A index \in 0..(Len(current) - 1) :
               LET proof == BuiltProof(current, Depth, index)
               IN PathRoot(current[index + 1], proof.siblings, proof.bits, Depth) = currentRoot
        /\ totalLeaves = 1 =>
               (SparseProof(inserted[1], 0, Depth).root \in knownRoots <=> Depth = 1)

\* The incremental tree implements the abstract one: every insertion is an
\* insertion there, and exactly the roots of its trees are known.
TreeLeaves == UNION {[1..n -> Leaf] : n \in 1..MAX_LEAVES}
RootOf == [lvs \in TreeLeaves |-> FullRoot(lvs, Depth)]
Abstract == INSTANCE CommitmentTree
    WITH Note <- Leaf, MaxLeaves <- MAX_LEAVES, leaves <- inserted,
         knownRoots <- {lvs \in TreeLeaves : RootOf[lvs] \in knownRoots}

ImplementsCommitmentTree == Abstract!TreeSpec
=============================================================================
