----------------------------- MODULE MerkleHash -----------------------------
(***************************************************************************)
(* Merkle trees as the contract, the circuits, the sequencer and the SDK   *)
(* define them: the full tree that is the reference, paths through it, and *)
(* the root a path leads to.  The node hash is injective: it is the pair   *)
(* of its arguments.                                                       *)
(***************************************************************************)
EXTENDS Integers, Sequences

CONSTANTS
    Zero,        \* the empty leaf
    Undefined,   \* what reading outside an array gives in JavaScript
    ShiftWidth   \* the width of a shift of numbers: 32 in JavaScript

\* 1 << n, also computed as 2 ** n and by halving an index n times.  It is
\* written as a recursive function, which proofs can be about.
Pow2(n) == LET p[i \in 0..n] == IF i = 0 THEN 1 ELSE 2 * p[i - 1] IN p[n]

\* poseidon2_merkle
Hash(left, right) == <<left, right>>

\* Hashes of empty subtrees, by level.
Zeros(depth) ==
    LET z[i \in 0..depth] == IF i = 0 THEN Zero ELSE Hash(z[i - 1], z[i - 1]) IN z

\* buildMerkleTree: all nodes of the tree over the leaves, padded with Zero,
\* level by level.
FullTree(lvs, depth) ==
    LET level[d \in 0..depth] ==
          [i \in 0..(Pow2(depth - d) - 1) |->
              IF d > 0 THEN Hash(level[d - 1][2 * i], level[d - 1][2 * i + 1])
              ELSE IF i < Len(lvs) THEN lvs[i + 1] ELSE Zero]
    IN level

FullRoot(lvs, depth) == FullTree(lvs, depth)[depth][0]

-----------------------------------------------------------------------------
\* The SDK's tree (buildMerkleTree), with the size it computes by a shift

\* 1 << depth: the count is taken modulo the width, the result is signed.
ShiftedOne(depth) ==
    LET count == depth % ShiftWidth
    IN IF count = ShiftWidth - 1 THEN -Pow2(count) ELSE Pow2(count)

Entry(lvl, i) == IF i \in DOMAIN lvl THEN lvl[i] ELSE Undefined

\* (mutant: the neighbour is always the next node)
BuiltSiblingNext(index) == index + 1

BuiltSibling(index) == IF index % 2 = 0 THEN index + 1 ELSE index - 1

\* All levels; an array of negative size throws.
BuildMerkleTree(lvs, depth) ==
    LET size == IF Len(lvs) > ShiftedOne(depth) THEN Len(lvs) ELSE ShiftedOne(depth)
        level[d \in 0..depth] ==
          IF d = 0
          THEN [i \in 0..(size - 1) |-> IF i < Len(lvs) THEN lvs[i + 1] ELSE Zero]
          ELSE [i \in {j \div 2 : j \in DOMAIN level[d - 1]} |->
                   Hash(Entry(level[d - 1], 2 * i), Entry(level[d - 1], 2 * i + 1))]
    IN IF ShiftedOne(depth) < 0 THEN [d \in 0..depth |-> <<>>] ELSE level

BuiltRoot(lvs, depth) == Entry(BuildMerkleTree(lvs, depth)[depth], 0)

BuiltProof(lvs, depth, index) ==
    [siblings |-> [d \in 0..(depth - 1) |->
                      Entry(BuildMerkleTree(lvs, depth)[d], BuiltSibling(index \div Pow2(d)))],
     bits |-> [d \in 0..(depth - 1) |-> (index \div Pow2(d)) % 2]]

-----------------------------------------------------------------------------
\* Whether a node is a right child, by the bits of its index.
Bits(index, depth) == [d \in 0..(depth - 1) |-> (index \div Pow2(d)) % 2]

\* (mutant: the path index is ignored)
ParentIgnoringBit(node, sibling, bit) == Hash(node, sibling)

Parent(node, sibling, bit) ==
    IF bit = 0 THEN Hash(node, sibling) ELSE Hash(sibling, node)

\* compute_merkle_root: the root a leaf and a path lead to.
PathRoot(leaf, siblings, bits, depth) ==
    LET up[d \in 0..depth] ==
          IF d = 0 THEN leaf ELSE Parent(up[d - 1], siblings[d - 1], bits[d - 1])
    IN up[depth]

\* generateSparseProof: the path of a leaf in a tree whose other nodes are all
\* zero, at every level, and its root.
SparseProof(leaf, index, depth) ==
    LET siblings == [level \in 0..(depth - 1) |-> Zero]
    IN [root |-> PathRoot(leaf, siblings, Bits(index, depth), depth),
        siblings |-> siblings, bits |-> Bits(index, depth)]
=============================================================================
