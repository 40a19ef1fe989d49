--------------------------- MODULE CommitmentTree ---------------------------
(***************************************************************************)
(* What the pool relies on its commitment tree for                         *)
(* (contracts/src/MerkleTree.sol): leaves are appended, and after every    *)
(* leaf the root of the tree that holds it is known for ever.  A root is   *)
(* the sequence of the leaves of its tree.  Module MerkleTree, the         *)
(* incremental algorithm over hashes, implements this specification.       *)
(***************************************************************************)
EXTENDS Integers, Sequences

CONSTANTS Note,       \* what a leaf commits to
          MaxLeaves   \* MAX_LEAVES, the capacity of one tree

VARIABLES leaves,     \* all leaves ever inserted, in order, across trees
          knownRoots  \* every root ever produced

\* (mutant: the last leaf of a tree is already counted to the next one)
RootAfterEarlyRotation(lvs, n) == SubSeq(lvs, (n \div MaxLeaves) * MaxLeaves + 1, n)

\* The root after the first n leaves: the leaves of the tree that holds the
\* n-th one.  A full tree is followed by a new, empty one.
RootAfter(lvs, n) == SubSeq(lvs, ((n - 1) \div MaxLeaves) * MaxLeaves + 1, n)

InitTree == leaves = <<>> /\ knownRoots = {}

\* One _insert for each element of new.
Insert(new) ==
    /\ leaves' = leaves \o new
    /\ knownRoots' = knownRoots \cup
         {RootAfter(leaves', n) : n \in (Len(leaves) + 1)..Len(leaves')}

\* A circuit can lead exactly the leaves of a tree to its root.
InTree(note, root) == \E i \in DOMAIN root : root[i] = note

TreeSpec == InitTree /\ [][\E note \in Note : Insert(<<note>>)]_<<leaves, knownRoots>>
=============================================================================
