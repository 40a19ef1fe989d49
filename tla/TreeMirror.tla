----------------------------- MODULE TreeMirror -----------------------------
(***************************************************************************)
(* The sequencer's copy of the commitment tree,                            *)
(* packages/sequencer/src/tree.ts, next to the contract's: it inserts the  *)
(* contract's leaves in order, serves Merkle proofs from it, exports it to *)
(* disk (store.ts writes the file atomically) and imports it on a restart. *)
(* There is one tree only: it does not rotate.                             *)
(***************************************************************************)
EXTENDS MerkleTree

CONSTANT MirrorDepth   \* the depth the sequencer constructs its tree with

ASSUME MirrorAssumption == MirrorDepth \in Nat \ {0}

VARIABLES
    nodes,       \* the non-default nodes, by level and index
    leafCount,
    root,
    disk         \* the exported tree, or NoFile

mirrorVars == <<nodes, leafCount, root, disk>>

NoFile == [leafCount |-> 0, nodes |-> <<>>]

Default == Zeros(MirrorDepth)

\* getNode
Node(ns, level, index) ==
    IF <<level, index>> \in DOMAIN ns THEN ns[<<level, index>>] ELSE Default[level]

\* (mutant: writing a node drops the others of its level)
SetNodeForgetful(ns, level, index, value) ==
    [at \in {a \in DOMAIN ns : a[1] # level} \cup {<<level, index>>} |->
        IF at = <<level, index>> THEN value ELSE ns[at]]

\* setNode
SetNode(ns, level, index, value) ==
    [at \in DOMAIN ns \cup {<<level, index>>} |->
        IF at = <<level, index>> THEN value ELSE ns[at]]

Sibling(index) == IF index % 2 = 0 THEN index + 1 ELSE index - 1

MirrorInit ==
    /\ Init
    /\ nodes = <<>>
    /\ leafCount = 0
    /\ root = Default[MirrorDepth]
    /\ disk = NoFile

\* insert, of the next leaf of the contract; a full tree throws.
MirrorInsert ==
    LET leaf == inserted[leafCount + 1]
        climb[level \in 0..MirrorDepth] ==
            IF level = 0
            THEN [node |-> leaf, nodes |-> SetNode(nodes, 0, leafCount, leaf)]
            ELSE LET index == leafCount \div Pow2(level - 1)
                     from == climb[level - 1]
                     up == Parent(from.node, Node(from.nodes, level - 1, Sibling(index)), index % 2)
                 IN [node |-> up, nodes |-> SetNode(from.nodes, level, index \div 2, up)]
    IN
    /\ leafCount < Len(inserted)
    /\ leafCount < Pow2(MirrorDepth)
    /\ nodes' = climb[MirrorDepth].nodes
    /\ root' = climb[MirrorDepth].node
    /\ leafCount' = leafCount + 1
    /\ UNCHANGED <<contractVars, disk>>

\* export, to disk
Export ==
    /\ disk' = [leafCount |-> leafCount, nodes |-> nodes]
    /\ UNCHANGED <<contractVars, nodes, leafCount, root>>

\* (mutant: the root is left at that of the empty tree)
ImportedRootUnset(file) == Default[MirrorDepth]

\* The root after import is read from the top node.
ImportedRoot(file) ==
    IF file.leafCount > 0 THEN Node(file.nodes, MirrorDepth, 0) ELSE Default[MirrorDepth]

\* import, after a crash or a shutdown
Restart ==
    /\ nodes' = disk.nodes
    /\ leafCount' = disk.leafCount
    /\ root' = ImportedRoot(disk)
    /\ UNCHANGED <<contractVars, disk>>

MirrorNext ==
    \/ Next /\ UNCHANGED mirrorVars
    \/ MirrorInsert
    \/ Export
    \/ Restart

MirrorSpec == MirrorInit /\ [][MirrorNext]_<<contractVars, mirrorVars>>

-----------------------------------------------------------------------------
\* Properties

\* getProof: the path of a leaf, as served by GET /proof/:index.
Proof(index) ==
    [siblings |-> [level \in 0..(MirrorDepth - 1) |->
                      Node(nodes, level, Sibling(index \div Pow2(level)))],
     bits |-> Bits(index, MirrorDepth)]

\* GET /proofs?from=&to=, by leaf index; 503 while there is no leaf
GetProofs(from, to) ==
    [index \in from..(IF to < leafCount THEN to ELSE leafCount - 1) |-> Proof(index)]

\* A proof is served for every leaf of the mirror, also one that was inserted
\* before later leaves, an export and a restart changed the nodes around it,
\* and it leads to the root the mirror announces.
ServedProofsVerify ==
    LET proofs == GetProofs(0, leafCount) IN
    /\ DOMAIN proofs = 0..(leafCount - 1)
    /\ \A index \in DOMAIN proofs :
         PathRoot(inserted[index + 1], proofs[index].siblings, proofs[index].bits, MirrorDepth) = root

\* The mirror's root is one the contract knows, so a withdrawal proved with a
\* served path is accepted (specs/on-chain-rotating-tree.md: the off-chain
\* tree mirrors the on-chain tree), whatever the contract inserted meanwhile.
\* The depths of the code differ, and it is not.
MirrorRootKnown == leafCount > 0 => root \in knownRoots

\* What is true of the code for every pair of depths: the contract knows the
\* mirror's root, that of any prefix of its leaves and also after an export and
\* a restart, if the two constants are the same, and never otherwise.
RootKnownIfSameDepth == leafCount > 0 => (root \in knownRoots <=> MirrorDepth = Depth)
=============================================================================
