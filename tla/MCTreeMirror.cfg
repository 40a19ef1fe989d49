\* The contract's tree and a mirror of the same depth, across the contract's
\* rotation (the mirror stops at a full tree).
CONSTANTS
    Zero = zero
    Undefined = undefined
    ShiftWidth = 4
    Leaf = {c1, c2}
    Depth = 2
    MaxInserts = 7
    MirrorDepth = 2
SPECIFICATION MirrorSpec
INVARIANTS
    ProvableAreInserted
    SdkTreeAgrees
    ServedProofsVerify
    RootKnownIfSameDepth
PROPERTY ImplementsCommitmentTree
