\* The depths of the code, 32 in the sequencer and 20 in the contract, scaled down.
CONSTANTS
    Zero = zero
    Undefined = undefined
    ShiftWidth = 4
    Leaf = {c1, c2}
    Depth = 2
    MaxInserts = 5
    MirrorDepth = 3
SPECIFICATION MirrorSpec
CHECK_DEADLOCK FALSE
INVARIANT
    MirrorRootKnown
