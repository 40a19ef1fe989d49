\* Both verifiers deployed: all withdrawal paths share the nullifiers.  The
\* operator may stay silent: liveness rests on claims and on time.
CONSTANTS
    alice = alice
    bob = bob
    pool = pool
    operator = operator
    zero = zero
    k1 = k1
    k2 = k2
    s1 = s1
    s2 = s2
    User <- MCUser
    Pool = pool
    Operator = operator
    ZeroAddr = zero
    Relayer = {operator}
    Recipient = {bob, zero}
    Key = {k1}
    Note <- MCNote
    Denomination = {1, 2}
    TransferAmount = {1, 2, 8}
    U64 = 7
    MaxLeaves = 2
    Window = 2
    Slot = {1, 2}
    PrivacyVerifier = TRUE
    ComplianceVerifier = TRUE
    InitialBalance = 4
    MaxDeposits = 3
    MaxBatch = 2
    MaxTime = 2
SPECIFICATION FairSpec
INVARIANTS
    Solvent
    PaidOnceWithinNote
    PaidAsInitiated
    LeafStaysProvable
    ExpiredIsClaimable
PROPERTIES
    TermsFrozen
    EventuallySettled
