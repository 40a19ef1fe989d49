\* Three deposits, a withdrawal, registrations, a restart and a failure
SPECIFICATION SpecNotes
CONSTANTS
    alice = alice bob = bob
    Address <- MCAddress
    Npk <- MCNpk
    KeysOf <- MCKeysOf
    SignaturesOf <- MCSignaturesOf
    FieldOf <- MCFieldOf
    Payments <- MCPayments
    OperatorKey = 50
    ViewTags = 2
    ScanWindow = 1
    ServedDepth = 2
    PoolDepth = 2
    TREE_DEPTH = 2
    REGISTRATION_DEPTH = 3
    U64 = 4
    AddressBound = 16
    Flows = {1}
    Capacity = 8
    MaxRegistrations = 2
    MaxRestarts = 1
    MaxFailures = 1
CHECK_DEADLOCK FALSE
INVARIANTS
    FoundByRecipientOnly InputsSatisfyCircuit ProofRootArrives OperatorVerifies
