\* Two addresses present the same key.
SPECIFICATION Spec
CONSTANTS
    alice = alice bob = bob carol = carol
    a1 = a1 a2 = a2 b1 = b1 b2 = b2 c1 = c1
    Address <- MCAddress
    Npk <- MCNpk
    KeysOf <- MCKeysOf
    Capacity = 8
    MaxRegistrations = 4
    MaxRestarts = 0
    MaxFailures = 0
CHECK_DEADLOCK FALSE
INVARIANTS OneOwner
