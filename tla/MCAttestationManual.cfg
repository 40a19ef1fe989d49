\* Manual attestation only, no faults.
SPECIFICATION Spec
CONSTANTS
    Note = {n1, n2}
    Main = main
    Polls = {p1}
    Admins = {a1}
    AutoAttest = FALSE
    FromBlock = 0
    Exposed = {p1}
    MaxBlock = 3
    MaxCrashes = 0
    MaxFailures = 0
PROPERTIES ManualAttestAccepted
