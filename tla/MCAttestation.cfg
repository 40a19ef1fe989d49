\* --auto-attest and --from-block as in scripts/dev.sh; two polls in flight,
\* as setInterval allows, either of which may fail, and a crash.
SPECIFICATION Spec
CONSTANTS
    Note = {n1, n2}
    Main = main
    Polls = {p1, p2}
    Admins = {a1}
    AutoAttest = TRUE
    FromBlock = 1
    Exposed = {p1, p2}
    MaxBlock = 2
    MaxCrashes = 1
    MaxFailures = 1
INVARIANTS StoredTwiceOnlyIfFoundTwice NothingMissed AttestedOnChain
PROPERTIES AttestedOnlyVerified HistoryNeverTakesBack
VIEW StateInUse
SYMMETRY Symmetry
