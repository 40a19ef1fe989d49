\* A poll and a GET /proof that interleave, no faults.
SPECIFICATION Spec
CONSTANTS
    Main = main
    Polls = {p1}
    Requests = {r1}
    BatchSize = 2
    MaxCommitments = 2
    MaxCrashes = 0
    MaxShutdowns = 0
    MaxFailures = 0
INVARIANT PublishedAsProcessed
