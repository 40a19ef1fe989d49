\* A poll and a GET /proof that interleave, every task fair; a failing call, a
\* crash, a shutdown.
SPECIFICATION FairSpec
CONSTANTS
    Main = main
    Polls = {p1}
    Requests = {r1}
    BatchSize = 2
    MaxCommitments = 2
    MaxCrashes = 1
    MaxShutdowns = 1
    MaxFailures = 1
INVARIANTS OnlyLoopsSpoilTree NeverAheadOfChain OnlyCrossingsMisstateRoot
PROPERTIES ImplementsMaterializedView EveryDepositProcessed
