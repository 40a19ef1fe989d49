----------------------------- MODULE ChainSync -----------------------------
(***************************************************************************)
(* The sequencer's chain synchronisation: packages/sequencer/src/chain.ts, *)
(* the poll loop, start and shutdown of index.ts, the on-demand            *)
(* synchronisation of GET /proof (api.ts) and the operator's confirmRoot   *)
(* (operator.ts), against the commitment-queue contract whose interface    *)
(* POOL_ABI of chain.ts declares.  That contract is not in the repository; *)
(* it is modelled from its use and from ADR-001.                           *)
(*                                                                         *)
(* The handlers run on one thread and interleave at their awaits, so every *)
(* task has a program counter that names the await it is suspended in.     *)
(* setInterval starts a poll whether or not the last one has finished:     *)
(* Polls has one element for each poll that may be in flight at once.      *)
(* Commitments are numbered in queue order, a root is the sequence of the  *)
(* leaves of its tree.                                                     *)
(***************************************************************************)
EXTENDS Integers, Sequences

CONSTANTS
    Main,             \* the start-up sequence of index.ts
    Polls,            \* polls in flight at once
    Requests,         \* GET /proof requests in flight at once
    BatchSize,        \* config.batchSize
    MaxCommitments,   \* bounds: deposits, and faults of each kind
    MaxCrashes, MaxShutdowns, MaxFailures

Task == {Main} \cup Polls \cup Requests

ASSUME SyncAssumption ==
    /\ Main \notin Polls \cup Requests
    /\ Polls \cap Requests = {}
    /\ BatchSize \in Nat /\ MaxCommitments \in Nat
    /\ {MaxCrashes, MaxShutdowns, MaxFailures} \subseteq Nat

VARIABLES
    \* the queue contract
    count,                \* commitmentCount
    processed,            \* lastProcessedIndex on chain
    pendingRoot,          \* the proposal that awaits confirmation
    published,            \* currentRoot
    \* the sequencer process
    tree,                 \* the leaves of the tree
    lastProcessedIndex, pendingDeposits,   \* syncState
    due,                  \* batchTimeout has passed since lastBatchTime
    local,                \* by task, its program counter and local variables
    \* state.json
    disk,
    faults,               \* how many faults of each kind happened
    crossed               \* history: the awaits of tasks in which another one inserted a leaf

chainVars == <<count, processed, pendingRoot, published>>
syncVars == <<tree, lastProcessedIndex, pendingDeposits, due>>
vars == <<chainVars, syncVars, local, disk, faults, crossed>>

-----------------------------------------------------------------------------
\* The queue contract

NoRoot == [proposed |-> FALSE, root |-> <<>>, upTo |-> 0]

Deposit ==
    /\ count < MaxCommitments
    /\ count' = count + 1
    /\ UNCHANGED <<processed, pendingRoot, published, syncVars, local, disk, faults, crossed>>

\* The checks of proposeRoot.
Accepts(upTo) == ~pendingRoot.proposed /\ processed < upTo /\ upTo <= count

-----------------------------------------------------------------------------
\* Tasks

Idle == [pc |-> "idle", then |-> "count", seen |-> 0, from |-> 0, next |-> 0, root |-> NoRoot]

At(t, label) == local[t].pc = label
Goto(t, label) ==
    local' = [local EXCEPT ![t] = IF label = "idle" THEN Idle ELSE [@ EXCEPT !.pc = label]]

Max0(a, b) == IF a > b THEN a ELSE b

Snapshot(t, n) == [tree |-> t, lastProcessedIndex |-> n]

SyncInit ==
    /\ count = 0 /\ processed = 0 /\ pendingRoot = NoRoot /\ published = <<>>
    /\ tree = <<>> /\ lastProcessedIndex = 0 /\ pendingDeposits = 0 /\ due = FALSE
    /\ local = [t \in Task |-> IF t = Main THEN [Idle EXCEPT !.pc = "boot"] ELSE Idle]
    /\ disk = Snapshot(<<>>, 0)
    /\ faults = [crash |-> 0, shutdown |-> 0, rpc |-> 0]
    /\ crossed = {}

\* The tree is imported, and initialize takes the later of the persisted and
\* the on-chain index; pendingDeposits starts at 0.
Boot ==
    /\ At(Main, "boot")
    /\ tree' = disk.tree
    /\ lastProcessedIndex' = Max0(disk.lastProcessedIndex, processed)
    /\ Goto(Main, "confirm")
    /\ UNCHANGED <<chainVars, pendingDeposits, due, disk, faults, crossed>>

MayStart(t) == At(Main, "idle") /\ At(t, "idle")

\* setInterval
StartPoll(p) ==
    /\ MayStart(p)
    /\ Goto(p, "confirm")
    /\ UNCHANGED <<chainVars, syncVars, disk, faults, crossed>>

\* GET /proof/:index of a leaf that the tree does not have yet
StartRequest(r) ==
    /\ MayStart(r)
    /\ Goto(r, "count")
    /\ UNCHANGED <<chainVars, syncVars, disk, faults, crossed>>

-----------------------------------------------------------------------------
\* confirmRoot of the operator: it confirms the proposal it reads from chain.

\* Where a task goes on when nothing was confirmed: the start-up sequence
\* resynchronises after its own proposal in any case.
NotConfirmed(t) == IF local[t].then = "idle" THEN "resync" ELSE "count"

ReadPendingRoot(t) ==
    /\ At(t, "confirm")
    /\ local' = [local EXCEPT ![t].root = pendingRoot,
                              ![t].pc = IF pendingRoot.proposed THEN "sendConfirm"
                                        ELSE NotConfirmed(t)]
    /\ UNCHANGED <<chainVars, syncVars, disk, faults, crossed>>

ConfirmRoot(t) ==
    /\ At(t, "sendConfirm")
    /\ IF pendingRoot = local[t].root
       THEN /\ published' = pendingRoot.root
            /\ processed' = pendingRoot.upTo
            /\ pendingRoot' = NoRoot
            /\ Goto(t, "resync")
       ELSE /\ Goto(t, NotConfirmed(t))
            /\ UNCHANGED <<published, processed, pendingRoot>>
    /\ UNCHANGED <<count, syncVars, disk, faults, crossed>>

-----------------------------------------------------------------------------
\* resyncProcessedIndex

ReadProcessed(t) ==
    /\ At(t, "resync")
    /\ local' = [local EXCEPT ![t].seen = processed, ![t].pc = "resynced"]
    /\ UNCHANGED <<chainVars, syncVars, disk, faults, crossed>>

Remaining(n) == Max0(0, Len(tree) - n)

\* (mutant: everything in the tree is taken for processed)
ResyncedToTree(t) == Len(tree)

Resynced(t) == local[t].seen

Resync(t) ==
    /\ At(t, "resynced")
    /\ Goto(t, local[t].then)
    /\ IF local[t].seen > lastProcessedIndex
       THEN /\ lastProcessedIndex' = Resynced(t)
            /\ pendingDeposits' = Remaining(local[t].seen)
            /\ due' = FALSE
            /\ disk' = Snapshot(tree, lastProcessedIndex')
       ELSE UNCHANGED <<lastProcessedIndex, pendingDeposits, due, disk>>
    /\ UNCHANGED <<chainVars, tree, faults, crossed>>

-----------------------------------------------------------------------------
\* syncCommitments

ReadCount(t) ==
    /\ At(t, "count")
    /\ local' = [local EXCEPT ![t].seen = count, ![t].pc = "counted"]
    /\ UNCHANGED <<chainVars, syncVars, disk, faults, crossed>>

\* Where a task goes on after the synchronisation: a poll always considers a
\* submission, the start-up sequence only when it found new deposits.
AfterSync(t, new) ==
    IF t \in Polls \/ (t = Main /\ new > 0) THEN "submit" ELSE "idle"

\* (mutant: the leaves that were processed are taken for those in the tree)
LocalCountProcessed == lastProcessedIndex

LocalCount == Len(tree)

BeginSync(t) ==
    /\ At(t, "counted")
    /\ IF local[t].seen <= LocalCount
       THEN Goto(t, AfterSync(t, 0))
       ELSE local' = [local EXCEPT ![t].from = LocalCount, ![t].next = LocalCount + 1,
                                   ![t].pc = "fetch"]
    /\ UNCHANGED <<chainVars, syncVars, disk, faults, crossed>>

\* The awaits between the reads of a task and what it does with them, in which
\* a leaf that another task inserts goes unnoticed.
Unguarded == {"fetch", "pending", "propose", "send", "sent"}

\* One round of the loop; the deposits are counted after the last one.
Fetch(t) ==
    LET new == local[t].seen - local[t].from IN
    /\ At(t, "fetch")
    /\ tree' = Append(tree, local[t].next)
    /\ IF local[t].next < local[t].seen
       THEN /\ local' = [local EXCEPT ![t].next = @ + 1]
            /\ UNCHANGED pendingDeposits
       ELSE /\ Goto(t, AfterSync(t, new))
            /\ pendingDeposits' = pendingDeposits + new
    /\ crossed' = crossed \cup ({local[u].pc : u \in Task \ {t}} \cap Unguarded)
    /\ UNCHANGED <<chainVars, lastProcessedIndex, due, disk, faults>>

-----------------------------------------------------------------------------
\* maybeSubmitRoot and submitRoot

\* (mutant: no time trigger)
TriggeredByCount(t) == t = Main \/ pendingDeposits >= BatchSize

Triggered(t) == t = Main \/ pendingDeposits >= BatchSize \/ due

\* (mutant: the deposits are counted instead of the leaves)
TargetByDeposits == lastProcessedIndex + pendingDeposits

Target == Len(tree)

MaybeSubmitRoot(t) ==
    /\ At(t, "submit")
    /\ IF pendingDeposits > 0 /\ Triggered(t) /\ Target > lastProcessedIndex
       THEN local' = [local EXCEPT ![t].root.upTo = Target, ![t].pc = "pending"]
       ELSE Goto(t, "idle")
    /\ UNCHANGED <<chainVars, syncVars, disk, faults, crossed>>

HasPendingRoot(t) ==
    /\ At(t, "pending")
    /\ Goto(t, IF pendingRoot.proposed THEN "idle" ELSE "propose")
    /\ UNCHANGED <<chainVars, syncVars, disk, faults, crossed>>

\* The root is read after that await, the number of leaves was read before.
SubmitRoot(t) ==
    /\ At(t, "propose")
    /\ local' = [local EXCEPT ![t].root.root = tree, ![t].root.proposed = TRUE, ![t].pc = "send"]
    /\ UNCHANGED <<chainVars, syncVars, disk, faults, crossed>>

GiveUp(t) == local' = [local EXCEPT ![t].pc = "resync", ![t].then = "idle"]

ProposeRoot(t) ==
    /\ At(t, "send")
    /\ IF Accepts(local[t].root.upTo)
       THEN pendingRoot' = local[t].root /\ Goto(t, "sent")
       ELSE GiveUp(t) /\ UNCHANGED pendingRoot
    /\ UNCHANGED <<count, processed, published, syncVars, disk, faults, crossed>>

Proposed(t) ==
    /\ At(t, "sent")
    /\ lastProcessedIndex' = local[t].root.upTo
    /\ pendingDeposits' = 0
    /\ due' = FALSE
    /\ disk' = Snapshot(tree, lastProcessedIndex')
    /\ IF t = Main
       THEN local' = [local EXCEPT ![t].pc = "confirm", ![t].then = "idle"]
       ELSE Goto(t, "idle")
    /\ UNCHANGED <<chainVars, tree, faults, crossed>>

-----------------------------------------------------------------------------
\* The answers to GET /root and GET /stats

RootInfo == [root |-> tree, leafCount |-> Len(tree), lastProcessedIndex |-> lastProcessedIndex]

Stats == [totalLeaves |-> Len(tree), pendingDeposits |-> Len(tree) - lastProcessedIndex]

-----------------------------------------------------------------------------
\* Time and faults

BatchTimeout == due = FALSE /\ due' = TRUE
                /\ UNCHANGED <<chainVars, tree, lastProcessedIndex, pendingDeposits, local, disk, faults, crossed>>

Fault(kind, max) == faults[kind] < max /\ faults' = [faults EXCEPT ![kind] = @ + 1]

\* A call to the node fails.  A transaction may have been mined all the same
\* ("sent").  A failure that ends the start-up sequence is a crash.
Fail(t) ==
    /\ Fault("rpc", MaxFailures)
    /\ \/ At(t, "confirm") /\ Goto(t, NotConfirmed(t))
       \/ At(t, "sendConfirm") /\ Goto(t, NotConfirmed(t))
       \/ At(t, "resync") /\ Goto(t, local[t].then)
       \/ At(t, "count") /\ t # Main /\ Goto(t, "idle")
       \/ At(t, "fetch") /\ t # Main /\ Goto(t, "idle")
       \/ At(t, "pending") /\ Goto(t, "propose")
       \/ At(t, "send") /\ GiveUp(t)
       \/ At(t, "sent") /\ GiveUp(t)
    /\ UNCHANGED <<chainVars, syncVars, disk, crossed>>

\* The process ends, and starts again.
Stop ==
    /\ tree' = <<>> /\ lastProcessedIndex' = 0 /\ pendingDeposits' = 0 /\ due' = FALSE
    /\ local' = [t \in Task |-> IF t = Main THEN [Idle EXCEPT !.pc = "boot"] ELSE Idle]
    /\ UNCHANGED <<chainVars, crossed>>

Crash == Fault("crash", MaxCrashes) /\ Stop /\ UNCHANGED disk

\* SIGINT or SIGTERM, handled once the start-up sequence is over
Shutdown ==
    /\ Fault("shutdown", MaxShutdowns)
    /\ At(Main, "idle")
    /\ disk' = Snapshot(tree, lastProcessedIndex)
    /\ Stop

-----------------------------------------------------------------------------
Step(t) ==
    \/ ReadPendingRoot(t) \/ ConfirmRoot(t) \/ ReadProcessed(t) \/ Resync(t)
    \/ ReadCount(t) \/ BeginSync(t) \/ Fetch(t)
    \/ MaybeSubmitRoot(t) \/ HasPendingRoot(t) \/ SubmitRoot(t) \/ ProposeRoot(t) \/ Proposed(t)

Next ==
    \/ Deposit \/ Boot \/ BatchTimeout \/ Crash \/ Shutdown
    \/ \E p \in Polls : StartPoll(p)
    \/ \E r \in Requests : StartRequest(r)
    \/ \E t \in Task : Step(t) \/ Fail(t)

Spec == SyncInit /\ [][Next]_vars

\* setInterval keeps starting polls, whatever requests come in between, time
\* passes, and the node answers.
FairSpec ==
    /\ Spec
    /\ WF_vars(Boot) /\ WF_vars(BatchTimeout)
    /\ \A p \in Polls : SF_vars(StartPoll(p))
    /\ \A t \in Task : WF_vars(Step(t))

-----------------------------------------------------------------------------
\* Properties

TypeOK ==
    /\ count \in 0..MaxCommitments /\ processed \in 0..count
    /\ tree \in Seq(1..count)
    /\ lastProcessedIndex \in 0..MaxCommitments
    /\ pendingDeposits \in Nat
    /\ DOMAIN local = Task
    /\ crossed \subseteq Unguarded

\* A second loop was inserting while another one did: both read the number of
\* leaves before their awaits (syncCommitments), so the commitments are in the
\* tree twice.
InsertedTwice == "fetch" \in crossed

\* A leaf was inserted between the two reads of a submission, that of the
\* number of leaves and that of the root (submitRoot).
Miscounted == crossed \cap {"pending", "propose"} # {}

\* The tree is derived from the queue (ADR-001): leaf i of the tree is
\* commitment i of the queue, and so is it on disk.  A proof served for a leaf
\* index is then a proof for the commitment the depositor got that index for.
IsPrefix(s) == \A i \in DOMAIN s : s[i] = i
TreeIsQueuePrefix == IsPrefix(tree) /\ IsPrefix(disk.tree)

\* What is true of the code, however polls and requests interleave: only two
\* loops at once can spoil the tree, no failure, crash or late answer does.
OnlyLoopsSpoilTree == TreeIsQueuePrefix \/ InsertedTwice

\* The sequencer never takes commitments for processed that the chain has
\* neither processed nor a proposal for: it would not submit them again.  And
\* what GET /root announces as processed are leaves that it can serve proofs
\* for, so GET /stats never answers with a negative number of deposits.
NeverAheadOfChain ==
    /\ Max0(lastProcessedIndex, disk.lastProcessedIndex) <= Max0(processed, pendingRoot.upTo)
    /\ At(Main, "idle") =>
         /\ RootInfo.lastProcessedIndex <= Len(RootInfo.root)
         /\ Stats.pendingDeposits >= 0

\* A published root is the root of the commitments counted as processed.
PublishedAsProcessed == IsPrefix(published) /\ Len(published) = processed

\* What is true of the code: it is, until an insertion falls into one of those
\* two gaps.
OnlyCrossingsMisstateRoot == PublishedAsProcessed \/ InsertedTwice \/ Miscounted

\* The roots published are those of longer and longer prefixes of the queue,
\* until then.
View == INSTANCE MaterializedView WITH spoiled <- InsertedTwice \/ Miscounted
ImplementsMaterializedView == View!ViewSpec

\* Every deposit is eventually processed: a batch is submitted when it is
\* full, or when the timeout is over and a deposit is pending (chain.ts).  Two
\* things can put that off until the next deposit is inserted: a restart,
\* because pendingDeposits is not persisted (index.ts), and an insertion during
\* a submission, which sets it to 0 afterwards.  Commitments inserted twice are
\* submitted with an index that the queue does not have.
AwaitsNextDeposit ==
    /\ faults.crash + faults.shutdown > 0 \/ crossed # {}
    /\ pendingDeposits = 0 /\ Len(tree) = count

EveryDepositProcessed ==
    \A n \in 1..MaxCommitments :
        count >= n ~> (processed >= n \/ AwaitsNextDeposit \/ InsertedTwice)
=============================================================================
