-------------------------- MODULE ChainSyncProofs --------------------------
(***************************************************************************)
(* The promises of the chain synchronisation however its tasks interleave, *)
(* for any number of commitments, crashes, shutdowns and failing calls,    *)
(* any set of polls and requests, and any batch size: until an insertion   *)
(* falls into one of the gaps that the code leaves open, the tree is a     *)
(* prefix of the queue and a published root that of the commitments that   *)
(* count as processed; the sequencer is never ahead of the chain; and what *)
(* it gets published is what MaterializedView (ADR-001) allows.  And,      *)
(* last, the promise of the files that a boot reads its state from.        *)
(***************************************************************************)
EXTENDS ChainSync, TLAPS

Label == {"boot", "idle", "confirm", "sendConfirm", "resync", "resynced", "count", "counted",
          "fetch", "submit", "pending", "propose", "send", "sent"}
Root == [proposed : BOOLEAN, root : Seq(Nat), upTo : Nat]
Local == [pc : Label, then : {"count", "idle"}, seen : Nat, from : Nat, next : Nat, root : Root]
Snapshots == [tree : Seq(Nat), lastProcessedIndex : Nat]

\* The index up to which the chain has processed the queue, or has a proposal
Known == Max0(processed, pendingRoot.upTo)

\* An insertion has fallen into one of the gaps.
Spoiled == InsertedTwice \/ Miscounted

\* Leaves are commitments of the queue, and those of a prefix of it until a
\* loop was crossed.
OfQueue(s) == s \in Seq(Nat) /\ \A i \in DOMAIN s : 0 < s[i] /\ s[i] <= count
TreeOK(s) == OfQueue(s) /\ (~InsertedTwice => IsPrefix(s))

\* A root that was proposed is that of the leaves it counts.
Sound(root) ==
  /\ root \in Root /\ OfQueue(root.root)
  /\ ~Spoiled => IsPrefix(root.root) /\ Len(root.root) = root.upTo

ChainOK ==
  /\ count \in Nat /\ processed \in Nat /\ processed <= count
  /\ Sound(pendingRoot)
  /\ pendingRoot.proposed => processed < pendingRoot.upTo /\ pendingRoot.upTo <= count
  /\ ~pendingRoot.proposed => pendingRoot = NoRoot
  /\ OfQueue(published)
  /\ ~Spoiled => IsPrefix(published) /\ Len(published) = processed

SyncOK ==
  /\ TreeOK(tree)
  /\ disk \in Snapshots /\ TreeOK(disk.tree)
  /\ lastProcessedIndex \in Nat /\ pendingDeposits \in Nat
  /\ lastProcessedIndex <= Known /\ disk.lastProcessedIndex <= Known

\* What a task has read is still so, or was so and can only have grown.
Where(t) ==
  /\ At(t, "boot") => local[t].then = "count"
  /\ At(t, "sendConfirm") => local[t].root.proposed
  /\ At(t, "resynced") => local[t].seen <= processed
  /\ At(t, "counted") => local[t].seen <= count /\ (t = Main => Known <= local[t].seen)
  /\ At(t, "fetch") => /\ 0 < local[t].next /\ local[t].next <= local[t].seen
                       /\ local[t].from <= local[t].seen /\ local[t].seen <= count
                       /\ ~InsertedTwice => local[t].next = Len(tree) + 1
                       /\ t = Main => /\ Known <= local[t].seen
                                      /\ local[t].next = Len(tree) + 1
  /\ local[t].pc \in {"pending", "propose"} =>
       /\ local[t].root.upTo <= Len(tree)
       /\ ~Miscounted => local[t].root.upTo = Len(tree)
  /\ At(t, "send") => /\ local[t].root.proposed /\ Sound(local[t].root)
                      /\ local[t].root.upTo <= Len(tree)
  /\ At(t, "sent") => local[t].root.upTo <= Known

\* The start-up sequence has inserted what the chain knows of.
Started ==
  \/ local[Main].pc \in {"idle", "submit", "pending", "propose", "send", "sent"}
  \/ local[Main].pc \in {"confirm", "sendConfirm", "resync", "resynced"} /\ local[Main].then = "idle"

\* Whose turn it can be: polls and requests wait for the start-up sequence, and
\* then for nothing.
Turn(t) == IF t = Main THEN \A u \in Task \ {Main} : At(u, "idle") ELSE At(Main, "idle")

IInv ==
  /\ ChainOK /\ SyncOK
  /\ local \in [Task -> Local]
  /\ \A t \in Task : At(t, "idle") \/ Turn(t)
  /\ \A t \in Task : Where(t)
  /\ Started => Known <= Len(tree)

-----------------------------------------------------------------------------
\* Tasks

LEMMA Main_Task == Main \in Task
  BY DEF Task

LEMMA PrefixEmpty == IsPrefix(<<>>) /\ OfQueue(<<>>) /\ TreeOK(<<>>) /\ <<>> \in Seq(Nat) /\ Len(<<>>) = 0
  BY DEF IsPrefix, OfQueue, TreeOK

LEMMA NoRootSound == NoRoot \in Root /\ Sound(NoRoot) /\ ~NoRoot.proposed /\ NoRoot.upTo = 0
  BY PrefixEmpty DEF Sound, Root, NoRoot

LEMMA IdleType == Idle \in Local /\ Idle.pc = "idle"
<1>1. NoRoot \in Root
  BY NoRootSound
<1> QED
  BY <1>1 DEF Idle, Local, Label

LEMMA GotoTask ==
  ASSUME local \in [Task -> Local], NEW t \in Task, NEW label \in Label, Goto(t, label)
  PROVE  /\ local' \in [Task -> Local]
         /\ local'[t].pc = label
         /\ label # "idle" => /\ local'[t].root = local[t].root /\ local'[t].seen = local[t].seen
                              /\ local'[t].then = local[t].then
         /\ \A u \in Task \ {t} : local'[u] = local[u]
<1>2. CASE label = "idle"
  <2>1. local' = [local EXCEPT ![t] = Idle]
    BY <1>2 DEF Goto
  <2> QED
    BY <1>2, <2>1, IdleType
<1>3. CASE label # "idle"
  <2> DEFINE l == [local[t] EXCEPT !.pc = label]
  <2>1. local' = [local EXCEPT ![t] = l]
    BY <1>3 DEF Goto
  <2>2. local[t] \in Local
    OBVIOUS
  <2>3. /\ l \in Local /\ l.pc = label /\ l.root = local[t].root /\ l.seen = local[t].seen
        /\ l.then = local[t].then
    BY <2>2 DEF Local
  <2> HIDE DEF l
  <2> QED
    BY <1>3, <2>1, <2>3
<1> QED
  BY <1>2, <1>3

LEMMA MyTurn == ASSUME IInv, NEW t \in Task, ~At(t, "idle") PROVE Turn(t)
  BY DEF IInv

\* Once the start-up sequence is over, the tree has what the chain knows of.
LEMMA CaughtUp ==
  ASSUME IInv, NEW t \in Task, Turn(t), t # Main \/ Started
  PROVE  Known <= Len(tree)
  BY DEF IInv, Turn, Started, At

\* The crossings that have happened stay.
LEMMA SpoiledStays ==
  ASSUME crossed \subseteq crossed'
  PROVE  (InsertedTwice => InsertedTwice') /\ (Miscounted => Miscounted') /\ (Spoiled => Spoiled')
  BY DEF InsertedTwice, Miscounted, Spoiled

LEMMA SoundStays ==
  ASSUME NEW root, Sound(root), crossed \subseteq crossed', count \in Nat, count' \in Nat, count <= count'
  PROVE  Sound(root)'
<1>1. \A i \in DOMAIN root.root : 0 < root.root[i] /\ root.root[i] <= count /\ root.root[i] \in Nat
  BY DEF Sound, OfQueue, Root
<1>2. \A i \in DOMAIN root.root : 0 < root.root[i] /\ root.root[i] <= count'
  BY <1>1
<1> QED
  BY <1>2, SpoiledStays DEF Sound, OfQueue, IsPrefix

LEMMA TreeStays ==
  ASSUME NEW s, TreeOK(s), crossed \subseteq crossed', count \in Nat, count' \in Nat, count <= count'
  PROVE  /\ OfQueue(s) /\ \A i \in DOMAIN s : 0 < s[i] /\ s[i] <= count'
         /\ ~InsertedTwice' => IsPrefix(s)
<1>1. \A i \in DOMAIN s : 0 < s[i] /\ s[i] <= count /\ s[i] \in Nat
  BY DEF TreeOK, OfQueue
<1>2. \A i \in DOMAIN s : 0 < s[i] /\ s[i] <= count'
  BY <1>1
<1> QED
  BY <1>2, SpoiledStays DEF TreeOK

\* What the other tasks have read stays as it was, up to the crossings.
LEMMA OthersKeep ==
  ASSUME IInv, NEW t \in Task, Turn(t), NEW u \in Task \ {t}, local'[u] = local[u],
         count' = count, processed \in Nat, processed' \in Nat, processed <= processed',
         Known \in Nat, Known' \in Nat, Known <= Known',
         tree \in Seq(Nat), tree' \in Seq(Nat), Len(tree) <= Len(tree'),
         crossed \subseteq crossed',
         tree' = tree \/ (local[u].pc \in Unguarded => local[u].pc \in crossed')
  PROVE  Where(u)'
<1>1. Where(u) /\ local[u] \in Local /\ local[u].root.upTo \in Nat /\ local[u].seen \in Nat
  BY DEF IInv, Local, Root
<1>2. u = Main => At(u, "idle")
  BY DEF Turn
<1>3. /\ InsertedTwice => InsertedTwice'
      /\ Miscounted => Miscounted'
  BY SpoiledStays
<1>4. At(u, "send")' => Sound(local[u].root)'
  <2> SUFFICES ASSUME At(u, "send")' PROVE Sound(local[u].root)'
    OBVIOUS
  <2>1. Sound(local[u].root) /\ count \in Nat
    BY <1>1 DEF At, Where, IInv, ChainOK
  <2> DEFINE r == local[u].root
  <2>2. r' = r
    OBVIOUS
  <2> QED
    BY <2>1, SoundStays DEF Sound, OfQueue, Spoiled
<1>5. At(u, "fetch") => "fetch" \in crossed' \/ tree' = tree
  BY DEF At, Unguarded
<1>6. local[u].pc \in {"pending", "propose"} => local[u].pc \in crossed' \/ tree' = tree
  BY DEF Unguarded
<1>7. local[u].pc \in {"pending", "propose"} => Miscounted' \/ tree' = tree
  BY <1>6 DEF Miscounted
<1>8. At(u, "fetch") => InsertedTwice' \/ tree' = tree
  BY <1>5 DEF InsertedTwice
<1>9. At(u, "resynced")' => local'[u].seen <= processed'
  BY <1>1 DEF Where, At
<1>10. At(u, "counted")' => local'[u].seen <= count' /\ (u = Main => Known' <= local'[u].seen)
  BY <1>1, <1>2 DEF Where, At
<1>11. At(u, "fetch")' => /\ 0 < local'[u].next /\ local'[u].next <= local'[u].seen
                          /\ local'[u].from <= local'[u].seen /\ local'[u].seen <= count'
                          /\ ~InsertedTwice' => local'[u].next = Len(tree') + 1
                          /\ u = Main => Known' <= local'[u].seen /\ local'[u].next = Len(tree') + 1
  BY <1>1, <1>2, <1>3, <1>8 DEF Where, At
<1>12. local'[u].pc \in {"pending", "propose"} =>
         /\ local'[u].root.upTo <= Len(tree')
         /\ ~Miscounted' => local'[u].root.upTo = Len(tree')
  <2>1. Len(tree) \in Nat /\ Len(tree') \in Nat
    OBVIOUS
  <2> QED
    BY <1>1, <1>3, <1>7, <2>1 DEF Where
<1>13. At(u, "send")' => /\ local'[u].root.proposed /\ Sound(local[u].root)'
                         /\ local'[u].root.upTo <= Len(tree')
  <2>1. Len(tree) \in Nat /\ Len(tree') \in Nat
    OBVIOUS
  <2> QED
    BY <1>1, <1>4, <2>1 DEF Where, At
<1>14. /\ At(u, "sent")' => local'[u].root.upTo <= Known'
       /\ At(u, "boot")' => local'[u].then = "count"
       /\ At(u, "sendConfirm")' => local'[u].root.proposed
  BY <1>1 DEF Where, At
<1> QED
  BY <1>9, <1>10, <1>11, <1>12, <1>13, <1>14 DEF Where

\* A step of a task
LEMMA OneStep ==
  ASSUME IInv, NEW t \in Task, Turn(t),
         local' \in [Task -> Local], \A u \in Task \ {t} : local'[u] = local[u],
         ChainOK', SyncOK', Where(t)',
         count' = count, processed <= processed', Known <= Known',
         Len(tree) <= Len(tree'), crossed \subseteq crossed',
         tree' = tree \/ \A u \in Task \ {t} : local[u].pc \in Unguarded => local[u].pc \in crossed',
         t # Main => Known' <= Len(tree'),
         t = Main /\ Started' => Known' <= Len(tree')
  PROVE  IInv'
<1>0. /\ processed \in Nat /\ processed' \in Nat /\ Known \in Nat /\ Known' \in Nat
      /\ tree \in Seq(Nat) /\ tree' \in Seq(Nat)
  <2>1. processed \in Nat /\ pendingRoot.upTo \in Nat /\ tree \in Seq(Nat)
    BY DEF IInv, ChainOK, SyncOK, Sound, Root, TreeOK, OfQueue
  <2>2. processed' \in Nat /\ pendingRoot'.upTo \in Nat /\ tree' \in Seq(Nat)
    BY DEF ChainOK, SyncOK, Sound, Root, TreeOK, OfQueue
  <2> QED
    BY <2>1, <2>2 DEF Known, Max0
<1>1. ASSUME NEW u \in Task PROVE At(u, "idle")' \/ Turn(u)'
  <2>1. CASE t = Main
    <3>1. \A v \in Task \ {Main} : At(v, "idle")'
      BY <2>1 DEF Turn, At
    <3> QED
      BY <3>1, Main_Task DEF Turn
  <2>2. CASE t # Main
    <3>1. At(Main, "idle")'
      BY <2>2, Main_Task DEF Turn, At
    <3> QED
      BY <3>1, Main_Task DEF Turn
  <2> QED
    BY <2>1, <2>2
<1>2. ASSUME NEW u \in Task PROVE Where(u)'
  <2>1. CASE u = t
    BY <2>1
  <2>2. CASE u # t
    BY <1>0, <2>2, OthersKeep
  <2> QED
    BY <2>1, <2>2
<1> QED
  BY <1>1, <1>2 DEF IInv

LEMMA SameData ==
  ASSUME ChainOK, SyncOK, UNCHANGED <<chainVars, tree, lastProcessedIndex, pendingDeposits, disk, crossed>>
  PROVE  /\ ChainOK' /\ SyncOK' /\ Known' = Known
  BY DEF ChainOK, SyncOK, Sound, IsPrefix, Known, chainVars, OfQueue, TreeOK, InsertedTwice, Miscounted, Spoiled

\* The same of the chain alone
LEMMA SameChain ==
  ASSUME ChainOK, UNCHANGED chainVars, crossed \subseteq crossed'
  PROVE  ChainOK' /\ Known' = Known
<1>1. Sound(pendingRoot)'
  <2>1. Sound(pendingRoot) /\ count \in Nat /\ count' = count /\ pendingRoot' = pendingRoot
    BY DEF ChainOK, chainVars
  <2> QED
    BY <2>1, SpoiledStays DEF Sound, OfQueue, IsPrefix
<1> QED
  BY <1>1, SpoiledStays DEF ChainOK, OfQueue, IsPrefix, Known, chainVars

\* A step that changes nothing but the task that makes it
LEMMA LocalKeeps ==
  ASSUME IInv, NEW t \in Task, Turn(t),
         UNCHANGED <<chainVars, tree, lastProcessedIndex, pendingDeposits, disk, crossed>>,
         local' \in [Task -> Local], \A u \in Task \ {t} : local'[u] = local[u],
         Where(t)', t = Main /\ Started' => Known <= Len(tree)
  PROVE  IInv'
<1>1. ChainOK' /\ SyncOK' /\ Known' = Known
  BY SameData DEF IInv
<1>2. t # Main => Known' <= Len(tree')
  BY <1>1, CaughtUp
<1>3. processed \in Nat /\ Known \in Nat /\ Len(tree) \in Nat
  BY DEF IInv, ChainOK, SyncOK, Sound, Root, Known, Max0, TreeOK, OfQueue
<1>4. count' = count /\ processed <= processed' /\ Known <= Known' /\ Len(tree) <= Len(tree')
  BY <1>1, <1>3 DEF chainVars
<1> QED
  BY <1>1, <1>2, <1>4, OneStep

\* A step that only moves a task, to a place where nothing is known of what
\* it has read
LEMMA MoveKeeps ==
  ASSUME IInv, NEW t \in Task, Turn(t),
         UNCHANGED <<chainVars, tree, lastProcessedIndex, pendingDeposits, disk, crossed>>,
         NEW label \in {"idle", "confirm", "resync", "count", "submit"}, Goto(t, label),
         t = Main /\ Started' => Known <= Len(tree)
  PROVE  IInv'
<1>1. label \in Label /\ local \in [Task -> Local]
  BY DEF Label, IInv
<1>2. /\ local' \in [Task -> Local] /\ local'[t].pc = label
      /\ \A u \in Task \ {t} : local'[u] = local[u]
  BY <1>1, GotoTask
<1>3. Where(t)'
  BY <1>2 DEF Where, At
<1> QED
  BY <1>2, <1>3, LocalKeeps

-----------------------------------------------------------------------------
\* The queue, start and polls

LEMMA DepositKeeps == ASSUME IInv, Deposit PROVE IInv'
<1>1. /\ count' = count + 1
      /\ UNCHANGED <<processed, pendingRoot, published, syncVars, local, disk, crossed>>
  BY DEF Deposit
<1>2. count \in Nat /\ count' \in Nat /\ count <= count' /\ crossed \subseteq crossed' /\ Known' = Known
  BY <1>1 DEF IInv, ChainOK, Known
<1>3. ChainOK'
  <2>1. Sound(pendingRoot)'
    <3>1. Sound(pendingRoot)
      BY DEF IInv, ChainOK
    <3> QED
      BY <1>1, <1>2, <3>1, SoundStays DEF Sound, OfQueue, Spoiled, InsertedTwice, Miscounted
  <2>2. OfQueue(published)'
    BY <1>1, <1>2 DEF IInv, ChainOK, OfQueue
  <2>3. (Spoiled' <=> Spoiled) /\ (IsPrefix(published)' <=> IsPrefix(published))
    BY <1>1 DEF Spoiled, InsertedTwice, Miscounted, IsPrefix
  <2>4. /\ processed \in Nat /\ processed <= count
        /\ pendingRoot.proposed => processed < pendingRoot.upTo /\ pendingRoot.upTo <= count
        /\ ~pendingRoot.proposed => pendingRoot = NoRoot
        /\ pendingRoot.upTo \in Nat
        /\ ~Spoiled => IsPrefix(published) /\ Len(published) = processed
    BY DEF IInv, ChainOK, Sound, Root
  <2>5. processed <= count' /\ (pendingRoot.proposed => pendingRoot.upTo <= count')
    BY <1>2, <2>4
  <2> QED
    BY <1>1, <1>2, <2>1, <2>2, <2>3, <2>4, <2>5 DEF ChainOK
<1>4. SyncOK'
  <2>1. TreeOK(tree) /\ TreeOK(disk.tree)
    BY DEF IInv, SyncOK
  <2>2. TreeOK(tree)'
    BY <1>1, <1>2, <2>1, TreeStays DEF TreeOK, OfQueue, IsPrefix, InsertedTwice, syncVars
  <2>3. TreeOK(disk.tree)'
    BY <1>1, <1>2, <2>1, TreeStays DEF TreeOK, OfQueue, IsPrefix, InsertedTwice
  <2> QED
    BY <1>1, <1>2, <2>2, <2>3 DEF IInv, SyncOK, syncVars
<1>5. ASSUME NEW t \in Task PROVE Where(t)'
  <2>1. Where(t) /\ local[t] \in Local /\ local[t].seen \in Nat
    BY DEF IInv, Local
  <2>2. At(t, "send") => Sound(local[t].root)'
    <3> SUFFICES ASSUME At(t, "send") PROVE Sound(local[t].root)'
      OBVIOUS
    <3> DEFINE r == local[t].root
    <3>1. Sound(r) /\ r' = r
      BY <1>1, <2>1 DEF Where
    <3> QED
      BY <1>1, <1>2, <3>1, SoundStays DEF Sound, OfQueue, Spoiled, InsertedTwice, Miscounted
  <2> QED
    BY <1>1, <1>2, <2>1, <2>2 DEF Where, At, syncVars, InsertedTwice, Miscounted
<1>6. (Started' <=> Started) /\ \A t \in Task : (At(t, "idle") \/ Turn(t)) => (At(t, "idle") \/ Turn(t))'
  BY <1>1 DEF At, Started, Turn
<1> QED
  BY <1>1, <1>2, <1>3, <1>4, <1>5, <1>6 DEF IInv, syncVars

LEMMA BootKeeps == ASSUME IInv, Boot PROVE IInv'
<1>1. /\ At(Main, "boot") /\ tree' = disk.tree
      /\ lastProcessedIndex' = Max0(disk.lastProcessedIndex, processed)
      /\ Goto(Main, "confirm") /\ UNCHANGED <<chainVars, pendingDeposits, disk, crossed>>
  BY DEF Boot
<1>2. /\ local \in [Task -> Local] /\ Main \in Task /\ "confirm" \in Label
      /\ local[Main].then = "count" /\ Turn(Main) /\ crossed' = crossed
  BY <1>1, Main_Task, MyTurn DEF IInv, Where, Label, At
<1>3. /\ local' \in [Task -> Local] /\ local'[Main].pc = "confirm"
      /\ local'[Main].then = "count" /\ \A u \in Task \ {Main} : local'[u] = local[u]
  BY <1>1, <1>2, GotoTask
<1>4. ChainOK' /\ Known' = Known /\ count' = count /\ processed' = processed
  BY <1>1, SameChain DEF IInv, chainVars
<1>5. TreeOK(disk.tree) /\ disk.lastProcessedIndex \in Nat
  BY DEF IInv, SyncOK, Snapshots
<1>6. processed \in Nat /\ pendingRoot.upTo \in Nat /\ Known \in Nat
  BY DEF IInv, ChainOK, Sound, Root, Known, Max0
<1>7. SyncOK'
  <2>1. lastProcessedIndex' \in Nat /\ lastProcessedIndex' <= Known
    BY <1>1, <1>5, <1>6 DEF IInv, SyncOK, Known, Max0
  <2>2. TreeOK(tree)' /\ TreeOK(disk.tree)'
    BY <1>1, <1>4, <1>5 DEF TreeOK, OfQueue, IsPrefix, InsertedTwice
  <2> QED
    BY <1>1, <1>4, <2>1, <2>2 DEF IInv, SyncOK
<1>8. Where(Main)' /\ ~Started'
  BY <1>3 DEF Where, At, Started
<1>9. ASSUME NEW u \in Task \ {Main} PROVE local[u].pc = "idle" /\ local[u].pc \notin Unguarded
  BY <1>2 DEF Turn, At, Unguarded
<1>10. ASSUME NEW u \in Task PROVE Where(u)'
  <2>1. CASE u = Main
    BY <1>8, <2>1
  <2>2. CASE u # Main
    BY <1>3, <1>9, <2>2 DEF Where, At
  <2> QED
    BY <2>1, <2>2
<1>11. \A u \in Task \ {Main} : At(u, "idle")'
  BY <1>3, <1>9 DEF At
<1>12. ASSUME NEW u \in Task PROVE At(u, "idle")' \/ Turn(u)'
  BY <1>11 DEF Turn
<1> QED
  BY <1>3, <1>4, <1>7, <1>8, <1>10, <1>12 DEF IInv

LEMMA StartPollKeeps == ASSUME IInv, NEW p \in Polls, StartPoll(p) PROVE IInv'
<1>1. p \in Task /\ p # Main /\ Turn(p) /\ Goto(p, "confirm")
      /\ UNCHANGED <<chainVars, tree, lastProcessedIndex, pendingDeposits, disk, crossed>>
  BY SyncAssumption DEF Task, StartPoll, MayStart, Turn, syncVars
<1> QED
  BY <1>1, MoveKeeps

LEMMA StartRequestKeeps == ASSUME IInv, NEW r \in Requests, StartRequest(r) PROVE IInv'
<1>1. r \in Task /\ r # Main /\ Turn(r) /\ Goto(r, "count")
      /\ UNCHANGED <<chainVars, tree, lastProcessedIndex, pendingDeposits, disk, crossed>>
  BY SyncAssumption DEF Task, StartRequest, MayStart, Turn, syncVars
<1> QED
  BY <1>1, MoveKeeps

-----------------------------------------------------------------------------
\* confirmRoot and resyncProcessedIndex

LEMMA NotConfirmedType ==
  ASSUME NEW t
  PROVE  /\ NotConfirmed(t) \in {"resync", "count"} /\ NotConfirmed(t) \in Label
         /\ NotConfirmed(t) = "resync" => local[t].then = "idle"
  BY DEF NotConfirmed, Label

LEMMA NotConfirmedKeeps ==
  ASSUME IInv, NEW t \in Task, local[t].pc \in {"confirm", "sendConfirm"},
         UNCHANGED <<chainVars, tree, lastProcessedIndex, pendingDeposits, disk, crossed>>,
         Goto(t, NotConfirmed(t))
  PROVE  IInv'
<1>1. ~At(t, "idle") /\ Turn(t)
  BY MyTurn DEF At
<1>2. /\ local'[t].pc = NotConfirmed(t) /\ local'[t].then = local[t].then
  BY NotConfirmedType, GotoTask DEF IInv
<1>3. t = Main /\ Started' => Started
  BY <1>2, NotConfirmedType DEF Started
<1> QED
  BY <1>1, <1>3, CaughtUp, NotConfirmedType, MoveKeeps

LEMMA ReadPendingRootKeeps == ASSUME IInv, NEW t \in Task, ReadPendingRoot(t) PROVE IInv'
<1> DEFINE label == IF pendingRoot.proposed THEN "sendConfirm" ELSE NotConfirmed(t)
           l == [local[t] EXCEPT !.root = pendingRoot, !.pc = label]
<1>1. /\ At(t, "confirm") /\ UNCHANGED <<chainVars, tree, lastProcessedIndex, pendingDeposits, disk, crossed>>
      /\ local' = [local EXCEPT ![t].root = pendingRoot, ![t].pc = label]
  BY DEF ReadPendingRoot, syncVars
<1>2. ~At(t, "idle") /\ Turn(t)
  BY <1>1, MyTurn DEF At
<1>3. /\ local \in [Task -> Local] /\ local[t] \in Local /\ pendingRoot \in Root
      /\ label \in Label /\ label \in {"sendConfirm", "resync", "count"}
  BY NotConfirmedType DEF IInv, ChainOK, Sound, Label
<1>4. label = "sendConfirm" => pendingRoot.proposed
  BY NotConfirmedType
<1>5. label = "resync" => local[t].then = "idle"
  BY NotConfirmedType
<1> HIDE DEF label
<1>6. /\ l \in Local /\ l.pc = label /\ l.root = pendingRoot /\ l.then = local[t].then
  BY <1>3 DEF Local
<1>7. local' = [local EXCEPT ![t] = l]
  BY <1>1, <1>3
<1> HIDE DEF l
<1>8. /\ local' \in [Task -> Local] /\ local'[t] = l /\ \A u \in Task \ {t} : local'[u] = local[u]
  BY <1>3, <1>6, <1>7
<1>9. Where(t)'
  BY <1>3, <1>4, <1>6, <1>8 DEF Where, At
<1>10. t = Main /\ Started' => Started
  BY <1>1, <1>3, <1>5, <1>6, <1>8 DEF Started, At
<1> QED
  BY <1>1, <1>2, <1>8, <1>9, <1>10, CaughtUp, LocalKeeps

LEMMA ConfirmRootKeeps == ASSUME IInv, NEW t \in Task, ConfirmRoot(t) PROVE IInv'
<1>1. At(t, "sendConfirm") /\ UNCHANGED <<count, tree, lastProcessedIndex, pendingDeposits, disk, crossed>>
  BY DEF ConfirmRoot, syncVars
<1>2. ~At(t, "idle") /\ Turn(t)
  BY <1>1, MyTurn DEF At
<1>3. CASE pendingRoot = local[t].root
  <2>1. /\ published' = pendingRoot.root /\ processed' = pendingRoot.upTo /\ pendingRoot' = NoRoot
        /\ Goto(t, "resync") /\ "resync" \in Label
    BY <1>3 DEF ConfirmRoot, Label
  <2>2. pendingRoot.proposed
    BY <1>1, <1>3 DEF IInv, Where
  <2>3. /\ Sound(pendingRoot) /\ pendingRoot.upTo \in Nat /\ processed \in Nat /\ count \in Nat
        /\ processed < pendingRoot.upTo /\ pendingRoot.upTo <= count
    BY <2>2 DEF IInv, ChainOK, Sound, Root
  <2>4. ChainOK'
    <3>1. Sound(pendingRoot)' /\ ~pendingRoot'.proposed
      BY <1>1, <2>1, NoRootSound DEF Sound, OfQueue, IsPrefix, NoRoot
    <3>2. OfQueue(published)' /\ (~Spoiled' => IsPrefix(published)' /\ Len(published') = processed')
      BY <1>1, <2>1, <2>3 DEF Sound, OfQueue, IsPrefix, Spoiled, InsertedTwice, Miscounted
    <3> QED
      BY <1>1, <2>1, <2>3, <3>1, <3>2 DEF ChainOK
  <2>5. Known' = Known /\ processed <= processed' /\ Known \in Nat
    BY <2>1, <2>3, NoRootSound DEF Known, Max0
  <2>6. SyncOK'
    BY <1>1, <2>5 DEF IInv, SyncOK, TreeOK, OfQueue, InsertedTwice, IsPrefix
  <2>7. /\ local' \in [Task -> Local] /\ local'[t].pc = "resync" /\ local'[t].then = local[t].then
        /\ \A u \in Task \ {t} : local'[u] = local[u]
    BY <2>1, GotoTask DEF IInv
  <2>8. Where(t)'
    BY <2>7 DEF Where, At
  <2>9. t = Main /\ Started' => Started
    BY <1>1, <2>7 DEF Started, At
  <2>10. t # Main \/ Started' => Known' <= Len(tree')
    BY <1>1, <1>2, <2>5, <2>9, CaughtUp
  <2>11. Known <= Known' /\ Len(tree) <= Len(tree')
    BY <1>1, <2>5 DEF IInv, SyncOK, TreeOK, OfQueue
  <2> QED
    BY <1>1, <1>2, <2>4, <2>5, <2>6, <2>7, <2>8, <2>10, <2>11, OneStep
<1>4. CASE pendingRoot # local[t].root
  <2>1. /\ Goto(t, NotConfirmed(t))
        /\ UNCHANGED <<chainVars, tree, lastProcessedIndex, pendingDeposits, disk, crossed>>
    BY <1>1, <1>4 DEF ConfirmRoot, chainVars
  <2> QED
    BY <1>1, <2>1, NotConfirmedKeeps DEF At
<1> QED
  BY <1>3, <1>4

LEMMA ReadProcessedKeeps == ASSUME IInv, NEW t \in Task, ReadProcessed(t) PROVE IInv'
<1> DEFINE l == [local[t] EXCEPT !.seen = processed, !.pc = "resynced"]
<1>1. /\ At(t, "resync") /\ UNCHANGED <<chainVars, tree, lastProcessedIndex, pendingDeposits, disk, crossed>>
      /\ local' = [local EXCEPT ![t].seen = processed, ![t].pc = "resynced"]
  BY DEF ReadProcessed, syncVars
<1>2. ~At(t, "idle") /\ Turn(t)
  BY <1>1, MyTurn DEF At
<1>3. local \in [Task -> Local] /\ local[t] \in Local /\ processed \in Nat
  BY DEF IInv, ChainOK
<1>4. l \in Local /\ l.pc = "resynced" /\ l.seen = processed /\ l.then = local[t].then
  BY <1>3 DEF Local, Label
<1>5. local' = [local EXCEPT ![t] = l]
  BY <1>1, <1>3
<1> HIDE DEF l
<1>6. /\ local' \in [Task -> Local] /\ local'[t] = l /\ \A u \in Task \ {t} : local'[u] = local[u]
  BY <1>3, <1>4, <1>5
<1>7. Where(t)'
  BY <1>1, <1>3, <1>4, <1>6 DEF Where, At, chainVars
<1>8. t = Main /\ Started' => Started
  BY <1>1, <1>4, <1>6 DEF Started, At
<1> QED
  BY <1>1, <1>2, <1>6, <1>7, <1>8, CaughtUp, LocalKeeps

LEMMA ResyncKeeps == ASSUME IInv, NEW t \in Task, Resync(t) PROVE IInv'
<1>1. /\ At(t, "resynced") /\ Goto(t, local[t].then) /\ UNCHANGED <<chainVars, tree, crossed>>
      /\ \/ /\ local[t].seen > lastProcessedIndex
            /\ lastProcessedIndex' = local[t].seen /\ pendingDeposits' = Remaining(local[t].seen)
            /\ disk' = Snapshot(tree, local[t].seen)
         \/ UNCHANGED <<lastProcessedIndex, pendingDeposits, disk, crossed>>
  BY DEF Resync, Resynced
<1>2. ~At(t, "idle") /\ Turn(t)
  BY <1>1, MyTurn DEF At
<1>3. /\ local \in [Task -> Local] /\ local[t].seen \in Nat /\ local[t].seen <= processed
      /\ local[t].then \in {"count", "idle"} /\ local[t].then \in Label
      /\ processed \in Nat /\ pendingRoot.upTo \in Nat /\ TreeOK(tree) /\ tree \in Seq(Nat)
  BY <1>1 DEF IInv, ChainOK, SyncOK, Sound, Root, Where, Local, Label, TreeOK, OfQueue
<1>4. ChainOK' /\ Known' = Known /\ count' = count /\ processed' = processed /\ crossed' = crossed
  BY <1>1, SameChain DEF IInv, chainVars
<1>4a. TreeOK(tree)'
  BY <1>1, <1>3, <1>4 DEF TreeOK, OfQueue, InsertedTwice, IsPrefix
<1>5. SyncOK'
  <2>1. CASE UNCHANGED <<lastProcessedIndex, pendingDeposits, disk, crossed>>
    BY <1>1, <1>4, <1>4a, <2>1 DEF IInv, SyncOK, TreeOK, OfQueue, InsertedTwice, IsPrefix
  <2>2. CASE /\ lastProcessedIndex' = local[t].seen /\ pendingDeposits' = Remaining(local[t].seen)
             /\ disk' = Snapshot(tree, local[t].seen)
    <3>1. local[t].seen <= Known
      BY <1>3 DEF Known, Max0
    <3>2. pendingDeposits' \in Nat
      BY <1>3, <2>2 DEF Remaining, Max0
    <3>3. disk' \in Snapshots /\ disk'.tree = tree /\ disk'.lastProcessedIndex = local[t].seen
      BY <1>3, <2>2 DEF Snapshot, Snapshots
    <3> QED
      BY <1>1, <1>3, <1>4, <1>4a, <2>2, <3>1, <3>2, <3>3 DEF SyncOK
  <2> QED
    BY <1>1, <2>1, <2>2
<1>6. /\ local' \in [Task -> Local] /\ local'[t].pc = local[t].then
      /\ \A u \in Task \ {t} : local'[u] = local[u]
  BY <1>1, <1>3, GotoTask
<1>7. Where(t)'
  BY <1>3, <1>6 DEF Where, At
<1>8. t = Main /\ Started' => Started
  BY <1>1, <1>3, <1>6 DEF Started, At
<1>9. t # Main \/ Started' => Known' <= Len(tree')
  BY <1>1, <1>2, <1>4, <1>8, CaughtUp
<1>10. processed <= processed' /\ Known <= Known' /\ Len(tree) <= Len(tree')
  BY <1>1, <1>3, <1>4 DEF Known, Max0
<1> QED
  BY <1>1, <1>2, <1>4, <1>5, <1>6, <1>7, <1>9, <1>10, OneStep

-----------------------------------------------------------------------------
\* syncCommitments

LEMMA ReadCountKeeps == ASSUME IInv, NEW t \in Task, ReadCount(t) PROVE IInv'
<1> DEFINE l == [local[t] EXCEPT !.seen = count, !.pc = "counted"]
<1>1. /\ At(t, "count") /\ UNCHANGED <<chainVars, tree, lastProcessedIndex, pendingDeposits, disk, crossed>>
      /\ local' = [local EXCEPT ![t].seen = count, ![t].pc = "counted"]
  BY DEF ReadCount, syncVars
<1>2. ~At(t, "idle") /\ Turn(t)
  BY <1>1, MyTurn DEF At
<1>3. local \in [Task -> Local] /\ local[t] \in Local /\ count \in Nat /\ Known <= count
  BY NoRootSound DEF IInv, ChainOK, Known, Max0, Sound, Root
<1>4. l \in Local /\ l.pc = "counted" /\ l.seen = count
  BY <1>3 DEF Local, Label
<1>5. local' = [local EXCEPT ![t] = l]
  BY <1>1, <1>3
<1> HIDE DEF l
<1>6. /\ local' \in [Task -> Local] /\ local'[t] = l /\ \A u \in Task \ {t} : local'[u] = local[u]
  BY <1>3, <1>4, <1>5
<1>7. Known' = Known /\ count' = count
  BY <1>1 DEF Known, chainVars
<1>8. Where(t)'
  BY <1>3, <1>4, <1>6, <1>7 DEF Where, At
<1>9. ~(t = Main /\ Started')
  BY <1>4, <1>6 DEF Started
<1> QED
  BY <1>1, <1>2, <1>6, <1>8, <1>9, LocalKeeps

LEMMA AfterSyncType ==
  ASSUME NEW t, NEW new
  PROVE  AfterSync(t, new) \in {"submit", "idle"} /\ AfterSync(t, new) \in Label
  BY DEF AfterSync, Label

LEMMA BeginSyncKeeps == ASSUME IInv, NEW t \in Task, BeginSync(t) PROVE IInv'
<1> DEFINE l == [local[t] EXCEPT !.from = Len(tree), !.next = Len(tree) + 1, !.pc = "fetch"]
<1>1. /\ At(t, "counted") /\ UNCHANGED <<chainVars, tree, lastProcessedIndex, pendingDeposits, disk, crossed>>
      /\ (local[t].seen <= Len(tree) => Goto(t, AfterSync(t, 0)))
      /\ (~(local[t].seen <= Len(tree)) =>
            local' = [local EXCEPT ![t].from = Len(tree), ![t].next = Len(tree) + 1, ![t].pc = "fetch"])
  BY DEF BeginSync, LocalCount, syncVars
<1>2. ~At(t, "idle") /\ Turn(t)
  BY <1>1, MyTurn DEF At
<1>3. /\ local \in [Task -> Local] /\ local[t] \in Local /\ local[t].seen \in Nat /\ Len(tree) \in Nat
      /\ (t = Main => Known <= local[t].seen) /\ Known \in Nat /\ local[t].seen <= count
  BY <1>1 DEF IInv, ChainOK, SyncOK, Sound, Root, Known, Max0, Where, Local, TreeOK, OfQueue
<1>4. CASE local[t].seen <= Len(tree)
  <2>1. t = Main => Known <= Len(tree)
    BY <1>3, <1>4
  <2> QED
    BY <1>1, <1>2, <1>4, <2>1, AfterSyncType, MoveKeeps
<1>5. CASE ~(local[t].seen <= Len(tree))
  <2>0. Len(tree) + 1 \in Nat
    BY <1>3
  <2>1. /\ l \in Local /\ l.pc = "fetch" /\ l.seen = local[t].seen /\ l.from = Len(tree)
        /\ l.next = Len(tree) + 1
    BY <1>3, <2>0 DEF Local, Label
  <2>2. local' = [local EXCEPT ![t] = l]
    BY <1>1, <1>3, <1>5
  <2> HIDE DEF l
  <2>3. /\ local' \in [Task -> Local] /\ local'[t] = l /\ \A u \in Task \ {t} : local'[u] = local[u]
    BY <1>3, <2>1, <2>2
  <2>4. Known' = Known /\ tree' = tree /\ count' = count
    BY <1>1 DEF Known, chainVars
  <2>5. Where(t)'
    BY <1>3, <1>5, <2>1, <2>3, <2>4 DEF Where, At
  <2>6. ~(t = Main /\ Started')
    BY <2>1, <2>3 DEF Started
  <2> QED
    BY <1>1, <1>2, <2>3, <2>5, <2>6, LocalKeeps
<1> QED
  BY <1>4, <1>5

LEMMA FetchKeeps == ASSUME IInv, NEW t \in Task, Fetch(t) PROVE IInv'
<1> DEFINE new == local[t].seen - local[t].from
           l == [local[t] EXCEPT !.next = @ + 1]
<1>1. /\ At(t, "fetch") /\ UNCHANGED <<chainVars, lastProcessedIndex, disk>>
      /\ tree' = Append(tree, local[t].next)
      /\ crossed' = crossed \cup ({local[u].pc : u \in Task \ {t}} \cap Unguarded)
      /\ (local[t].next < local[t].seen =>
            local' = [local EXCEPT ![t].next = @ + 1] /\ UNCHANGED pendingDeposits)
      /\ (~(local[t].next < local[t].seen) =>
            Goto(t, AfterSync(t, new)) /\ pendingDeposits' = pendingDeposits + new)
  BY DEF Fetch
<1>2. ~At(t, "idle") /\ Turn(t)
  BY <1>1, MyTurn DEF At
<1>3. /\ local \in [Task -> Local] /\ local[t] \in Local /\ tree \in Seq(Nat)
      /\ local[t].seen \in Nat /\ local[t].from \in Nat /\ local[t].next \in Nat
      /\ 0 < local[t].next /\ local[t].next <= local[t].seen /\ local[t].seen <= count
      /\ local[t].from <= local[t].seen /\ Known \in Nat /\ count \in Nat /\ processed \in Nat
      /\ (~InsertedTwice => local[t].next = Len(tree) + 1)
      /\ (t = Main => Known <= local[t].seen /\ local[t].next = Len(tree) + 1)
  BY <1>1 DEF IInv, ChainOK, SyncOK, Sound, Root, Known, Max0, Where, Local, TreeOK, OfQueue
<1>3a. crossed \subseteq crossed' /\ \A u \in Task \ {t} : local[u].pc \in Unguarded => local[u].pc \in crossed'
  BY <1>1
<1>3b. InsertedTwice => InsertedTwice'
  BY <1>3a, SpoiledStays
<1>4. tree' \in Seq(Nat) /\ Len(tree') = Len(tree) + 1 /\ TreeOK(tree)'
  <2>1. \A i \in DOMAIN tree : 0 < tree[i] /\ tree[i] <= count /\ (~InsertedTwice => tree[i] = i)
    BY DEF IInv, SyncOK, IsPrefix, TreeOK, OfQueue
  <2>2. tree' \in Seq(Nat) /\ Len(tree') = Len(tree) + 1 /\ DOMAIN tree' = 1..(Len(tree) + 1)
    BY <1>1, <1>3
  <2>3. ASSUME NEW i \in 1..(Len(tree) + 1)
        PROVE  0 < tree'[i] /\ tree'[i] <= count /\ (~InsertedTwice => tree'[i] = i)
    BY <1>1, <1>3, <2>1
  <2>4. count' = count
    BY <1>1 DEF chainVars
  <2> QED
    BY <1>3b, <2>2, <2>3, <2>4 DEF IsPrefix, TreeOK, OfQueue
<1>5. ChainOK' /\ Known' = Known /\ count' = count /\ processed' = processed
  BY <1>1, <1>3a, SameChain DEF IInv, chainVars
<1>6. pendingDeposits' \in Nat
  BY <1>1, <1>3 DEF IInv, SyncOK
<1>7. SyncOK'
  <2>1. TreeOK(disk.tree)'
    BY <1>1, <1>5, <1>3b DEF IInv, SyncOK, TreeOK, OfQueue, IsPrefix
  <2> QED
    BY <1>1, <1>4, <1>5, <1>6, <2>1 DEF IInv, SyncOK
<1>7a. processed <= processed' /\ Known <= Known' /\ Len(tree) <= Len(tree')
  BY <1>3, <1>4, <1>5
<1>8. t # Main => Known' <= Len(tree')
  BY <1>2, <1>3, <1>4, <1>5, CaughtUp
<1>9. CASE local[t].next < local[t].seen
  <2>0. local[t].next + 1 \in Nat
    BY <1>3
  <2>1. /\ l \in Local /\ l.pc = "fetch" /\ l.seen = local[t].seen /\ l.from = local[t].from
        /\ l.next = local[t].next + 1
    BY <1>1, <1>3, <2>0 DEF Local, At
  <2>2. local' = [local EXCEPT ![t] = l]
    BY <1>1, <1>3, <1>9
  <2> HIDE DEF l
  <2>3. /\ local' \in [Task -> Local] /\ local'[t] = l /\ \A u \in Task \ {t} : local'[u] = local[u]
    BY <1>3, <2>1, <2>2
  <2>4. Where(t)'
    BY <1>3, <1>3b, <1>4, <1>5, <1>9, <2>1, <2>3 DEF Where, At
  <2>5. ~(t = Main /\ Started')
    BY <2>1, <2>3 DEF Started
  <2> QED
    BY <1>2, <1>3a, <1>5, <1>7, <1>7a, <1>8, <2>3, <2>4, <2>5, OneStep
<1>10. CASE ~(local[t].next < local[t].seen)
  <2>1. /\ local' \in [Task -> Local] /\ local'[t].pc \in {"submit", "idle"}
        /\ \A u \in Task \ {t} : local'[u] = local[u]
    BY <1>1, <1>3, <1>10, AfterSyncType, GotoTask
  <2>2. Where(t)'
    BY <2>1 DEF Where, At
  <2>3. t = Main => Known' <= Len(tree')
    BY <1>3, <1>4, <1>5, <1>10
  <2> QED
    BY <1>2, <1>3a, <1>5, <1>7, <1>7a, <1>8, <2>1, <2>2, <2>3, OneStep
<1> QED
  BY <1>9, <1>10

-----------------------------------------------------------------------------
\* maybeSubmitRoot and submitRoot

LEMMA MaybeSubmitRootKeeps == ASSUME IInv, NEW t \in Task, MaybeSubmitRoot(t) PROVE IInv'
<1> DEFINE l == [local[t] EXCEPT !.root = [@ EXCEPT !.upTo = Len(tree)], !.pc = "pending"]
<1>1. /\ At(t, "submit") /\ UNCHANGED <<chainVars, tree, lastProcessedIndex, pendingDeposits, disk, crossed>>
      /\ \/ local' = [local EXCEPT ![t].root.upTo = Len(tree), ![t].pc = "pending"]
         \/ Goto(t, "idle")
  BY DEF MaybeSubmitRoot, Target, syncVars
<1>2. ~At(t, "idle") /\ Turn(t)
  BY <1>1, MyTurn DEF At
<1>3. t = Main => Started
  BY <1>1 DEF Started, At
<1>4. CASE Goto(t, "idle")
  BY <1>1, <1>2, <1>3, <1>4, CaughtUp, MoveKeeps
<1>5. CASE local' = [local EXCEPT ![t].root.upTo = Len(tree), ![t].pc = "pending"]
  <2>1. local \in [Task -> Local] /\ local[t] \in Local /\ Len(tree) \in Nat
    BY DEF IInv, SyncOK, TreeOK, OfQueue
  <2>2. l \in Local /\ l.pc = "pending" /\ l.root.upTo = Len(tree)
    BY <2>1 DEF Local, Label, Root
  <2>3. local' = [local EXCEPT ![t] = l]
    BY <1>5, <2>1
  <2> HIDE DEF l
  <2>4. /\ local' \in [Task -> Local] /\ local'[t] = l /\ \A u \in Task \ {t} : local'[u] = local[u]
    BY <2>1, <2>2, <2>3
  <2>5. Where(t)'
    BY <1>1, <2>2, <2>4 DEF Where, At
  <2> QED
    BY <1>1, <1>2, <1>3, <2>4, <2>5, CaughtUp, LocalKeeps
<1> QED
  BY <1>1, <1>4, <1>5

\* On to "propose", after the answer or after a failed call
LEMMA ToProposeKeeps ==
  ASSUME IInv, NEW t \in Task, At(t, "pending"), Goto(t, "propose"),
         UNCHANGED <<chainVars, tree, lastProcessedIndex, pendingDeposits, disk, crossed>>
  PROVE  IInv'
<1>1. ~At(t, "idle") /\ Turn(t)
  BY MyTurn DEF At
<1>2. /\ local[t].root.upTo <= Len(tree) /\ (~Miscounted => local[t].root.upTo = Len(tree))
      /\ (t = Main => Started)
  BY DEF IInv, Where, At, Started
<1>3. /\ local' \in [Task -> Local] /\ local'[t].pc = "propose" /\ local'[t].root = local[t].root
      /\ \A u \in Task \ {t} : local'[u] = local[u]
  BY GotoTask DEF IInv, Label
<1>4. Where(t)'
  BY <1>2, <1>3 DEF Where, At, Miscounted
<1> QED
  BY <1>1, <1>2, <1>3, <1>4, CaughtUp, LocalKeeps

LEMMA HasPendingRootKeeps == ASSUME IInv, NEW t \in Task, HasPendingRoot(t) PROVE IInv'
<1>1. /\ At(t, "pending") /\ UNCHANGED <<chainVars, tree, lastProcessedIndex, pendingDeposits, disk, crossed>>
      /\ (Goto(t, "idle") \/ Goto(t, "propose"))
  BY DEF HasPendingRoot, syncVars
<1>2. ~At(t, "idle") /\ (t = Main => Started) /\ Turn(t)
  BY <1>1, MyTurn DEF At, Started
<1>3. CASE Goto(t, "idle")
  BY <1>1, <1>2, <1>3, CaughtUp, MoveKeeps
<1>4. CASE Goto(t, "propose")
  BY <1>1, <1>4, ToProposeKeeps
<1> QED
  BY <1>1, <1>3, <1>4

LEMMA SubmitRootKeeps == ASSUME IInv, NEW t \in Task, SubmitRoot(t) PROVE IInv'
<1> DEFINE l == [local[t] EXCEPT !.root = [@ EXCEPT !.root = tree, !.proposed = TRUE], !.pc = "send"]
<1>1. /\ At(t, "propose") /\ UNCHANGED <<chainVars, tree, lastProcessedIndex, pendingDeposits, disk, crossed>>
      /\ local' = [local EXCEPT ![t].root.root = tree, ![t].root.proposed = TRUE, ![t].pc = "send"]
  BY DEF SubmitRoot, syncVars
<1>2. ~At(t, "idle") /\ (t = Main => Started) /\ Turn(t)
  BY <1>1, MyTurn DEF At, Started
<1>3. /\ local \in [Task -> Local] /\ local[t] \in Local /\ TreeOK(tree) /\ tree \in Seq(Nat)
      /\ local[t].root.upTo <= Len(tree) /\ (~Miscounted => local[t].root.upTo = Len(tree))
  BY <1>1 DEF IInv, SyncOK, Where, At, TreeOK, OfQueue
<1>4. /\ l \in Local /\ l.pc = "send" /\ l.root.proposed /\ l.root.root = tree
      /\ l.root.upTo = local[t].root.upTo /\ l.root \in Root
  BY <1>3 DEF Local, Label, Root
<1>4a. Sound(l.root)
  BY <1>3, <1>4 DEF Sound, TreeOK, Spoiled
<1>5. local' = [local EXCEPT ![t] = l]
  BY <1>1, <1>3
<1> HIDE DEF l
<1>6. /\ local' \in [Task -> Local] /\ local'[t] = l /\ \A u \in Task \ {t} : local'[u] = local[u]
  BY <1>3, <1>4, <1>5
<1>7. Sound(local[t].root)'
  <2>1. count' = count /\ crossed' = crossed /\ (Spoiled' <=> Spoiled)
    BY <1>1 DEF chainVars, Spoiled, InsertedTwice, Miscounted
  <2>2. local'[t].root = l.root
    BY <1>6
  <2> DEFINE r == l.root
  <2>3. /\ r \in Root /\ r.root \in Seq(Nat) /\ \A i \in DOMAIN r.root : 0 < r.root[i] /\ r.root[i] <= count
        /\ ~Spoiled => IsPrefix(r.root) /\ Len(r.root) = r.upTo
    BY <1>4a DEF Sound, OfQueue
  <2> HIDE DEF r
  <2>4. local'[t].root = r
    BY <2>2 DEF r
  <2> QED
    BY <2>1, <2>3, <2>4 DEF Sound, OfQueue, IsPrefix
<1>8. Where(t)'
  BY <1>1, <1>3, <1>4, <1>6, <1>7 DEF Where, At
<1> QED
  BY <1>1, <1>2, <1>6, <1>8, CaughtUp, LocalKeeps

LEMMA GiveUpKeeps ==
  ASSUME IInv, NEW t \in Task, local[t].pc \in {"send", "sent"}, GiveUp(t),
         UNCHANGED <<chainVars, tree, lastProcessedIndex, pendingDeposits, disk, crossed>>
  PROVE  IInv'
<1> DEFINE l == [local[t] EXCEPT !.pc = "resync", !.then = "idle"]
<1>1. ~At(t, "idle") /\ (t = Main => Started) /\ Turn(t)
  BY MyTurn DEF At, Started
<1>2. local \in [Task -> Local] /\ local[t] \in Local
  BY DEF IInv
<1>3. l \in Local /\ l.pc = "resync"
  BY <1>2 DEF Local, Label
<1>4. local' = [local EXCEPT ![t] = l]
  BY <1>2 DEF GiveUp
<1> HIDE DEF l
<1>5. /\ local' \in [Task -> Local] /\ local'[t] = l /\ \A u \in Task \ {t} : local'[u] = local[u]
  BY <1>2, <1>3, <1>4
<1>6. Where(t)'
  BY <1>3, <1>5 DEF Where, At
<1> QED
  BY <1>1, <1>5, <1>6, CaughtUp, LocalKeeps

LEMMA ProposeRootKeeps == ASSUME IInv, NEW t \in Task, ProposeRoot(t) PROVE IInv'
<1>1. /\ At(t, "send") /\ ~At(t, "idle") /\ local[t].pc \in {"send", "sent"}
      /\ UNCHANGED <<count, processed, published, tree, lastProcessedIndex, pendingDeposits, disk, crossed>>
  BY DEF ProposeRoot, At, syncVars
<1>2. CASE Accepts(local[t].root.upTo)
  <2>1. pendingRoot' = local[t].root /\ Goto(t, "sent") /\ "sent" \in Label
    BY <1>2 DEF ProposeRoot, Label
  <2>2. /\ local[t].root.proposed /\ Sound(local[t].root) /\ local[t].root.upTo \in Nat
        /\ local[t].root.upTo <= Len(tree) /\ Len(tree) \in Nat
    BY <1>1 DEF IInv, Where, SyncOK, TreeOK, OfQueue, Sound, Root
  <2>3. /\ processed \in Nat /\ processed < local[t].root.upTo /\ local[t].root.upTo <= count
        /\ pendingRoot.upTo = 0 /\ Known = processed
    BY <1>2, <2>2, NoRootSound DEF Accepts, IInv, ChainOK, Known, Max0
  <2>4. Known' = local[t].root.upTo /\ Known <= Known' /\ processed <= processed' /\ Len(tree) <= Len(tree')
    BY <1>1, <2>1, <2>2, <2>3 DEF Known, Max0
  <2>5. Sound(pendingRoot)'
    BY <1>1, <2>1, <2>2 DEF Sound, OfQueue, IsPrefix, Spoiled, InsertedTwice, Miscounted
  <2>6. ChainOK'
    BY <1>1, <2>1, <2>2, <2>3, <2>5
       DEF IInv, ChainOK, OfQueue, IsPrefix, Spoiled, InsertedTwice, Miscounted
  <2>7. SyncOK'
    <3>1. lastProcessedIndex \in Nat /\ disk.lastProcessedIndex \in Nat
      BY DEF IInv, SyncOK, Snapshots
    <3>2. lastProcessedIndex <= Known' /\ disk.lastProcessedIndex <= Known'
      BY <2>2, <2>3, <2>4, <3>1 DEF IInv, SyncOK
    <3> QED
      BY <1>1, <3>2 DEF IInv, SyncOK, TreeOK, OfQueue, IsPrefix, InsertedTwice
  <2>8. /\ local' \in [Task -> Local] /\ local'[t].pc = "sent" /\ local'[t].root = local[t].root
        /\ \A u \in Task \ {t} : local'[u] = local[u]
    BY <2>1, GotoTask DEF IInv
  <2>9. Where(t)'
    BY <2>2, <2>4, <2>8 DEF Where, At
  <2>10. Known' <= Len(tree')
    BY <1>1, <2>2, <2>4
  <2> QED
    BY <1>1, <2>4, <2>6, <2>7, <2>8, <2>9, <2>10, MyTurn, OneStep
<1>3. CASE ~Accepts(local[t].root.upTo)
  <2>1. GiveUp(t) /\ UNCHANGED <<chainVars, tree, lastProcessedIndex, pendingDeposits, disk, crossed>>
    BY <1>1, <1>3 DEF ProposeRoot, chainVars
  <2> QED
    BY <1>1, <2>1, GiveUpKeeps
<1> QED
  BY <1>2, <1>3

LEMMA ProposedKeeps == ASSUME IInv, NEW t \in Task, Proposed(t) PROVE IInv'
<1> DEFINE upTo == local[t].root.upTo
           l == [local[t] EXCEPT !.pc = "confirm", !.then = "idle"]
<1>1. /\ At(t, "sent") /\ lastProcessedIndex' = upTo /\ pendingDeposits' = 0
      /\ disk' = Snapshot(tree, upTo) /\ UNCHANGED <<chainVars, tree, crossed>>
      /\ (t = Main => local' = [local EXCEPT ![t].pc = "confirm", ![t].then = "idle"])
      /\ (t # Main => Goto(t, "idle"))
  BY DEF Proposed
<1>2. ~At(t, "idle") /\ (t = Main => Started) /\ Turn(t)
  BY <1>1, MyTurn DEF At, Started
<1>3. /\ local \in [Task -> Local] /\ local[t] \in Local /\ upTo \in Nat /\ upTo <= Known
      /\ tree \in Seq(Nat) /\ TreeOK(tree) /\ processed \in Nat /\ Known \in Nat
  BY <1>1 DEF IInv, ChainOK, Sound, Known, Max0, SyncOK, Where, Local, Root, TreeOK, OfQueue
<1>4. ChainOK' /\ Known' = Known /\ count' = count /\ processed' = processed /\ crossed' = crossed
  BY <1>1, SameChain DEF IInv, chainVars
<1>4a. TreeOK(tree)'
  BY <1>1, <1>3, <1>4 DEF TreeOK, OfQueue, IsPrefix, InsertedTwice
<1>5. SyncOK'
  <2>1. disk' \in Snapshots /\ disk'.tree = tree /\ disk'.lastProcessedIndex = upTo
    BY <1>1, <1>3 DEF Snapshot, Snapshots
  <2> HIDE DEF upTo
  <2> QED
    BY <1>1, <1>3, <1>4, <1>4a, <2>1 DEF SyncOK
<1>6. /\ local' \in [Task -> Local] /\ local'[t].pc \in {"confirm", "idle"}
      /\ \A u \in Task \ {t} : local'[u] = local[u]
  <2>1. CASE t = Main
    <3>1. l \in Local /\ l.pc = "confirm"
      BY <1>3 DEF Local, Label
    <3>2. local' = [local EXCEPT ![t] = l]
      BY <1>1, <1>3, <2>1
    <3> HIDE DEF l
    <3> QED
      BY <1>3, <3>1, <3>2
  <2>2. CASE t # Main
    BY <1>1, <1>3, <2>2, GotoTask DEF Label
  <2> QED
    BY <2>1, <2>2
<1>7. Where(t)'
  BY <1>6 DEF Where, At
<1>8. Known' <= Len(tree')
  BY <1>1, <1>2, <1>4, CaughtUp
<1>9. processed <= processed' /\ Known <= Known' /\ Len(tree) <= Len(tree')
  BY <1>1, <1>3, <1>4
<1> QED
  BY <1>1, <1>2, <1>4, <1>5, <1>6, <1>7, <1>8, <1>9, OneStep

-----------------------------------------------------------------------------
\* Faults

LEMMA FailKeeps == ASSUME IInv, NEW t \in Task, Fail(t) PROVE IInv'
<1>1. UNCHANGED <<chainVars, tree, lastProcessedIndex, pendingDeposits, disk, crossed>>
  BY DEF Fail, syncVars
<1>2. ASSUME local[t].pc \in {"confirm", "sendConfirm"}, Goto(t, NotConfirmed(t)) PROVE IInv'
  BY <1>1, <1>2, NotConfirmedKeeps
<1>3. ASSUME At(t, "resync"), Goto(t, local[t].then) PROVE IInv'
  <2>1. local[t].then \in {"idle", "count"} /\ local[t].then \in Label /\ local \in [Task -> Local]
    BY DEF IInv, Local, Label
  <2>2. local'[t].pc = local[t].then
    BY <1>3, <2>1, GotoTask
  <2>3. t = Main /\ Started' => Started
    BY <1>3, <2>1, <2>2 DEF Started, At
  <2>4. ~At(t, "idle") /\ Turn(t)
    BY <1>3, MyTurn DEF At
  <2> QED
    BY <1>1, <1>3, <2>1, <2>3, <2>4, CaughtUp, MoveKeeps
<1>4. ASSUME local[t].pc \in {"count", "fetch"}, t # Main, Goto(t, "idle") PROVE IInv'
  <2>1. ~At(t, "idle") /\ Turn(t)
    BY <1>4, MyTurn DEF At
  <2> QED
    BY <1>1, <1>4, <2>1, MoveKeeps
<1>5. ASSUME At(t, "pending"), Goto(t, "propose") PROVE IInv'
  BY <1>1, <1>5, ToProposeKeeps
<1>6. ASSUME local[t].pc \in {"send", "sent"}, GiveUp(t) PROVE IInv'
  BY <1>1, <1>6, GiveUpKeeps
<1> QED
  BY <1>2, <1>3, <1>4, <1>5, <1>6 DEF Fail, At

\* What every start of the process begins with
LEMMA StartType ==
  ASSUME NEW l, l = [t \in Task |-> IF t = Main THEN [Idle EXCEPT !.pc = "boot"] ELSE Idle]
  PROVE  /\ l \in [Task -> Local] /\ l[Main].pc = "boot" /\ l[Main].then = "count"
         /\ \A t \in Task \ {Main} : l[t].pc = "idle"
<1>1. /\ [Idle EXCEPT !.pc = "boot"] \in Local /\ [Idle EXCEPT !.pc = "boot"].pc = "boot"
      /\ [Idle EXCEPT !.pc = "boot"].then = "count"
  BY IdleType DEF Idle, Local, Label
<1> QED
  BY <1>1, IdleType, Main_Task

LEMMA StopKeeps ==
  ASSUME IInv, Stop, disk' = disk \/ disk' = Snapshot(tree, lastProcessedIndex)
  PROVE  IInv'
<1>1. /\ tree' = <<>> /\ lastProcessedIndex' = 0 /\ pendingDeposits' = 0
      /\ UNCHANGED <<chainVars, crossed>>
      /\ local' = [t \in Task |-> IF t = Main THEN [Idle EXCEPT !.pc = "boot"] ELSE Idle]
  BY DEF Stop
<1>2. /\ local' \in [Task -> Local] /\ local'[Main].pc = "boot" /\ local'[Main].then = "count"
      /\ \A t \in Task \ {Main} : local'[t].pc = "idle"
  BY <1>1, StartType
<1>3. ChainOK' /\ Known' = Known /\ Known \in Nat /\ count' = count
  BY <1>1, SameChain DEF IInv, ChainOK, Sound, Known, Max0, chainVars, Root
<1>4. disk' \in Snapshots /\ disk'.lastProcessedIndex <= Known
  BY DEF IInv, SyncOK, Snapshot, Snapshots, TreeOK, OfQueue
<1>5. disk'.tree = disk.tree \/ disk'.tree = tree
  BY DEF Snapshot
<1>6. TreeOK(disk.tree)'
  BY <1>1, <1>3, <1>5 DEF IInv, SyncOK, TreeOK, OfQueue, IsPrefix, InsertedTwice
<1>7. SyncOK'
  <2>1. TreeOK(tree)'
    BY <1>1 DEF TreeOK, OfQueue, IsPrefix
  <2> QED
    BY <1>1, <1>3, <1>4, <1>6, <2>1 DEF SyncOK
<1>8. ASSUME NEW t \in Task PROVE Where(t)'
  <2>1. CASE t = Main
    BY <1>2, <2>1 DEF Where, At
  <2>2. CASE t # Main
    BY <1>2, <2>2 DEF Where, At
  <2> QED
    BY <2>1, <2>2
<1>9. ~Started' /\ \A t \in Task : At(t, "idle")' \/ Turn(t)'
  BY <1>2 DEF Turn, At, Started
<1> QED
  BY <1>2, <1>3, <1>7, <1>8, <1>9 DEF IInv

LEMMA StutterKeeps ==
  ASSUME IInv, UNCHANGED <<chainVars, tree, lastProcessedIndex, pendingDeposits, local, disk, crossed>>
  PROVE  IInv'
<1>1. ChainOK' /\ SyncOK' /\ Known' = Known
  BY SameData DEF IInv
<1>2. ASSUME NEW t \in Task PROVE Where(t)'
  <2>1. Where(t)
    BY DEF IInv
  <2> QED
    BY <1>1, <2>1
       DEF Where, At, chainVars, Sound, OfQueue, IsPrefix, Spoiled, InsertedTwice, Miscounted
<1>3. (Started' <=> Started) /\ \A t \in Task : (At(t, "idle") \/ Turn(t)) => (At(t, "idle") \/ Turn(t))'
  BY DEF At, Started, Turn
<1> QED
  BY <1>1, <1>2, <1>3 DEF IInv

-----------------------------------------------------------------------------

LEMMA InitIInv == SyncInit => IInv
<1> SUFFICES ASSUME SyncInit PROVE IInv
  OBVIOUS
<1>1. /\ count = 0 /\ processed = 0 /\ pendingRoot = NoRoot /\ published = <<>>
      /\ tree = <<>> /\ lastProcessedIndex = 0 /\ pendingDeposits = 0
      /\ local = [t \in Task |-> IF t = Main THEN [Idle EXCEPT !.pc = "boot"] ELSE Idle]
      /\ disk = Snapshot(<<>>, 0)
  BY DEF SyncInit
<1>2. /\ local \in [Task -> Local] /\ local[Main].pc = "boot" /\ local[Main].then = "count"
      /\ \A t \in Task \ {Main} : local[t].pc = "idle"
  BY <1>1, StartType
<1>3. ChainOK /\ Known = 0
  BY <1>1, NoRootSound, PrefixEmpty DEF ChainOK, Known, Max0
<1>4. disk \in Snapshots /\ disk.tree = <<>> /\ disk.lastProcessedIndex = 0
  BY <1>1, PrefixEmpty DEF Snapshot, Snapshots
<1>5. SyncOK
  BY <1>1, <1>3, <1>4, PrefixEmpty DEF SyncOK
<1>6. ASSUME NEW t \in Task PROVE Where(t)
  <2>1. CASE t = Main
    BY <1>2, <2>1 DEF Where, At
  <2>2. CASE t # Main
    BY <1>2, <2>2 DEF Where, At
  <2> QED
    BY <2>1, <2>2
<1>7. ~Started /\ \A t \in Task : At(t, "idle") \/ Turn(t)
  BY <1>2 DEF Turn, At, Started
<1> QED
  BY <1>2, <1>3, <1>5, <1>6, <1>7 DEF IInv

LEMMA NextIInv == IInv /\ [Next]_vars => IInv'
<1> SUFFICES ASSUME IInv, [Next]_vars PROVE IInv'
  OBVIOUS
<1>1. CASE Deposit \/ Boot
  BY <1>1, DepositKeeps, BootKeeps
<1>2. CASE BatchTimeout \/ UNCHANGED vars
  BY <1>2, StutterKeeps DEF BatchTimeout, vars, syncVars
<1>3. CASE Crash \/ Shutdown
  BY <1>3, StopKeeps DEF Crash, Shutdown
<1>4. ASSUME NEW p \in Polls, StartPoll(p) PROVE IInv'
  BY <1>4, StartPollKeeps
<1>5. ASSUME NEW r \in Requests, StartRequest(r) PROVE IInv'
  BY <1>5, StartRequestKeeps
<1>6. ASSUME NEW t \in Task, Step(t) \/ Fail(t) PROVE IInv'
  BY <1>6, ReadPendingRootKeeps, ConfirmRootKeeps, ReadProcessedKeeps, ResyncKeeps,
     ReadCountKeeps, BeginSyncKeeps, FetchKeeps, MaybeSubmitRootKeeps, HasPendingRootKeeps,
     SubmitRootKeeps, ProposeRootKeeps, ProposedKeeps, FailKeeps DEF Step
<1> QED
  BY <1>1, <1>2, <1>3, <1>4, <1>5, <1>6 DEF Next

LEMMA IInvAlways == Spec => []IInv
  BY InitIInv, NextIInv, PTL DEF Spec

\* The sequencer's tree, in memory and on disk, is a prefix of the commitment
\* queue until two loops insert at once (syncCommitments of chain.ts).
THEOREM OnlyLoopsSpoilTreeAlways == Spec => []OnlyLoopsSpoilTree
<1>1. IInv => OnlyLoopsSpoilTree
  BY DEF IInv, SyncOK, TreeOK, TreeIsQueuePrefix, OnlyLoopsSpoilTree
<1> QED
  BY <1>1, IInvAlways, PTL

\* The sequencer does not take for processed what the chain neither processed
\* nor has a proposal for, and once started it has every leaf it announces
\* (initialize, submitRoot and resyncProcessedIndex of chain.ts).
THEOREM NeverAheadOfChainAlways == Spec => []NeverAheadOfChain
<1>1. IInv => NeverAheadOfChain
  <2> SUFFICES ASSUME IInv PROVE NeverAheadOfChain
    OBVIOUS
  <2>1. /\ lastProcessedIndex \in Nat /\ disk.lastProcessedIndex \in Nat /\ Len(tree) \in Nat
        /\ lastProcessedIndex <= Known /\ disk.lastProcessedIndex <= Known
    BY DEF IInv, SyncOK, Snapshots, TreeOK, OfQueue
  <2>2. Known \in Nat
    BY DEF IInv, ChainOK, Sound, Root, Known, Max0
  <2>3. At(Main, "idle") => Known <= Len(tree)
    BY DEF IInv, Started, At
  <2>4. Max0(lastProcessedIndex, disk.lastProcessedIndex) <= Max0(processed, pendingRoot.upTo)
    BY <2>1 DEF Max0, Known
  <2>5. At(Main, "idle") => lastProcessedIndex <= Len(tree)
    BY <2>1, <2>2, <2>3
  <2> QED
    BY <2>1, <2>4, <2>5 DEF NeverAheadOfChain, RootInfo, Stats
<1> QED
  BY <1>1, IInvAlways, PTL

\* A published root is the root of the commitments that count as processed
\* (submitRoot of chain.ts, confirmRoot of operator.ts), until an insertion
\* falls into a loop or between the two reads of a submission.
THEOREM OnlyCrossingsMisstateRootAlways == Spec => []OnlyCrossingsMisstateRoot
<1>1. IInv => OnlyCrossingsMisstateRoot
  BY DEF IInv, ChainOK, PublishedAsProcessed, OnlyCrossingsMisstateRoot, Spoiled
<1> QED
  BY <1>1, IInvAlways, PTL

\* The sequencer keeps the promise of ADR-001: the published roots are those
\* of longer and longer prefixes of the queue, until such a crossing, and of
\* commitments of the queue after it.
THEOREM ImplementsView == Spec => ImplementsMaterializedView
<1>1. SyncInit => View!ViewInit
  BY DEF SyncInit, View!ViewInit, InsertedTwice, Miscounted
<1>2. ASSUME IInv, [Next]_vars PROVE View!ViewNext \/ UNCHANGED <<count, published, InsertedTwice \/ Miscounted>>
  <2>1. ASSUME NEW t \in Task, ConfirmRoot(t), pendingRoot = local[t].root
        PROVE  View!Publish \/ View!PublishSpoiled
    <3>1. published' = pendingRoot.root /\ count' = count /\ crossed' = crossed
      BY <2>1 DEF ConfirmRoot
    <3>2. pendingRoot.proposed /\ Sound(pendingRoot) /\ pendingRoot.upTo \in Nat
      BY <1>2, <2>1 DEF IInv, ChainOK, Sound, Root, Where, ConfirmRoot
    <3>3. UNCHANGED <<count, InsertedTwice \/ Miscounted>>
      BY <3>1 DEF InsertedTwice, Miscounted
    <3>4. CASE Spoiled
      <4>1. pendingRoot.root \in Seq(1..count)
        <5> DEFINE s == pendingRoot.root
        <5>1. s \in Seq(Nat) /\ \A i \in DOMAIN s : 0 < s[i] /\ s[i] <= count
          BY <3>2 DEF Sound, OfQueue
        <5>2. count \in Nat /\ \A i \in DOMAIN s : s[i] \in Nat
          BY <1>2, <5>1 DEF IInv, ChainOK
        <5> DEFINE S == 1..count
        <5>3. \A i \in DOMAIN s : s[i] \in S
          BY <5>1, <5>2
        <5> HIDE DEF s, S
        <5>4. s \in Seq(S)
          BY <5>1, <5>3
        <5> QED
          BY <5>4 DEF s, S
      <4> QED
        BY <3>1, <3>3, <3>4, <4>1 DEF View!PublishSpoiled, Spoiled
    <3>5. CASE ~Spoiled
      <4>1. /\ pendingRoot.root \in Seq(Nat) /\ IsPrefix(pendingRoot.root)
            /\ Len(pendingRoot.root) = pendingRoot.upTo
        BY <3>2, <3>5 DEF Sound, OfQueue
      <4>2. Len(published) < pendingRoot.upTo /\ pendingRoot.upTo <= count /\ Len(published) \in Nat
            /\ count \in Nat
        BY <1>2, <3>2, <3>5 DEF IInv, ChainOK, OfQueue
      <4>3. pendingRoot.root = View!Prefix(pendingRoot.upTo)
        <5>1. DOMAIN pendingRoot.root = 1..pendingRoot.upTo
          BY <4>1
        <5>2. \A i \in 1..pendingRoot.upTo : pendingRoot.root[i] = i
          BY <4>1, <5>1 DEF IsPrefix
        <5>3. pendingRoot.root = [i \in 1..pendingRoot.upTo |-> pendingRoot.root[i]]
          BY <4>1, <5>1
        <5> QED
          BY <5>2, <5>3 DEF View!Prefix
      <4>4. pendingRoot.upTo \in (Len(published) + 1)..count
        BY <3>2, <4>2
      <4> QED
        BY <3>1, <3>3, <3>5, <4>3, <4>4 DEF View!Publish, Spoiled
    <3> QED
      BY <3>4, <3>5
  <2>2. ASSUME NEW t \in Task, Fetch(t)
        PROVE  View!Cross \/ UNCHANGED <<count, published, InsertedTwice \/ Miscounted>>
    <3>1. UNCHANGED <<count, published>> /\ crossed \subseteq crossed'
      BY <2>2 DEF Fetch, chainVars
    <3>2. Spoiled => Spoiled'
      BY <3>1, SpoiledStays
    <3> QED
      BY <3>1, <3>2 DEF View!Cross, Spoiled
  <2>3. ASSUME NEW t \in Task, Step(t) \/ Fail(t), ~Fetch(t),
               ~(ConfirmRoot(t) /\ pendingRoot = local[t].root)
        PROVE  UNCHANGED <<count, published, crossed>>
    BY <2>3 DEF Step, Fail, ReadPendingRoot, ConfirmRoot, ReadProcessed, Resync, ReadCount,
       BeginSync, MaybeSubmitRoot, HasPendingRoot, SubmitRoot, ProposeRoot, Proposed, chainVars
  <2>4. CASE Deposit
    <3>1. count' = count + 1 /\ published' = published /\ crossed' = crossed
      BY <2>4 DEF Deposit
    <3>2. UNCHANGED <<published, InsertedTwice \/ Miscounted>>
      BY <3>1 DEF InsertedTwice, Miscounted
    <3>3. View!Enqueue
      BY <3>1, <3>2, Zenon DEF View!Enqueue
    <3> QED
      BY <3>3 DEF View!ViewNext
  <2>5. ASSUME Boot \/ BatchTimeout \/ Crash \/ Shutdown \/ UNCHANGED vars
        PROVE  UNCHANGED <<count, published, crossed>>
    BY <2>5 DEF Boot, BatchTimeout, Crash, Shutdown, Stop, vars, chainVars
  <2>6. ASSUME (\E p \in Polls : StartPoll(p)) \/ (\E r \in Requests : StartRequest(r))
        PROVE  UNCHANGED <<count, published, crossed>>
    BY <2>6 DEF StartPoll, StartRequest, chainVars
  <2>7. UNCHANGED <<count, published, crossed>> =>
          UNCHANGED <<count, published, InsertedTwice \/ Miscounted>>
    BY DEF InsertedTwice, Miscounted
  <2> QED
    BY <1>2, <2>1, <2>2, <2>3, <2>4, <2>5, <2>6, <2>7 DEF Next, View!ViewNext
<1> QED
  BY <1>1, <1>2, IInvAlways, PTL DEF Spec, ImplementsMaterializedView, View!ViewSpec

-----------------------------------------------------------------------------
\* The files the sequencer saves its progress to (store.ts): they are never
\* torn, and a save is one assignment to the reader, whenever the process
\* ends, which is what a crash and the next boot of ChainSync take it for.

CONSTANTS Path, Value

VARIABLES directory, file, temporary, saving

Files == INSTANCE Store

\* What lies under a path is the complete text of a value.
Complete ==
    /\ file \in [Path -> SUBSET [of : Value, complete : {TRUE}]]
    /\ saving \subseteq [path : Path, value : Value]

\* Init and every step keep the files complete: only a complete text is moved
\* to a path (writeJson).
THEOREM CompleteAlways == Files!Spec => []Complete
<1>1. Files!Init => Complete
  BY DEF Files!Init, Complete
<1>2. Complete /\ [Files!Next]_(Files!vars) => Complete'
  <2> SUFFICES ASSUME Complete, [Files!Next]_(Files!vars) PROVE Complete'
    OBVIOUS
  <2>1. CASE UNCHANGED Files!vars
    BY <2>1 DEF Files!vars, Complete
  <2>2. CASE Files!CreateDirectory \/ Files!WritePart \/ Files!Interrupt
    BY <2>2 DEF Files!CreateDirectory, Files!WritePart, Files!Interrupt, Complete
  <2>3. ASSUME NEW p \in Path, NEW v \in Value, Files!StartSave(p, v) PROVE Complete'
    <3>1. [path |-> p, value |-> v] \in [path : Path, value : Value]
      OBVIOUS
    <3>2. saving' \subseteq [path : Path, value : Value]
      BY <2>3, <3>1 DEF Files!StartSave
    <3> QED BY <2>3, <3>2 DEF Files!StartSave, Complete
  <2>4. CASE Files!Rename
    <3>1. PICK call \in saving : Files!Written(call) /\ file' = [file EXCEPT ![call.path] = temporary]
      BY <2>4 DEF Files!Rename
    <3>2. call.path \in Path /\ call.value \in Value
      BY DEF Complete
    <3>3. file' = [file EXCEPT ![call.path] = {Files!Text(call.value, TRUE)}]
      BY <3>1 DEF Files!Written
    <3>4. {Files!Text(call.value, TRUE)} \subseteq [of : Value, complete : {TRUE}]
      BY <3>2 DEF Files!Text
    <3>5. file' \in [Path -> SUBSET [of : Value, complete : {TRUE}]]
      BY <3>2, <3>3, <3>4 DEF Complete
    <3> QED BY <2>4, <3>5 DEF Files!Rename, Complete
  <2> QED BY <2>1, <2>2, <2>3, <2>4 DEF Files!Next
<1> QED BY <1>1, <1>2, PTL DEF Files!Spec

\* A crash leaves no torn file under a path: readJson never takes for missing
\* what was saved.
THEOREM NeverTornAlways == Files!Spec => []Files!NeverTorn
<1>1. Complete => Files!NeverTorn
  <2> SUFFICES ASSUME Complete, NEW p \in Path, file[p] # {} PROVE Files!Read(p) # {}
    BY DEF Files!NeverTorn
  <2>1. PICK t \in file[p] : TRUE
    OBVIOUS
  <2>2. t \in [of : Value, complete : {TRUE}]
    BY <2>1 DEF Complete
  <2>3. t.of \in Files!Read(p)
    BY <2>1, <2>2 DEF Files!Read
  <2> QED BY <2>3
<1> QED BY <1>1, CompleteAlways, PTL

\* The files implement the cells: what readJson would return changes only by
\* the rename of a save, and then to the saved value.
THEOREM SavesAreAtomic == Files!Spec => Files!Cells!Spec
<1>1. Files!Init => Files!Cells!Init
  BY DEF Files!Init, Files!Cells!Init, Files!Read
<1>2. Complete /\ Complete' /\ [Files!Next]_(Files!vars) => [Files!Cells!Next]_([p \in Path |-> Files!Read(p)])
  <2> SUFFICES ASSUME Complete, Complete', [Files!Next]_(Files!vars)
               PROVE  Files!Cells!Next \/ UNCHANGED [p \in Path |-> Files!Read(p)]
    OBVIOUS
  <2>1. CASE UNCHANGED file
    BY <2>1 DEF Files!Read
  <2>2. CASE Files!Rename
    <3>1. PICK call \in saving : Files!Written(call) /\ file' = [file EXCEPT ![call.path] = temporary]
      BY <2>2 DEF Files!Rename
    <3>2. call.path \in Path /\ call.value \in Value
      BY DEF Complete
    <3>3. file' = [file EXCEPT ![call.path] = {Files!Text(call.value, TRUE)}]
      BY <3>1 DEF Files!Written
    <3>4. file'[call.path] = {Files!Text(call.value, TRUE)}
      BY <3>2, <3>3 DEF Complete
    <3>5. Files!Read(call.path)' = {call.value}
      <4>1. Files!Text(call.value, TRUE).complete /\ Files!Text(call.value, TRUE).of = call.value
        BY DEF Files!Text
      <4>2. {u \in file'[call.path] : u.complete} = {Files!Text(call.value, TRUE)}
        BY <3>4, <4>1
      <4> QED BY <4>1, <4>2 DEF Files!Read
    <3>6. \A p \in Path : p # call.path => Files!Read(p)' = Files!Read(p)
      BY <3>2, <3>3 DEF Complete, Files!Read
    <3>7. Files!Cells!Save(call.path, call.value)
      BY <3>2, <3>5, <3>6 DEF Files!Cells!Save
    <3> QED BY <3>2, <3>7 DEF Files!Cells!Next
  <2>3. CASE ~Files!Rename /\ ~UNCHANGED file
    BY <2>3 DEF Files!Next, Files!vars, Files!CreateDirectory, Files!WritePart, Files!Interrupt, Files!StartSave
  <2> QED BY <2>1, <2>2, <2>3
<1> QED BY <1>1, <1>2, CompleteAlways, PTL DEF Files!Spec, Files!Cells!Spec
=============================================================================
