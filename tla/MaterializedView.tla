-------------------------- MODULE MaterializedView --------------------------
(***************************************************************************)
(* What the sequencer promises of the roots it gets published              *)
(* (docs/adr/001-merkle-root-integrity.md): the queue of commitments is    *)
(* the source of truth, and a published root is always the root of a       *)
(* prefix of the queue, and of a longer one each time.  Once its own tasks  *)
(* have spoiled its view, it is the root of commitments of the queue.      *)
(***************************************************************************)
EXTENDS Integers, Sequences

VARIABLES count,      \* the commitments queued, numbered from 1
          published,  \* the published root: the leaves of its tree
          spoiled     \* two tasks of the sequencer have crossed

Prefix(n) == [i \in 1..n |-> i]

ViewInit == count = 0 /\ published = <<>> /\ spoiled = FALSE

Enqueue == count' = count + 1 /\ UNCHANGED <<published, spoiled>>

Publish ==
    /\ ~spoiled
    /\ \E n \in (Len(published) + 1)..count : published' = Prefix(n)
    /\ UNCHANGED <<count, spoiled>>

Cross == spoiled' = TRUE /\ UNCHANGED <<count, published>>

PublishSpoiled ==
    /\ spoiled
    /\ published' \in Seq(1..count)
    /\ UNCHANGED <<count, spoiled>>

ViewNext == Enqueue \/ Publish \/ Cross \/ PublishSpoiled

ViewSpec == ViewInit /\ [][ViewNext]_<<count, published, spoiled>>
=============================================================================
