------------------------- MODULE AttestationProofs --------------------------
(***************************************************************************)
(* The compliance gate of the operator, and the truth of what it records,  *)
(* for any number of notes, blocks, polls and manual requests in flight,   *)
(* crashes and failures; that a note is stored once unless two scans found *)
(* it at once; and, with --from-block as the scripts give it and a first scan    *)
(* that is answered, that nothing is missed between polls and no answer of *)
(* GET /history is taken back.                                             *)
(***************************************************************************)
EXTENDS Attestation, SequenceSumsProofs

Status == {"none", "deposited", "initiated", "attested", "claimed"}
ChainEvent == [kind : Kind, note : Note]

\* What the lists hold when the chain has n blocks
Found(n) == [note : Note, block : 1..n]
Stored(n) == [note : Note, block : 1..n, depositor : BOOLEAN]
Recorded(n) == [status : {"pending", "attested"}, block : 1..n]
Label == {"boot", "idle", "scan", "collect", "decrypt", "query", "loop", "attest", "attested", "requested"}
Local(n) == [pc : Label, found : Seq(Found(n)), upTo : Nat, deposits : BOOLEAN,
             before : Nat, new : BOOLEAN]

RecordedOK(known, n) ==
  known \in [DOMAIN known -> Recorded(n)] /\ DOMAIN known \subseteq Note

Types ==
  /\ blocks \in Seq(Seq(ChainEvent))
  /\ pool \in [Note -> Status]
  /\ notes \in Seq(Stored(Len(blocks))) /\ diskNotes \in Seq(Stored(Len(blocks)))
  /\ secrets \subseteq Note
  /\ RecordedOK(withdrawals, Len(blocks)) /\ RecordedOK(diskWithdrawals, Len(blocks))
  /\ lastScannedBlock \in Nat /\ lastWithdrawalScannedBlock \in Nat
  /\ local \in [Task -> Local(Len(blocks))]

\* A task that is about to attest has passed the gate; one that comes back
\* from a transaction that was mined has attested.
Gated(t) ==
  /\ At(t, "attest") => local[t].found # <<>> /\ Verified(Current(t), notes)
  /\ At(t, "attested") => local[t].found # <<>> /\ pool[Current(t)] = "attested"

\* Nothing else runs until the state was read from disk.
BootsAlone == At(Main, "boot") => \A t \in Task \ {Main} : At(t, "idle")

IInv ==
  /\ Types
  /\ \A t \in Task : Gated(t)
  /\ BootsAlone
  /\ AttestedOnChain

-----------------------------------------------------------------------------
\* Events

LEMMA GreatestElement ==
  ASSUME NEW n \in Nat, NEW S \in SUBSET (1..n), S # {}
  PROVE  \E k \in S : \A m \in S : m <= k
<1> DEFINE R == {r \in Nat : n - r \in S}
<1>1. R \in SUBSET Nat
  OBVIOUS
<1>2. \A m \in S : n - m \in R
  OBVIOUS
<1>3. PICK r \in R : \A q \in R : r <= q
  BY <1>1, <1>2, LeastElement
<1>4. n - r \in S /\ r \in Nat
  OBVIOUS
<1>5. ASSUME NEW m \in S PROVE m <= n - r
  <2>1. n - m \in R /\ m \in 1..n
    BY <1>2
  <2>2. r <= n - m
    BY <2>1, <1>3
  <2> QED
    BY <2>1, <2>2, <1>4
<1> QED
  BY <1>4, <1>5

LEMMA HighestType ==
  ASSUME NEW n \in Nat, NEW S \in SUBSET (1..n), S # {}
  PROVE  Highest(S) \in Nat
<1>1. PICK k \in S : \A m \in S : m <= k
  BY GreatestElement
<1>2. Highest(S) \in S
  BY <1>1 DEF Highest
<1>3. Highest(S) \in 1..n
  BY <1>2
<1> QED
  BY <1>3

LEMMA SeqIntro ==
  ASSUME NEW S, NEW n \in Int, NEW f, f = [k \in 1..n |-> f[k]], \A k \in 1..n : f[k] \in S
  PROVE  f \in Seq(S)
<1>1. CASE n \in Nat
  BY <1>1
<1>2. CASE n \notin Nat
  <2>1. 1..n = 1..0
    BY <1>2
  <2>2. f = [k \in 1..0 |-> f[k]]
    BY <2>1
  <2>3. \A k \in 1..0 : f[k] \in S
    OBVIOUS
  <2> QED
    BY <2>2, <2>3
<1> QED
  BY <1>1, <1>2

\* The sequences joined so far, which the definition chooses, exist.
LEMMA FlattenPrefixes ==
  ASSUME NEW S, NEW seqs \in Seq(Seq(S)), Len(seqs) # 0
  PROVE  \E f : /\ f = [i \in 1..Len(seqs) |-> IF i = 1 THEN seqs[i] ELSE f[i - 1] \o seqs[i]]
                /\ FlattenSeq(seqs) = f[Len(seqs)]
<1> DEFINE Item(f, i) == IF i = 1 THEN seqs[i] ELSE f[i - 1] \o seqs[i]
           Joined(n) == \E f : f = [i \in 1..n |-> Item(f, i)]
           P == {n \in Nat : Joined(n)}
<1>0. Len(seqs) \in Nat /\ \A i \in 1..Len(seqs) : seqs[i] \in Seq(S)
  OBVIOUS
<1>1. 0 \in P
  <2> DEFINE f == [i \in 1..0 |-> 0]
  <2>1. f = [i \in 1..0 |-> Item(f, i)]
    OBVIOUS
  <2> HIDE DEF f
  <2> QED
    BY <2>1
<1>2. ASSUME NEW n \in Nat, n \in P PROVE n + 1 \in P
  <2>1. PICK g : g = [i \in 1..n |-> Item(g, i)]
    BY <1>2
  <2> DEFINE f == [i \in 1..(n + 1) |-> IF i = n + 1 THEN Item(g, n + 1) ELSE g[i]]
  <2>2. f = [i \in 1..(n + 1) |-> Item(f, i)]
    <3>1. ASSUME NEW i \in 1..(n + 1) PROVE f[i] = Item(f, i)
      <4>1. CASE i = n + 1
        BY <4>1
      <4>2. CASE i # n + 1
        <5>1. i \in 1..n /\ (i # 1 => i - 1 \in 1..n /\ i - 1 # n + 1)
          BY <4>2
        <5>2. f[i] = g[i] /\ g[i] = Item(g, i)
          BY <5>1, <2>1
        <5> QED
          BY <5>1, <5>2
      <4> QED
        BY <4>1, <4>2
    <3> QED
      BY <3>1
  <2> HIDE DEF f
  <2>3. Joined(n + 1)
    BY <2>2
  <2>4. n + 1 \in Nat
    OBVIOUS
  <2> HIDE DEF Joined
  <2> QED
    BY <2>3, <2>4
<1>3. Len(seqs) \in P
  <2> HIDE DEF P
  <2>1. \A n \in Nat : n \in P
    BY <1>1, <1>2, SetInduction
  <2> QED
    BY <1>0, <2>1
<1> DEFINE flatten == CHOOSE f : f = [i \in 1..Len(seqs) |-> Item(f, i)]
<1>4. flatten = [i \in 1..Len(seqs) |-> Item(flatten, i)]
  BY <1>3
<1>5. FlattenSeq(seqs) = flatten[Len(seqs)]
  BY DEF FlattenSeq, flatten
<1> HIDE DEF flatten
<1> QED
  BY <1>4, <1>5

\* Joined sequences of elements of S are a sequence of elements of S.
LEMMA FlattenType ==
  ASSUME NEW S, NEW seqs \in Seq(Seq(S))
  PROVE  FlattenSeq(seqs) \in Seq(S)
<1>0. Len(seqs) \in Nat /\ \A i \in 1..Len(seqs) : seqs[i] \in Seq(S)
  OBVIOUS
<1>1. CASE Len(seqs) = 0
  <2>1. seqs = <<>>
    BY <1>1
  <2> QED
    BY <2>1, <1>1 DEF FlattenSeq
<1>2. CASE Len(seqs) # 0
  <2>1. PICK f : /\ f = [i \in 1..Len(seqs) |-> IF i = 1 THEN seqs[i] ELSE f[i - 1] \o seqs[i]]
                 /\ FlattenSeq(seqs) = f[Len(seqs)]
    BY <1>2, FlattenPrefixes
  <2> DEFINE Q == {n \in Nat : n + 1 \in 1..Len(seqs) => f[n + 1] \in Seq(S)}
  <2>2. 0 \in Q
    <3>1. 1 \in 1..Len(seqs) => f[1] = seqs[1]
      BY <2>1
    <3> QED
      BY <3>1, <1>0
  <2>3. ASSUME NEW n \in Nat, n \in Q PROVE n + 1 \in Q
    <3>1. SUFFICES ASSUME (n + 1) + 1 \in 1..Len(seqs) PROVE f[(n + 1) + 1] \in Seq(S)
      OBVIOUS
    <3>2. n + 1 \in 1..Len(seqs) /\ (n + 1) + 1 # 1 /\ ((n + 1) + 1) - 1 = n + 1
      BY <1>0, <3>1
    <3>3. f[n + 1] \in Seq(S) /\ f[(n + 1) + 1] = f[n + 1] \o seqs[(n + 1) + 1]
      BY <2>1, <2>3, <3>1, <3>2
    <3>4. seqs[(n + 1) + 1] \in Seq(S)
      BY <1>0, <3>1
    <3> QED
      BY <3>3, <3>4
  <2>4. \A n \in Nat : n \in Q
    <3> HIDE DEF Q
    <3> QED
      BY <2>2, <2>3, SetInduction
  <2>5. Len(seqs) - 1 \in Nat /\ (Len(seqs) - 1) + 1 = Len(seqs) /\ Len(seqs) \in 1..Len(seqs)
    BY <1>0, <1>2
  <2>6. f[Len(seqs)] \in Seq(S)
    BY <2>4, <2>5
  <2> QED
    BY <2>1, <2>6
<1> QED
  BY <1>1, <1>2

LEMMA EventsType ==
  ASSUME Types, NEW kind, NEW start \in Nat \ {0}
  PROVE  EventsFrom(kind, start) \in Seq(Found(Len(blocks)))
<1> DEFINE n == Len(blocks)
           entry(b, e) == IF e.kind = kind THEN <<[note |-> e.note, block |-> b]>> ELSE <<>>
           entries(b) == [i \in 1..Len(blocks[b]) |-> entry(b, blocks[b][i])]
           block(b) == FlattenSeq(entries(b))
           seqs == [k \in 1..(n - start + 1) |-> block(start + k - 1)]
<1>1. ASSUME NEW b \in 1..n
      PROVE  block(b) \in Seq(Found(n))
  <2>1. blocks[b] \in Seq(ChainEvent) /\ Len(blocks[b]) \in Nat
    BY DEF Types
  <2>2. ASSUME NEW i \in 1..Len(blocks[b])
        PROVE  entry(b, blocks[b][i]) \in Seq(Found(n))
    <3>1. blocks[b][i] \in ChainEvent
      BY <2>1
    <3>2. [note |-> blocks[b][i].note, block |-> b] \in Found(n)
      BY <3>1 DEF ChainEvent, Found
    <3> QED
      BY <3>2
  <2>3. entries(b) \in Seq(Seq(Found(n)))
    <3>1. entries(b) = [k \in 1..Len(blocks[b]) |-> entries(b)[k]]
      OBVIOUS
    <3> QED
      BY <2>1, <2>2, <3>1, SeqIntro
  <2> QED
    BY <2>3, FlattenType
<1>2. n \in Nat
  BY DEF Types
<1> HIDE DEF block
<1>3. seqs \in Seq(Seq(Found(n)))
  <2>1. \A k \in 1..(n - start + 1) : start + k - 1 \in 1..n
    BY <1>2
  <2>2. \A k \in 1..(n - start + 1) : seqs[k] \in Seq(Found(n))
    BY <1>1, <2>1
  <2>3. seqs = [k \in 1..(n - start + 1) |-> seqs[k]]
    OBVIOUS
  <2>4. n - start + 1 \in Int
    BY <1>2
  <2> HIDE DEF seqs
  <2> QED
    BY <2>2, <2>3, <2>4, SeqIntro
<1>4. EventsFrom(kind, start) = FlattenSeq(seqs)
  BY DEF EventsFrom, block
<1> QED
  BY <1>3, <1>4, FlattenType

-----------------------------------------------------------------------------
\* Tasks

\* What was found, stored or recorded stays so when blocks are added.
LEMMA Grow ==
  ASSUME NEW n \in Nat, NEW m \in Nat, n <= m
  PROVE  /\ Seq(Found(n)) \subseteq Seq(Found(m))
         /\ Seq(Stored(n)) \subseteq Seq(Stored(m))
         /\ Recorded(n) \subseteq Recorded(m)
         /\ Local(n) \subseteq Local(m)
<1>1. 1..n \subseteq 1..m
  OBVIOUS
<1>2. Found(n) \subseteq Found(m) /\ Stored(n) \subseteq Stored(m) /\ Recorded(n) \subseteq Recorded(m)
  BY <1>1 DEF Found, Stored, Recorded
<1>3. Seq(Found(n)) \subseteq Seq(Found(m)) /\ Seq(Stored(n)) \subseteq Seq(Stored(m))
  BY <1>2
<1>4. Local(n) \subseteq Local(m)
  BY <1>3 DEF Local
<1> QED
  BY <1>2, <1>3, <1>4

LEMMA IdleType == ASSUME NEW n \in Nat PROVE Idle \in Local(n)
<1>1. "idle" \in Label
  BY DEF Label
<1>2. <<>> \in Seq(Found(n))
  OBVIOUS
<1> QED
  BY <1>1, <1>2 DEF Idle, Local

LEMMA GotoTask ==
  ASSUME Types, NEW t \in Task, NEW label \in Label, Goto(t, label)
  PROVE  /\ local' \in [Task -> Local(Len(blocks))]
         /\ local'[t].pc = label
         /\ label # "idle" => local'[t].found = local[t].found
         /\ \A u \in Task \ {t} : local'[u] = local[u]
<1>1. Len(blocks) \in Nat /\ local \in [Task -> Local(Len(blocks))]
  BY DEF Types
<1>2. CASE label = "idle"
  <2>1. local' = [local EXCEPT ![t] = Idle]
    BY <1>2 DEF Goto
  <2>2. Idle \in Local(Len(blocks)) /\ Idle.pc = "idle"
    BY <1>1, IdleType DEF Idle
  <2> QED
    BY <1>1, <1>2, <2>1, <2>2
<1>3. CASE label # "idle"
  <2>1. local' = [local EXCEPT ![t] = [@ EXCEPT !.pc = label]]
    BY <1>3 DEF Goto
  <2>2. local[t] \in Local(Len(blocks))
    BY <1>1
  <2>3. /\ [local[t] EXCEPT !.pc = label] \in Local(Len(blocks))
        /\ [local[t] EXCEPT !.pc = label].pc = label
        /\ [local[t] EXCEPT !.pc = label].found = local[t].found
    BY <2>2 DEF Local
  <2> QED
    BY <1>1, <1>3, <2>1, <2>3
<1> QED
  BY <1>2, <1>3

\* A note stays verified while secrets and notes are only added.
LEMMA VerifiedStays ==
  ASSUME notes' = notes \/ \E more \in Seq(Stored(Len(blocks))) : notes' = notes \o more,
         Types, secrets \subseteq secrets', NEW n, Verified(n, notes)
  PROVE  Verified(n, notes)'
<1>1. PICK i \in DOMAIN notes : notes[i].note = n /\ notes[i].depositor
  BY DEF Verified
<1>2. i \in DOMAIN notes' /\ notes'[i] = notes[i]
  <2>1. CASE notes' = notes
    BY <2>1
  <2>2. ASSUME NEW more \in Seq(Stored(Len(blocks))), notes' = notes \o more
        PROVE  i \in DOMAIN notes' /\ notes'[i] = notes[i]
    BY <2>2 DEF Types
  <2> QED
    BY <2>1, <2>2
<1> QED
  BY <1>1, <1>2 DEF Verified

LEMMA CurrentNote ==
  ASSUME Types, NEW t \in Task, local[t].found # <<>>
  PROVE  Current(t) \in Note
<1>1. local[t].found \in Seq(Found(Len(blocks)))
  BY DEF Types, Local
<1>2. local[t].found[1] \in Found(Len(blocks))
  BY <1>1
<1> QED
  BY <1>2 DEF Current, Found

\* What a step leaves to every task that it does not move
Keeps ==
  /\ \A n \in Note : Verified(n, notes) => Verified(n, notes)'
  /\ \A n \in Note : pool[n] = "attested" => pool'[n] = "attested"

LEMMA GatedKeeps ==
  ASSUME Types, NEW t \in Task, Gated(t), Keeps, local'[t] = local[t]
  PROVE  Gated(t)'
<1>1. local[t].found # <<>> => Current(t) \in Note
  BY CurrentNote
<1>2. Current(t)' = Current(t)
  BY DEF Current
<1>3. ASSUME At(t, "attest") PROVE local[t].found # <<>> /\ Verified(Current(t), notes)'
  <2>1. PICK n \in Note : n = Current(t)
    BY <1>1, <1>3 DEF Gated
  <2>2. Verified(n, notes)'
    BY <1>3, <2>1 DEF Gated, Keeps
  <2> QED
    BY <1>2, <1>3, <2>1, <2>2 DEF Gated, Verified
<1>4. ASSUME At(t, "attested") PROVE local[t].found # <<>> /\ pool'[Current(t)'] = "attested"
  BY <1>1, <1>2, <1>4 DEF Gated, Keeps
<1> QED
  BY <1>3, <1>4 DEF Gated, At

\* A step of one task, once the state was read, leaves the others gated.
LEMMA OthersKeep ==
  ASSUME IInv, NEW t \in Task,
         ~At(t, "idle") \/ At(Main, "idle"),
         local'[t].pc # "boot",
         \A u \in Task \ {t} : local'[u] = local[u],
         Keeps, Gated(t)'
  PROVE  (\A u \in Task : Gated(u)') /\ BootsAlone'
<1>1. ASSUME NEW u \in Task \ {t} PROVE Gated(u)'
  BY GatedKeeps DEF IInv
<1>2. BootsAlone'
  <2>1. CASE t = Main
    BY <2>1 DEF BootsAlone, At
  <2>2. CASE t # Main
    <3>1. Main \in Task
      BY DEF Task
    <3>2. ~At(Main, "boot")
      BY <2>2 DEF IInv, BootsAlone, At
    <3> QED
      BY <2>2, <3>1, <3>2 DEF BootsAlone, At
  <2> QED
    BY <2>1, <2>2
<1> QED
  BY <1>1, <1>2

-----------------------------------------------------------------------------
\* The chain

LEMMA MineKeeps ==
  ASSUME IInv, NEW events \in Seq(ChainEvent), Mine(events)
  PROVE  IInv'
<1> DEFINE touched(n) == \E i \in DOMAIN events : events[i].note = n
           last(n) == CHOOSE i \in DOMAIN events : events[i].note = n
<1>1. Types
  BY DEF IInv
<1>2. /\ blocks' = Append(blocks, events)
      /\ pool' = [n \in Note |-> IF touched(n) THEN After(events[last(n)].kind) ELSE pool[n]]
      /\ \A i \in DOMAIN events : pool[events[i].note] = Before(events[i].kind)
      /\ UNCHANGED <<scanVars, secrets, opVars, local>>
  BY DEF Mine
<1>3. \A kind : After(kind) \in Status /\ Before(kind) # "attested"
  BY DEF After, Before, Status
<1>4. pool' \in [Note -> Status]
  BY <1>1, <1>2, <1>3 DEF Types
<1>5. \A n \in Note : pool[n] = "attested" => pool'[n] = "attested"
  BY <1>2, <1>3
<1>6. blocks' \in Seq(Seq(ChainEvent)) /\ Len(blocks) \in Nat /\ Len(blocks') = Len(blocks) + 1
  BY <1>1, <1>2 DEF Types
<1>7. Types'
  <2>1. /\ Seq(Stored(Len(blocks))) \subseteq Seq(Stored(Len(blocks')))
        /\ Recorded(Len(blocks)) \subseteq Recorded(Len(blocks'))
        /\ Local(Len(blocks)) \subseteq Local(Len(blocks'))
    BY <1>6, Grow
  <2>2. local' \in [Task -> Local(Len(blocks'))]
    BY <1>1, <1>2, <2>1 DEF Types
  <2>3. RecordedOK(withdrawals', Len(blocks')) /\ RecordedOK(diskWithdrawals', Len(blocks'))
    BY <1>1, <1>2, <2>1 DEF Types, RecordedOK, opVars
  <2>4. notes' \in Seq(Stored(Len(blocks'))) /\ diskNotes' \in Seq(Stored(Len(blocks')))
    BY <1>1, <1>2, <2>1 DEF Types, scanVars
  <2> QED
    BY <1>1, <1>2, <1>4, <1>6, <2>2, <2>3, <2>4 DEF Types, scanVars, opVars
<1>8. Keeps
  BY <1>2, <1>5 DEF Keeps, Verified, scanVars
<1>9. ASSUME NEW t \in Task PROVE Gated(t)'
  BY <1>1, <1>2, <1>8, GatedKeeps DEF IInv
<1>10. BootsAlone'
  BY <1>2 DEF IInv, BootsAlone, At
<1>11. AttestedOnChain'
  BY <1>1, <1>2, <1>5 DEF IInv, AttestedOnChain, opVars, Types, RecordedOK
<1> QED
  BY <1>7, <1>9, <1>10, <1>11 DEF IInv

LEMMA ClaimKeeps ==
  ASSUME IInv, NEW n \in Note, Claim(n)
  PROVE  IInv'
<1>1. Types
  BY DEF IInv
<1>2. /\ pool[n] = "initiated" /\ pool' = [pool EXCEPT ![n] = "claimed"]
      /\ UNCHANGED <<blocks, scanVars, secrets, opVars, local>>
  BY DEF Claim
<1>3. pool' \in [Note -> Status]
  BY <1>1, <1>2 DEF Types, Status
<1>4. \A k \in Note : pool[k] = "attested" => pool'[k] = "attested"
  BY <1>1, <1>2 DEF Types
<1>5. Types'
  BY <1>1, <1>2, <1>3 DEF Types, scanVars, opVars, RecordedOK
<1>6. Keeps
  BY <1>2, <1>4 DEF Keeps, Verified, scanVars
<1>7. ASSUME NEW t \in Task PROVE Gated(t)'
  BY <1>1, <1>2, <1>6, GatedKeeps DEF IInv
<1>8. BootsAlone'
  BY <1>2 DEF IInv, BootsAlone, At
<1>9. AttestedOnChain'
  BY <1>1, <1>2, <1>4 DEF IInv, AttestedOnChain, opVars, Types, RecordedOK
<1> QED
  BY <1>5, <1>7, <1>8, <1>9 DEF IInv

-----------------------------------------------------------------------------
\* Start and tasks

LEMMA BootKeeps == ASSUME IInv, Boot PROVE IInv'
<1> DEFINE from(known) == IF known = {} THEN Len(blocks) ELSE Highest(known)
           stored == {diskNotes[i].block : i \in DOMAIN diskNotes}
           recorded == {diskWithdrawals[n].block : n \in DOMAIN diskWithdrawals}
<1>1. Types /\ Main \in Task /\ "scan" \in Label /\ Len(blocks) \in Nat
  BY DEF IInv, Task, Label, Types
<1>2. /\ At(Main, "boot") /\ notes' = diskNotes /\ lastScannedBlock' = from(stored)
      /\ withdrawals' = diskWithdrawals /\ lastWithdrawalScannedBlock' = from(recorded)
      /\ Goto(Main, "scan") /\ UNCHANGED <<chainVars, diskNotes, secrets, diskWithdrawals>>
  BY DEF Boot
<1>3. stored \in SUBSET (1..Len(blocks))
  <2>1. \A i \in DOMAIN diskNotes : diskNotes[i] \in Stored(Len(blocks))
    BY <1>1 DEF Types
  <2> QED
    BY <2>1 DEF Stored
<1>4. recorded \in SUBSET (1..Len(blocks))
  BY <1>1 DEF Types, RecordedOK, Recorded
<1> HIDE DEF stored, recorded
<1>5. from(stored) \in Nat /\ from(recorded) \in Nat
  BY <1>1, <1>3, <1>4, HighestType
<1>6. /\ local' \in [Task -> Local(Len(blocks))] /\ local'[Main].pc = "scan"
      /\ \A u \in Task \ {Main} : local'[u] = local[u]
  BY <1>1, <1>2, GotoTask
<1>7. Types'
  BY <1>1, <1>2, <1>5, <1>6 DEF Types, RecordedOK, chainVars
<1>8. ASSUME NEW t \in Task PROVE Gated(t)'
  <2>1. CASE t = Main
    BY <1>6, <2>1 DEF Gated, At
  <2>2. CASE t # Main
    BY <1>2, <1>6, <2>2 DEF IInv, BootsAlone, Gated, At
  <2> QED
    BY <2>1, <2>2
<1>9. BootsAlone'
  BY <1>6 DEF BootsAlone, At
<1>10. AttestedOnChain'
  BY <1>2 DEF IInv, AttestedOnChain, chainVars
<1> QED
  BY <1>7, <1>8, <1>9, <1>10 DEF IInv

LEMMA StartPollKeeps == ASSUME IInv, NEW p \in Polls, StartPoll(p) PROVE IInv'
<1>1. Types /\ p \in Task /\ "scan" \in Label
  BY DEF IInv, Task, Label
<1>2. /\ At(Main, "idle") /\ UNCHANGED <<chainVars, scanVars, secrets, opVars>>
      /\ local' = [local EXCEPT ![p] = [local[p] EXCEPT !.pc = "scan", !.before = Len(notes)]]
  <2>1. local \in [Task -> Local(Len(blocks))]
    BY <1>1 DEF Types
  <2> QED
    BY <1>1, <2>1 DEF StartPoll
<1>3. local[p] \in Local(Len(blocks)) /\ Len(notes) \in Nat
  BY <1>1 DEF Types
<1>4. [local[p] EXCEPT !.pc = "scan", !.before = Len(notes)] \in Local(Len(blocks))
  BY <1>1, <1>3 DEF Local
<1>5. /\ local' \in [Task -> Local(Len(blocks))] /\ local'[p].pc = "scan"
      /\ \A u \in Task \ {p} : local'[u] = local[u]
  BY <1>1, <1>2, <1>3, <1>4 DEF Types, Local
<1>6. Types'
  BY <1>1, <1>2, <1>5 DEF Types, RecordedOK, chainVars, scanVars, opVars
<1>7. Keeps
  BY <1>2 DEF Keeps, Verified, chainVars, scanVars
<1>8. Gated(p)'
  BY <1>5 DEF Gated, At
<1>9. (\A u \in Task : Gated(u)') /\ BootsAlone'
  BY <1>1, <1>2, <1>5, <1>7, <1>8, OthersKeep
<1>10. AttestedOnChain'
  BY <1>2 DEF IInv, AttestedOnChain, chainVars, opVars
<1> QED
  BY <1>6, <1>9, <1>10 DEF IInv

\* A step of one task that changes nothing but where it is and what it holds
LEMMA LocalKeeps ==
  ASSUME IInv, NEW t \in Task, ~At(t, "idle") \/ At(Main, "idle"),
         UNCHANGED <<chainVars, notes, lastScannedBlock, diskNotes, secrets, opVars>>,
         NEW l \in Local(Len(blocks)), local' = [local EXCEPT ![t] = l],
         l.pc # "boot", Gated(t)'
  PROVE  IInv'
<1>1. Types
  BY DEF IInv
<1>2. /\ local' \in [Task -> Local(Len(blocks))] /\ local'[t] = l
      /\ \A u \in Task \ {t} : local'[u] = local[u]
  BY <1>1 DEF Types
<1>3. Types'
  BY <1>1, <1>2 DEF Types, RecordedOK, chainVars, scanVars, opVars
<1>4. Keeps
  BY DEF Keeps, Verified, chainVars, scanVars
<1>5. (\A u \in Task : Gated(u)') /\ BootsAlone'
  BY <1>2, <1>4, OthersKeep
<1>6. AttestedOnChain'
  BY DEF IInv, AttestedOnChain, chainVars, opVars
<1> QED
  BY <1>3, <1>5, <1>6 DEF IInv

\* A step that only moves a task, not into an attestation
LEMMA MoveKeeps ==
  ASSUME IInv, NEW t \in Task, ~At(t, "idle") \/ At(Main, "idle"),
         UNCHANGED <<chainVars, notes, lastScannedBlock, diskNotes, secrets, opVars>>,
         NEW label \in Label \ {"boot", "attest", "attested"}, Goto(t, label)
  PROVE  IInv'
<1>1. Types /\ Len(blocks) \in Nat /\ local \in [Task -> Local(Len(blocks))]
  BY DEF IInv, Types
<1>2. local'[t].pc = label
  BY <1>1, GotoTask
<1>3. Gated(t)'
  BY <1>2 DEF Gated, At
<1>4. CASE label = "idle"
  <2>1. local' = [local EXCEPT ![t] = Idle]
    BY <1>4 DEF Goto
  <2>2. Idle \in Local(Len(blocks)) /\ Idle.pc # "boot"
    BY <1>1, IdleType DEF Idle
  <2> QED
    BY <1>3, <2>1, <2>2, LocalKeeps
<1>5. CASE label # "idle"
  <2> DEFINE l == [local[t] EXCEPT !.pc = label]
  <2>1. local' = [local EXCEPT ![t] = l]
    BY <1>5 DEF Goto
  <2>2. local[t] \in Local(Len(blocks))
    BY <1>1
  <2>3. l \in Local(Len(blocks)) /\ l.pc # "boot"
    BY <2>2 DEF Local
  <2> HIDE DEF l
  <2> QED
    BY <1>3, <2>1, <2>3, LocalKeeps
<1> QED
  BY <1>4, <1>5

-----------------------------------------------------------------------------
\* scan

LEMMA StartBlockType ==
  ASSUME NEW t, NEW next \in Nat \ {0}
  PROVE  StartBlock(t, next) \in Nat \ {0}
  BY AttestationAssumption DEF StartBlock

LEMMA UnstoredType ==
  ASSUME NEW S, NEW events \in Seq(S)
  PROVE  Unstored(events) \in Seq(S)
<1> DEFINE stored(e) == \E i \in DOMAIN notes : notes[i].note = e.note
           seqs == [i \in 1..Len(events) |-> IF stored(events[i]) THEN <<>> ELSE <<events[i]>>]
<1>1. \A i \in 1..Len(events) : events[i] \in S
  OBVIOUS
<1> HIDE DEF stored
<1>2. \A i \in 1..Len(events) : seqs[i] \in Seq(S)
  BY <1>1
<1>3. seqs = [i \in 1..Len(events) |-> seqs[i]] /\ Len(events) \in Int
  OBVIOUS
<1> HIDE DEF seqs
<1>4. seqs \in Seq(Seq(S))
  BY <1>2, <1>3, SeqIntro
<1> QED
  BY <1>4, FlattenType DEF Unstored, seqs, stored

LEMMA LastBlockType ==
  ASSUME NEW n \in Nat, NEW events \in Seq(Found(n)), events # <<>>
  PROVE  LastBlock(events) \in Nat
<1>1. Len(events) \in 1..Len(events)
  OBVIOUS
<1>2. events[Len(events)] \in Found(n)
  BY <1>1
<1> QED
  BY <1>2 DEF LastBlock, Found

LEMMA QueryNotesKeeps == ASSUME IInv, NEW t \in Task, QueryNotes(t) PROVE IInv'
<1> DEFINE events == EventsFrom("EncryptedNote", StartBlock(t, lastScannedBlock + 1))
           l == [local[t] EXCEPT !.pc = "collect", !.found = Unstored(events),
                                 !.upTo = LastBlock(events)]
<1>1. Types /\ Len(blocks) \in Nat /\ local[t] \in Local(Len(blocks))
  BY DEF IInv, Types
<1>2. /\ At(t, "scan") /\ UNCHANGED <<chainVars, notes, lastScannedBlock, diskNotes, secrets, opVars>>
      /\ (events = <<>> => Goto(t, "decrypt"))
      /\ (events # <<>> => local' = [local EXCEPT ![t].pc = "collect",
            ![t].found = Unstored(events), ![t].upTo = LastBlock(events)])
  BY DEF QueryNotes
<1>3. events \in Seq(Found(Len(blocks)))
  <2>1. lastScannedBlock + 1 \in Nat \ {0}
    BY <1>1 DEF Types
  <2>2. StartBlock(t, lastScannedBlock + 1) \in Nat \ {0}
    BY <2>1, StartBlockType
  <2> QED
    BY <1>1, <2>2, EventsType
<1> HIDE DEF events
<1>4. CASE events = <<>>
  <2>1. "decrypt" \in Label \ {"boot", "attest", "attested"} /\ ~At(t, "idle")
    BY <1>2 DEF Label, At
  <2> QED
    BY <1>2, <1>4, <2>1, MoveKeeps
<1>5. CASE events # <<>>
  <2>1. Unstored(events) \in Seq(Found(Len(blocks)))
    BY <1>3, UnstoredType
  <2>2. LastBlock(events) \in Nat
    BY <1>1, <1>3, <1>5, LastBlockType
  <2>3. l \in Local(Len(blocks)) /\ l.pc = "collect"
    BY <1>1, <2>1, <2>2 DEF Local, Label
  <2>4. local' = [local EXCEPT ![t] = l]
    BY <1>1, <1>2, <1>5 DEF Types
  <2> HIDE DEF l
  <2>5. local'[t].pc = "collect"
    BY <1>1, <2>3, <2>4 DEF Types
  <2>6. Gated(t)' /\ ~At(t, "idle") /\ l.pc # "boot"
    BY <1>2, <2>3, <2>5 DEF Gated, At
  <2> QED
    BY <1>2, <2>3, <2>4, <2>6, LocalKeeps
<1> QED
  BY <1>4, <1>5

LEMMA CollectNotesKeeps == ASSUME IInv, NEW t \in Task, CollectNotes(t) PROVE IInv'
<1> DEFINE found == local[t].found
           more == [i \in DOMAIN found |->
              [note |-> found[i].note, block |-> found[i].block, depositor |-> local[t].deposits]]
<1>1. Types /\ Len(blocks) \in Nat /\ local[t] \in Local(Len(blocks)) /\ "decrypt" \in Label
  BY DEF IInv, Types, Label
<1>2. /\ At(t, "collect") /\ notes' = notes \o more /\ Goto(t, "decrypt")
      /\ (found = <<>> => UNCHANGED <<lastScannedBlock, diskNotes>>)
      /\ (found # <<>> => lastScannedBlock' = local[t].upTo /\ diskNotes' = notes')
      /\ UNCHANGED <<chainVars, secrets, opVars>>
  BY DEF CollectNotes, ScannedUpTo
<1>3. more \in Seq(Stored(Len(blocks)))
  <2>1. found \in Seq(Found(Len(blocks))) /\ local[t].deposits \in BOOLEAN
    BY <1>1 DEF Local
  <2>2. \A i \in 1..Len(found) : found[i] \in Found(Len(blocks))
    BY <2>1
  <2>3. DOMAIN found = 1..Len(found) /\ Len(found) \in Int
    BY <2>1
  <2> HIDE DEF found
  <2>4. \A i \in 1..Len(found) : more[i] \in Stored(Len(blocks))
    BY <2>1, <2>2, <2>3 DEF Found, Stored
  <2>5. more = [i \in 1..Len(found) |-> more[i]]
    BY <2>3
  <2> HIDE DEF more
  <2> QED
    BY <2>3, <2>4, <2>5, SeqIntro
<1> HIDE DEF more
<1>4. notes' \in Seq(Stored(Len(blocks)))
  BY <1>1, <1>2, <1>3 DEF Types
<1>5. lastScannedBlock' \in Nat /\ diskNotes' \in Seq(Stored(Len(blocks)))
  BY <1>1, <1>2, <1>4 DEF Types, Local
<1>6. /\ local' \in [Task -> Local(Len(blocks))] /\ local'[t].pc = "decrypt"
      /\ \A u \in Task \ {t} : local'[u] = local[u]
  BY <1>1, <1>2, GotoTask
<1>7. Types'
  BY <1>1, <1>2, <1>4, <1>5, <1>6 DEF Types, RecordedOK, chainVars, opVars
<1>8. Keeps
  <2>1. secrets' = secrets /\ pool' = pool
    BY <1>2 DEF chainVars
  <2>2. \A n : Verified(n, notes) => Verified(n, notes)'
    BY <1>1, <1>2, <1>3, <2>1, VerifiedStays
  <2> QED
    BY <2>1, <2>2 DEF Keeps
<1>9. Gated(t)' /\ ~At(t, "idle")
  BY <1>2, <1>6 DEF Gated, At
<1>10. (\A u \in Task : Gated(u)') /\ BootsAlone'
  BY <1>6, <1>8, <1>9, OthersKeep
<1>11. AttestedOnChain'
  BY <1>2 DEF IInv, AttestedOnChain, chainVars, opVars
<1> QED
  BY <1>7, <1>10, <1>11 DEF IInv

LEMMA DecryptNotesKeeps == ASSUME IInv, NEW t \in Task, DecryptNotes(t) PROVE IInv'
<1> DEFINE opened == {notes[i].note : i \in (local[t].before + 1)..Len(notes)}
<1>1. Types /\ Len(blocks) \in Nat /\ local[t] \in Local(Len(blocks)) /\ "query" \in Label
  BY DEF IInv, Types, Label
<1>2. /\ At(t, "decrypt") /\ secrets' = secrets \cup opened /\ Goto(t, "query")
      /\ UNCHANGED <<chainVars, scanVars, opVars>>
  BY DEF DecryptNotes
<1>3. opened \subseteq Note
  <2>1. local[t].before \in Nat
    BY <1>1 DEF Local
  <2>2. \A i \in (local[t].before + 1)..Len(notes) : notes[i] \in Stored(Len(blocks))
    BY <1>1, <2>1 DEF Types
  <2> QED
    BY <2>2 DEF Stored
<1> HIDE DEF opened
<1>4. /\ local' \in [Task -> Local(Len(blocks))] /\ local'[t].pc = "query"
      /\ \A u \in Task \ {t} : local'[u] = local[u]
  BY <1>1, <1>2, GotoTask
<1>5. Types'
  BY <1>1, <1>2, <1>3, <1>4 DEF Types, RecordedOK, chainVars, scanVars, opVars
<1>6. Keeps
  BY <1>2 DEF Keeps, Verified, chainVars, scanVars
<1>7. Gated(t)' /\ ~At(t, "idle")
  BY <1>2, <1>4 DEF Gated, At
<1>8. (\A u \in Task : Gated(u)') /\ BootsAlone'
  BY <1>4, <1>6, <1>7, OthersKeep
<1>9. AttestedOnChain'
  BY <1>2 DEF IInv, AttestedOnChain, chainVars, opVars
<1> QED
  BY <1>5, <1>8, <1>9 DEF IInv

-----------------------------------------------------------------------------
\* scanWithdrawals

LEMMA QueryWithdrawalsKeeps == ASSUME IInv, NEW t \in Task, QueryWithdrawals(t) PROVE IInv'
<1> DEFINE next == IF lastWithdrawalScannedBlock > 0 THEN lastWithdrawalScannedBlock + 1 ELSE 1
           events == EventsFrom("WithdrawalInitiated", StartBlock(t, next))
           l == [local[t] EXCEPT !.pc = "loop", !.found = events, !.new = FALSE,
                                 !.upTo = LastBlock(events)]
<1>1. Types /\ Len(blocks) \in Nat /\ local[t] \in Local(Len(blocks))
  BY DEF IInv, Types
<1>2. /\ At(t, "query") /\ UNCHANGED <<chainVars, scanVars, secrets, opVars>>
      /\ (events = <<>> => Goto(t, "idle"))
      /\ (events # <<>> => local' = [local EXCEPT ![t].pc = "loop",
            ![t].found = events, ![t].new = FALSE, ![t].upTo = LastBlock(events)])
  BY DEF QueryWithdrawals
<1>3. events \in Seq(Found(Len(blocks)))
  <2>1. next \in Nat \ {0}
    BY <1>1 DEF Types
  <2> HIDE DEF next
  <2>2. StartBlock(t, next) \in Nat \ {0}
    BY <2>1, StartBlockType
  <2> QED
    BY <1>1, <2>2, EventsType
<1> HIDE DEF events
<1>4. CASE events = <<>>
  <2>1. "idle" \in Label \ {"boot", "attest", "attested"} /\ ~At(t, "idle")
    BY <1>2 DEF Label, At
  <2> QED
    BY <1>2, <1>4, <2>1, MoveKeeps DEF scanVars
<1>5. CASE events # <<>>
  <2>1. LastBlock(events) \in Nat
    BY <1>1, <1>3, <1>5, LastBlockType
  <2>2. l \in Local(Len(blocks)) /\ l.pc = "loop"
    BY <1>1, <1>3, <2>1 DEF Local, Label
  <2>3. local' = [local EXCEPT ![t] = l]
    BY <1>1, <1>2, <1>5 DEF Types
  <2> HIDE DEF l
  <2>4. local'[t].pc = "loop"
    BY <1>1, <2>2, <2>3 DEF Types
  <2>5. Gated(t)' /\ ~At(t, "idle") /\ l.pc # "boot"
    BY <1>2, <2>2, <2>4 DEF Gated, At
  <2> QED
    BY <1>2, <2>2, <2>3, <2>5, LocalKeeps DEF scanVars
<1> QED
  BY <1>4, <1>5

LEMMA ExamineWithdrawalsKeeps ==
  ASSUME IInv, NEW t \in Task, ExamineWithdrawals(t)
  PROVE  IInv'
<1> DEFINE found == local[t].found
           unknown == {i \in DOMAIN found : found[i].note \notin DOMAIN withdrawals}
           stops == {i \in unknown : AutoAttest /\ Passes(found[i].note, notes)}
           stop == CHOOSE i \in stops : \A j \in stops : i <= j
           added == {i \in unknown : stops = {} \/ i <= stop}
           key == {found[i].note : i \in added}
           of(n) == CHOOSE i \in added : found[i].note = n
           l == [local[t] EXCEPT !.pc = "attest", !.new = TRUE,
                                 !.found = SubSeq(found, stop, Len(found))]
<1>1. Types /\ Len(blocks) \in Nat /\ local[t] \in Local(Len(blocks)) /\ "idle" \in Label
  BY DEF IInv, Types, Label
<1>2. /\ At(t, "loop") /\ UNCHANGED <<chainVars, scanVars, secrets>>
      /\ withdrawals' = [n \in DOMAIN withdrawals \cup key |->
           IF n \in DOMAIN withdrawals THEN withdrawals[n]
           ELSE [status |-> "pending", block |-> found[of(n)].block]]
      /\ (stops # {} => /\ UNCHANGED <<lastWithdrawalScannedBlock, diskWithdrawals>>
                        /\ local' = [local EXCEPT ![t].pc = "attest", ![t].new = TRUE,
                                       ![t].found = SubSeq(found, stop, Len(found))])
      /\ (stops = {} => /\ lastWithdrawalScannedBlock' = local[t].upTo
                        /\ diskWithdrawals' \in {withdrawals', diskWithdrawals}
                        /\ Goto(t, "idle"))
  BY DEF ExamineWithdrawals, WithdrawalsUpTo
<1>3. /\ found \in Seq(Found(Len(blocks))) /\ DOMAIN found = 1..Len(found) /\ Len(found) \in Nat
      /\ \A i \in DOMAIN found : found[i] \in Found(Len(blocks))
      /\ local[t].upTo \in Nat
  BY <1>1 DEF Local
<1>4. stops # {} => stop \in stops
  <2>1. stops \in SUBSET Nat
    BY <1>3
  <2> HIDE DEF stops
  <2> QED
    BY <2>1, LeastElement
<1>5. RecordedOK(withdrawals, Len(blocks))'
  <2>1. ASSUME NEW n \in key PROVE n \in Note /\ of(n) \in DOMAIN found
    <3>1. PICK i \in added : found[i].note = n
      OBVIOUS
    <3>2. i \in DOMAIN found /\ found[i] \in Found(Len(blocks))
      BY <1>3
    <3>3. n \in Note
      BY <3>1, <3>2 DEF Found
    <3>4. of(n) \in added
      BY <3>1
    <3> QED
      BY <3>3, <3>4
  <2>2. ASSUME NEW n \in key
        PROVE  [status |-> "pending", block |-> found[of(n)].block] \in Recorded(Len(blocks))
    BY <1>3, <2>1, <2>2 DEF Found, Recorded
  <2> HIDE DEF key, of
  <2> QED
    BY <1>1, <1>2, <2>1, <2>2 DEF Types, RecordedOK, chainVars
<1> HIDE DEF key, of, stops, stop, found
<1>6. AttestedOnChain'
  <2>1. \A n \in DOMAIN withdrawals' : withdrawals'[n].status = "attested" =>
          n \in DOMAIN withdrawals /\ withdrawals'[n] = withdrawals[n]
    BY <1>2
  <2>2. \A n \in DOMAIN withdrawals' : withdrawals'[n].status = "attested" => pool'[n] = "attested"
    BY <1>2, <2>1 DEF IInv, AttestedOnChain, chainVars
  <2>3. diskWithdrawals' \in {withdrawals', diskWithdrawals}
    BY <1>2
  <2>4. \A n \in DOMAIN diskWithdrawals :
          diskWithdrawals[n].status = "attested" => pool'[n] = "attested"
    BY <1>2 DEF IInv, AttestedOnChain, chainVars
  <2> QED
    BY <2>2, <2>3, <2>4 DEF AttestedOnChain
<1>7. Keeps
  BY <1>2 DEF Keeps, Verified, chainVars, scanVars
<1>8. RecordedOK(diskWithdrawals, Len(blocks))'
  BY <1>1, <1>2, <1>5 DEF Types, chainVars, RecordedOK
<1>9. lastWithdrawalScannedBlock' \in Nat
  BY <1>1, <1>2, <1>3 DEF Types
<1>10. /\ local' \in [Task -> Local(Len(blocks))] /\ Gated(t)' /\ local'[t].pc # "boot"
       /\ \A u \in Task \ {t} : local'[u] = local[u]
  <2>1. CASE stops = {}
    <3>1. /\ local' \in [Task -> Local(Len(blocks))] /\ local'[t].pc = "idle"
          /\ \A u \in Task \ {t} : local'[u] = local[u]
      BY <1>1, <1>2, <2>1, GotoTask
    <3> QED
      BY <3>1 DEF Gated, At
  <2>2. CASE stops # {}
    <3>1. stop \in DOMAIN found /\ Verified(found[stop].note, notes)
      BY <1>4, <2>2 DEF Passes, stops
    <3>2. /\ SubSeq(found, stop, Len(found)) \in Seq(Found(Len(blocks)))
          /\ SubSeq(found, stop, Len(found)) # <<>>
          /\ SubSeq(found, stop, Len(found))[1] = found[stop]
      <4>1. stop \in 1..Len(found)
        BY <1>3, <3>1
      <4> QED
        BY <1>3, <4>1
    <3>3. local' = [local EXCEPT ![t] = l]
      BY <1>1, <1>2, <2>2 DEF Types
    <3>4. /\ l \in Local(Len(blocks)) /\ l.pc = "attest"
          /\ l.found # <<>> /\ l.found[1] = found[stop]
      BY <1>1, <3>2 DEF Local, Label
    <3> HIDE DEF l
    <3>5. /\ local' \in [Task -> Local(Len(blocks))] /\ local'[t] = l
          /\ \A u \in Task \ {t} : local'[u] = local[u]
      BY <1>1, <3>3, <3>4 DEF Types
    <3>6. Verified(Current(t)', notes)
      BY <3>1, <3>4, <3>5 DEF Current
    <3>7. Gated(t)'
      BY <1>2, <3>4, <3>5, <3>6 DEF Gated, At, Verified, scanVars
    <3> QED
      BY <3>4, <3>5, <3>7
  <2> QED
    BY <2>1, <2>2
<1>11. (\A u \in Task : Gated(u)') /\ BootsAlone'
  <2>1. ~At(t, "idle")
    BY <1>2 DEF At
  <2> QED
    BY <1>7, <1>10, <2>1, OthersKeep
<1>12. Types'
  BY <1>1, <1>2, <1>5, <1>8, <1>9, <1>10 DEF Types, RecordedOK, chainVars, scanVars
<1> QED
  BY <1>6, <1>11, <1>12 DEF IInv

-----------------------------------------------------------------------------
\* attest

LEMMA RequestAttestationKeeps ==
  ASSUME IInv, NEW a \in Admins, NEW n \in Note, RequestAttestation(a, n)
  PROVE  IInv'
<1> DEFINE item == [note |-> n, block |-> withdrawals[n].block]
           l == [local[a] EXCEPT !.pc = "requested", !.found = <<item>>]
<1>1. Types /\ a \in Task /\ local[a] \in Local(Len(blocks))
  BY DEF IInv, Types, Task
<1>2. /\ At(Main, "idle") /\ n \in DOMAIN withdrawals
      /\ UNCHANGED <<chainVars, scanVars, secrets, opVars>>
      /\ local' = [local EXCEPT ![a].pc = "requested", ![a].found = <<item>>]
  BY DEF RequestAttestation
<1>3. item \in Found(Len(blocks))
  BY <1>1, <1>2 DEF Types, RecordedOK, Recorded, Found
<1> HIDE DEF item
<1>4. <<item>> \in Seq(Found(Len(blocks)))
  BY <1>3
<1>5. l \in Local(Len(blocks)) /\ l.pc = "requested"
  BY <1>1, <1>4 DEF Local, Label
<1>6. local' = [local EXCEPT ![a] = l]
  BY <1>1, <1>2 DEF Types
<1> HIDE DEF l
<1>7. local'[a].pc = "requested"
  BY <1>1, <1>5, <1>6 DEF Types
<1>8. Gated(a)' /\ l.pc # "boot"
  BY <1>5, <1>7 DEF Gated, At
<1> QED
  BY <1>1, <1>2, <1>5, <1>6, <1>8, LocalKeeps DEF scanVars

\* Without the notes nothing passes: the request ends there.
LEMMA ManualAttestKeeps == ASSUME IInv, NEW a \in Admins, ManualAttest(a) PROVE IInv'
<1>1. /\ At(a, "requested") /\ UNCHANGED <<chainVars, scanVars, secrets, opVars>>
      /\ Goto(a, "idle")
  BY DEF ManualAttest, Passes, Verified
<1>2. a \in Task /\ ~At(a, "idle") /\ "idle" \in Label \ {"boot", "attest", "attested"}
  BY <1>1 DEF Task, Label, At
<1> QED
  BY <1>1, <1>2, MoveKeeps DEF scanVars

LEMMA ReturnType == ASSUME NEW t PROVE Return(t) \in Label \ {"boot", "attest", "attested"}
  BY DEF Return, Label

LEMMA AttestWithdrawalKeeps == ASSUME IInv, NEW t \in Task, AttestWithdrawal(t) PROVE IInv'
<1>1. Types /\ Len(blocks) \in Nat /\ "attested" \in Label
  BY DEF IInv, Types, Label
<1>2. /\ At(t, "attest") /\ ~At(t, "idle") /\ UNCHANGED <<blocks, scanVars, secrets, opVars>>
      /\ local[t].found # <<>>
  BY DEF AttestWithdrawal, At, IInv, Gated
<1>3. Current(t) \in Note
  BY <1>1, <1>2, CurrentNote
<1>4. CASE pool[Current(t)] = "initiated"
  <2>1. pool' = [pool EXCEPT ![Current(t)] = "attested"] /\ Goto(t, "attested")
    BY <1>4 DEF AttestWithdrawal
  <2>2. /\ local' \in [Task -> Local(Len(blocks))] /\ local'[t].pc = "attested"
        /\ local'[t].found = local[t].found /\ \A u \in Task \ {t} : local'[u] = local[u]
    BY <1>1, <2>1, GotoTask
  <2>3. pool' \in [Note -> Status] /\ pool'[Current(t)] = "attested"
    BY <1>1, <1>3, <2>1 DEF Types, Status
  <2>4. \A n \in Note : pool[n] = "attested" => pool'[n] = "attested"
    BY <1>1, <2>1 DEF Types
  <2>5. Gated(t)'
    BY <1>2, <2>2, <2>3 DEF Gated, At, Current
  <2>6. Keeps
    BY <1>2, <2>4 DEF Keeps, Verified, scanVars
  <2>7. (\A u \in Task : Gated(u)') /\ BootsAlone'
    BY <1>2, <2>2, <2>5, <2>6, OthersKeep
  <2>8. Types'
    BY <1>1, <1>2, <2>2, <2>3 DEF Types, RecordedOK, scanVars, opVars
  <2>9. AttestedOnChain'
    BY <1>1, <1>2, <2>4 DEF IInv, AttestedOnChain, opVars, Types, RecordedOK
  <2> QED
    BY <2>7, <2>8, <2>9 DEF IInv
<1>5. CASE pool[Current(t)] # "initiated"
  <2>1. Goto(t, Return(t)) /\ pool' = pool
    BY <1>5 DEF AttestWithdrawal, AfterRevert
  <2>2. UNCHANGED <<chainVars, scanVars, secrets, opVars>>
    BY <1>2, <2>1 DEF chainVars
  <2> QED
    BY <1>2, <2>1, <2>2, ReturnType, MoveKeeps DEF scanVars
<1> QED
  BY <1>4, <1>5

LEMMA AttestedKeeps == ASSUME IInv, NEW t \in Task, Attested(t) PROVE IInv'
<1> DEFINE c == Current(t)
<1>1. Types /\ Len(blocks) \in Nat /\ Return(t) \in Label /\ Return(t) \notin {"boot", "attest", "attested"}
  BY ReturnType DEF IInv, Types
<1>2. /\ At(t, "attested") /\ ~At(t, "idle") /\ pool[c] = "attested"
      /\ withdrawals' = [withdrawals EXCEPT ![c].status = "attested"]
      /\ diskWithdrawals' = withdrawals'
      /\ Goto(t, Return(t))
      /\ UNCHANGED <<chainVars, scanVars, secrets, lastWithdrawalScannedBlock>>
  BY DEF Attested, At, IInv, Gated, WithAttested, Saved
<1> HIDE DEF c
<1>3. RecordedOK(withdrawals', Len(blocks))
  <2>1. withdrawals \in [DOMAIN withdrawals -> Recorded(Len(blocks))] /\ DOMAIN withdrawals \subseteq Note
    BY <1>1 DEF Types, RecordedOK
  <2>2. \A n \in DOMAIN withdrawals : [withdrawals[n] EXCEPT !.status = "attested"] \in Recorded(Len(blocks))
    BY <2>1 DEF Recorded
  <2> QED
    BY <1>2, <2>1, <2>2 DEF RecordedOK
<1>4. \A n \in DOMAIN withdrawals' : withdrawals'[n].status = "attested" => pool[n] = "attested"
  <2>1. \A n \in DOMAIN withdrawals : withdrawals[n].status = "attested" => pool[n] = "attested"
    BY DEF IInv, AttestedOnChain
  <2> QED
    BY <1>2, <2>1
<1>5. AttestedOnChain'
  BY <1>2, <1>4 DEF AttestedOnChain, chainVars
<1>6. /\ local' \in [Task -> Local(Len(blocks))] /\ local'[t].pc = Return(t)
      /\ \A u \in Task \ {t} : local'[u] = local[u]
  BY <1>1, <1>2, GotoTask
<1>7. Types'
  BY <1>1, <1>2, <1>3, <1>6 DEF Types, RecordedOK, chainVars, scanVars
<1>8. Keeps
  BY <1>2 DEF Keeps, Verified, chainVars, scanVars
<1>9. Gated(t)' /\ local'[t].pc # "boot"
  BY <1>1, <1>6 DEF Gated, At
<1>10. (\A u \in Task : Gated(u)') /\ BootsAlone'
  BY <1>2, <1>6, <1>8, <1>9, OthersKeep
<1> QED
  BY <1>5, <1>7, <1>10 DEF IInv

-----------------------------------------------------------------------------
\* Requests for the history, and faults

LEMMA StutterKeeps ==
  ASSUME IInv, UNCHANGED <<chainVars, scanVars, secrets, opVars, local>>
  PROVE  IInv'
<1>1. Types /\ Types'
  BY DEF IInv, Types, RecordedOK, chainVars, scanVars, opVars
<1>2. Keeps
  BY DEF Keeps, Verified, chainVars, scanVars
<1>3. ASSUME NEW t \in Task PROVE Gated(t)'
  BY <1>1, <1>2, GatedKeeps DEF IInv
<1>4. BootsAlone' /\ AttestedOnChain'
  BY DEF IInv, BootsAlone, At, AttestedOnChain, chainVars, opVars
<1> QED
  BY <1>1, <1>3, <1>4 DEF IInv

LEMMA FailKeeps == ASSUME IInv, NEW t \in Task, Fail(t) PROVE IInv'
<1>1. UNCHANGED <<chainVars, scanVars, secrets, opVars>>
  BY DEF Fail
<1>2. CASE At(t, "collect") /\ local' = [local EXCEPT ![t].deposits = FALSE]
  <2> DEFINE l == [local[t] EXCEPT !.deposits = FALSE]
  <2>1. local \in [Task -> Local(Len(blocks))] /\ local[t] \in Local(Len(blocks))
    BY DEF IInv, Types
  <2>2. l \in Local(Len(blocks)) /\ l.pc = "collect"
    BY <1>2, <2>1 DEF Local, At
  <2>3. local' = [local EXCEPT ![t] = l]
    BY <1>2, <2>1
  <2> HIDE DEF l
  <2>4. local'[t].pc = "collect" /\ ~At(t, "idle")
    BY <1>2, <2>1, <2>2, <2>3 DEF At
  <2>5. Gated(t)' /\ l.pc # "boot"
    BY <2>2, <2>4 DEF Gated, At
  <2> QED
    BY <1>1, <2>2, <2>3, <2>4, <2>5, LocalKeeps DEF scanVars
<1>3. CASE ~At(t, "collect")
  <2>1. \E label \in {"decrypt", "idle", Return(t)} : Goto(t, label)
    BY <1>3 DEF Fail
  <2>2. ~At(t, "idle")
    BY <1>3 DEF Fail, At
  <2>3. \A label \in {"decrypt", "idle", Return(t)} : label \in Label \ {"boot", "attest", "attested"}
    BY ReturnType DEF Label
  <2> QED
    BY <1>1, <2>1, <2>2, <2>3, MoveKeeps DEF scanVars
<1>4. At(t, "collect") => local' = [local EXCEPT ![t].deposits = FALSE]
  BY DEF Fail, At
<1> QED
  BY <1>2, <1>3, <1>4

\* What a start begins with, in Init and after a crash
LEMMA StartType ==
  ASSUME NEW n \in Nat
  PROVE  /\ Starting \in [Task -> Local(n)] /\ RecordedOK(NoWithdrawals, n)
         /\ \A t \in Task : Starting[t].pc \in {"boot", "idle"}
         /\ \A t \in Task \ {Main} : Starting[t].pc = "idle"
<1>1. Idle \in Local(n) /\ Idle.pc = "idle"
  BY IdleType DEF Idle
<1>2. [Idle EXCEPT !.pc = "boot"] \in Local(n) /\ [Idle EXCEPT !.pc = "boot"].pc = "boot"
  BY <1>1 DEF Local, Label
<1>3. RecordedOK(NoWithdrawals, n)
  BY DEF RecordedOK, NoWithdrawals
<1> QED
  BY <1>1, <1>2, <1>3 DEF Starting

LEMMA CrashKeeps == ASSUME IInv, Crash PROVE IInv'
<1>1. Types /\ Len(blocks) \in Nat
  BY DEF IInv, Types
<1>2. /\ notes' = <<>> /\ lastScannedBlock' = 0 /\ secrets' = {}
      /\ withdrawals' = NoWithdrawals /\ lastWithdrawalScannedBlock' = 0
      /\ local' = Starting /\ UNCHANGED <<chainVars, diskNotes, diskWithdrawals>>
  BY DEF Crash
<1>3. Types'
  BY <1>1, <1>2, StartType DEF Types, RecordedOK, chainVars
<1>4. ASSUME NEW t \in Task PROVE Gated(t)'
  BY <1>1, <1>2, StartType DEF Gated, At
<1>5. BootsAlone'
  BY <1>1, <1>2, StartType DEF BootsAlone, At
<1>6. AttestedOnChain'
  <2>1. DOMAIN withdrawals' = {}
    BY <1>2 DEF NoWithdrawals
  <2> QED
    BY <1>2, <2>1 DEF IInv, AttestedOnChain, chainVars
<1> QED
  BY <1>3, <1>4, <1>5, <1>6 DEF IInv

-----------------------------------------------------------------------------

LEMMA InitIInv == Init => IInv
<1> SUFFICES ASSUME Init PROVE IInv
  OBVIOUS
<1>1. blocks = <<>> /\ Len(blocks) = 0 /\ pool \in [Note -> Status]
  BY DEF Init, Status
<1>2. Types
  BY <1>1, StartType DEF Init, Types, RecordedOK
<1>3. ASSUME NEW t \in Task PROVE Gated(t)
  BY StartType DEF Init, Gated, At
<1>4. BootsAlone
  BY StartType DEF Init, BootsAlone, At
<1>5. AttestedOnChain
  BY DEF Init, AttestedOnChain, NoWithdrawals
<1> QED
  BY <1>2, <1>3, <1>4, <1>5 DEF IInv

LEMMA NextIInv == IInv /\ [Next]_vars => IInv'
<1> SUFFICES ASSUME IInv, [Next]_vars PROVE IInv'
  OBVIOUS
<1>1. ASSUME NEW k \in Kind, NEW n \in Note, Mine(<<Event(k, n)>>) PROVE IInv'
  <2>1. <<Event(k, n)>> \in Seq(ChainEvent)
    BY DEF Event, ChainEvent
  <2> QED
    BY <1>1, <2>1, MineKeeps
<1>2. ASSUME NEW k \in Kind, NEW l \in Kind, NEW n \in Note, NEW o \in Note,
             Mine(<<Event(k, n), Event(l, o)>>)
      PROVE  IInv'
  <2>1. <<Event(k, n), Event(l, o)>> \in Seq(ChainEvent)
    BY DEF Event, ChainEvent
  <2> QED
    BY <1>2, <2>1, MineKeeps
<1>3. ASSUME NEW n \in Note, Claim(n) \/ \E a \in Admins : RequestAttestation(a, n) PROVE IInv'
  BY <1>3, ClaimKeeps, RequestAttestationKeeps
<1>4. ASSUME NEW a \in Admins, ManualAttest(a) PROVE IInv'
  BY <1>4, ManualAttestKeeps
<1>5. CASE Boot \/ Crash
  BY <1>5, BootKeeps, CrashKeeps
<1>6. ASSUME NEW p \in Polls, StartPoll(p) PROVE IInv'
  BY <1>6, StartPollKeeps
<1>7. ASSUME NEW t \in Task, Step(t) \/ Fail(t) PROVE IInv'
  BY <1>7, QueryNotesKeeps, CollectNotesKeeps, DecryptNotesKeeps, QueryWithdrawalsKeeps,
     ExamineWithdrawalsKeeps, AttestWithdrawalKeeps, AttestedKeeps, FailKeeps DEF Step
<1>8. CASE QueryDeposits \/ NoDeposits \/ AnswerHistory
  BY <1>8, StutterKeeps DEF QueryDeposits, NoDeposits, AnswerHistory
<1>9. ASSUME NEW kept \in SUBSET request.deposits, CollectHistory(kept) PROVE IInv'
  BY <1>9, StutterKeeps DEF CollectHistory
<1>10. CASE UNCHANGED vars
  BY <1>10, StutterKeeps DEF vars
<1> QED
  BY <1>1, <1>2, <1>3, <1>4, <1>5, <1>6, <1>7, <1>8, <1>9, <1>10 DEF Next

\* What the operator has recorded as attested, in memory or on disk, is
\* attested on chain (attest and scanWithdrawals of operator.ts, with the
\* saves of persistence.ts).
THEOREM AttestedOnChainAlways == Spec => []AttestedOnChain
<1>1. IInv => AttestedOnChain
  BY DEF IInv
<1> QED
  BY <1>1, InitIInv, NextIInv, PTL DEF Spec

\* Only a withdrawal whose secret and depositor the operator knows gets its
\* attestation, whatever polls, restarts and failures interleave with it
\* (the compliance gate of operator.ts's attest).
THEOREM AttestedOnlyVerifiedAlways == Spec => AttestedOnlyVerified
<1> DEFINE Only == \A n \in Note :
             pool[n] = "initiated" /\ pool'[n] = "attested" => Verified(n, notes)
<1>1. ASSUME IInv, [Next]_vars PROVE Only
  <2> SUFFICES ASSUME NEW n \in Note, pool[n] = "initiated", pool'[n] = "attested"
               PROVE  Verified(n, notes)
    OBVIOUS
  <2>1. ASSUME NEW t \in Task, AttestWithdrawal(t) PROVE Verified(n, notes)
    <3>1. Verified(Current(t), notes)
      BY <1>1, <2>1 DEF IInv, Gated, AttestWithdrawal
    <3>2. n = Current(t)
      BY <1>1, <2>1 DEF AttestWithdrawal, IInv, Types
    <3> QED
      BY <3>1, <3>2
  <2>2. ASSUME NEW events \in Seq(ChainEvent), Mine(events) PROVE FALSE
    <3>1. pool'[n] = pool[n] \/ pool'[n] \in {"deposited", "initiated"}
      BY <2>2 DEF Mine, After
    <3> QED
      BY <3>1
  <2>3. ASSUME NEW m \in Note, Claim(m) PROVE FALSE
    BY <1>1, <2>3 DEF Claim, IInv, Types
  <2>4. CASE pool' = pool
    BY <2>4
  <2>5. (\E t \in Task : AttestWithdrawal(t)) \/ pool' = pool
        \/ (\E events \in Seq(ChainEvent) : Mine(events)) \/ (\E m \in Note : Claim(m))
    <3>1. ASSUME NEW k \in Kind, NEW m \in Note, Mine(<<Event(k, m)>>)
          PROVE  \E events \in Seq(ChainEvent) : Mine(events)
      <4>1. <<Event(k, m)>> \in Seq(ChainEvent)
        BY DEF Event, ChainEvent
      <4> QED
        BY <3>1, <4>1
    <3>2. ASSUME NEW k \in Kind, NEW l \in Kind, NEW m \in Note, NEW o \in Note,
                 Mine(<<Event(k, m), Event(l, o)>>)
          PROVE  \E events \in Seq(ChainEvent) : Mine(events)
      <4>1. <<Event(k, m), Event(l, o)>> \in Seq(ChainEvent)
        BY DEF Event, ChainEvent
      <4> QED
        BY <3>2, <4>1
    <3>3. ASSUME NEW t \in Task, Step(t) \/ Fail(t)
          PROVE  AttestWithdrawal(t) \/ pool' = pool
      BY <3>3 DEF Step, Fail, QueryNotes, CollectNotes, DecryptNotes, QueryWithdrawals,
         ExamineWithdrawals, Attested, chainVars
    <3>4. ASSUME \/ Boot \/ Crash \/ QueryDeposits \/ NoDeposits \/ AnswerHistory \/ UNCHANGED vars
                 \/ \E a \in Admins, m \in Note : RequestAttestation(a, m)
                 \/ \E a \in Admins : ManualAttest(a)
                 \/ \E p \in Polls : StartPoll(p)
                 \/ \E kept \in SUBSET request.deposits : CollectHistory(kept)
          PROVE  pool' = pool
      BY <3>4 DEF Boot, Crash, QueryDeposits, NoDeposits, AnswerHistory, RequestAttestation,
         ManualAttest, StartPoll, CollectHistory, vars, chainVars
    <3> QED
      BY <1>1, <3>1, <3>2, <3>3, <3>4 DEF Next
  <2> QED
    BY <2>1, <2>2, <2>3, <2>4, <2>5
<1> QED
  BY <1>1, InitIInv, NextIInv, PTL DEF Spec, AttestedOnlyVerified

-----------------------------------------------------------------------------
\* A note is stored once unless two scans had found it at once.

Distinct(s) == \A i, j \in DOMAIN s : s[i].note = s[j].note => i = j
StoredOnce(s) == \A i, j \in DOMAIN s : s[i].note = s[j].note => i = j \/ s[i].note \in foundTwice

\* A note is deposited once.
Deposit(b, i) == b \in DOMAIN blocks /\ i \in DOMAIN blocks[b] /\ blocks[b][i].kind = "EncryptedNote"
DepositedOnce ==
  \A b, i : Deposit(b, i) =>
    /\ pool[blocks[b][i].note] # "none"
    /\ \A c, j : Deposit(c, j) /\ blocks[b][i].note = blocks[c][j].note => b = c /\ i = j

\* What is about to be stored is not stored yet, unless another scan had
\* found it at once.
Fresh(t) ==
  At(t, "collect") =>
    /\ Distinct(local[t].found)
    /\ \A i \in DOMAIN local[t].found, j \in DOMAIN notes :
         local[t].found[i].note = notes[j].note => notes[j].note \in foundTwice

\* What two scans have found is recorded.
Shared(t, u) ==
  At(t, "collect") /\ At(u, "collect") /\ t # u =>
    \A i \in DOMAIN local[t].found, j \in DOMAIN local[u].found :
      local[t].found[i].note = local[u].found[j].note => local[t].found[i].note \in foundTwice

UInv ==
  /\ IInv
  /\ DepositedOnce
  /\ \A t \in Task : Fresh(t)
  /\ \A t, u \in Task : Shared(t, u)
  /\ StoredOnce(notes) /\ StoredOnce(diskNotes)

LEMMA JoinDistinct ==
  ASSUME NEW S, NEW s \in Seq(S), NEW r \in Seq(S), Distinct(s), Distinct(r),
         \A i \in DOMAIN s, j \in DOMAIN r : s[i].note # r[j].note
  PROVE  Distinct(s \o r)
<1>1. \A i \in DOMAIN (s \o r) :
        \/ i \in DOMAIN s /\ (s \o r)[i] = s[i]
        \/ i - Len(s) \in DOMAIN r /\ (s \o r)[i] = r[i - Len(s)] /\ i \in Int
  OBVIOUS
<1>2. Len(s) \in Nat
  OBVIOUS
<1> SUFFICES ASSUME NEW i \in DOMAIN (s \o r), NEW j \in DOMAIN (s \o r),
                    (s \o r)[i].note = (s \o r)[j].note
             PROVE  i = j
  BY DEF Distinct
<1>3. CASE i \in DOMAIN s /\ (s \o r)[i] = s[i]
  BY <1>1, <1>3 DEF Distinct
<1>4. CASE i - Len(s) \in DOMAIN r /\ (s \o r)[i] = r[i - Len(s)] /\ i \in Int
  <2>1. j - Len(s) \in DOMAIN r /\ (s \o r)[j] = r[j - Len(s)] /\ j \in Int
    BY <1>1, <1>4
  <2>2. i - Len(s) = j - Len(s)
    BY <1>4, <2>1 DEF Distinct
  <2> QED
    BY <1>2, <1>4, <2>1, <2>2
<1> QED
  BY <1>1, <1>3, <1>4

LEMMA JoinOnce ==
  ASSUME NEW S, NEW s \in Seq(S), NEW r \in Seq(S), StoredOnce(s), Distinct(r),
         \A i \in DOMAIN s, j \in DOMAIN r : s[i].note = r[j].note => s[i].note \in foundTwice
  PROVE  StoredOnce(s \o r)
<1>1. \A i \in DOMAIN (s \o r) :
        \/ i \in DOMAIN s /\ (s \o r)[i] = s[i]
        \/ i - Len(s) \in DOMAIN r /\ (s \o r)[i] = r[i - Len(s)] /\ i \in Int
  OBVIOUS
<1>2. Len(s) \in Nat
  OBVIOUS
<1> SUFFICES ASSUME NEW i \in DOMAIN (s \o r), NEW j \in DOMAIN (s \o r),
                    (s \o r)[i].note = (s \o r)[j].note
             PROVE  i = j \/ (s \o r)[i].note \in foundTwice
  BY DEF StoredOnce
<1>3. CASE i \in DOMAIN s /\ (s \o r)[i] = s[i]
  BY <1>1, <1>3 DEF StoredOnce
<1>4. CASE i - Len(s) \in DOMAIN r /\ (s \o r)[i] = r[i - Len(s)] /\ i \in Int
  <2>1. CASE j \in DOMAIN s /\ (s \o r)[j] = s[j]
    BY <1>4, <2>1
  <2>2. CASE j - Len(s) \in DOMAIN r /\ (s \o r)[j] = r[j - Len(s)] /\ j \in Int
    <3>1. i - Len(s) = j - Len(s)
      BY <1>4, <2>2 DEF Distinct
    <3> QED
      BY <1>2, <1>4, <2>2, <3>1
  <2> QED
    BY <1>1, <2>1, <2>2
<1> QED
  BY <1>1, <1>3, <1>4

\* The members of t are those of s and r.
Drawn(t, s, r) ==
  \A p \in DOMAIN t : (\E q \in DOMAIN s : t[p] = s[q]) \/ (\E q \in DOMAIN r : t[p] = r[q])

LEMMA JoinMembers ==
  ASSUME NEW S, NEW s \in Seq(S), NEW r \in Seq(S)
  PROVE  Drawn(s \o r, s, r)
<1> SUFFICES ASSUME NEW p \in DOMAIN (s \o r)
             PROVE  (\E q \in DOMAIN s : (s \o r)[p] = s[q]) \/ (\E q \in DOMAIN r : (s \o r)[p] = r[q])
  BY DEF Drawn
<1>1. \/ p \in DOMAIN s /\ (s \o r)[p] = s[p]
      \/ p - Len(s) \in DOMAIN r /\ (s \o r)[p] = r[p - Len(s)]
  OBVIOUS
<1> QED
  BY <1>1

\* The members of t are those of the sequences.
Joined(t, seqs) ==
  \A p \in DOMAIN t : \E k \in 1..Len(seqs) : \E q \in DOMAIN seqs[k] : t[p] = seqs[k][q]

\* No two of the sequences have a common note.
Apart(seqs) ==
  \A k, m \in 1..Len(seqs) : \A p \in DOMAIN seqs[k], q \in DOMAIN seqs[m] :
      seqs[k][p].note = seqs[m][q].note => k = m

\* Sequences without a common note, each without a note twice, join to one
\* without a note twice; its members are theirs.
LEMMA FlattenDistinct ==
  ASSUME NEW S, NEW seqs \in Seq(Seq(S)),
         \A k \in 1..Len(seqs) : Distinct(seqs[k]), Apart(seqs)
  PROVE  Distinct(FlattenSeq(seqs)) /\ Joined(FlattenSeq(seqs), seqs)
<1>0. Len(seqs) \in Nat /\ \A i \in 1..Len(seqs) : seqs[i] \in Seq(S)
  OBVIOUS
<1>1. CASE Len(seqs) = 0
  <2>1. FlattenSeq(seqs) = <<>>
    BY <1>1 DEF FlattenSeq
  <2> QED
    BY <2>1 DEF Distinct, Joined
<1>2. CASE Len(seqs) # 0
  <2>1. PICK f : /\ f = [i \in 1..Len(seqs) |-> IF i = 1 THEN seqs[i] ELSE f[i - 1] \o seqs[i]]
                 /\ FlattenSeq(seqs) = f[Len(seqs)]
    BY <1>2, FlattenPrefixes
  <2> DEFINE From(s, n) == \A p \in DOMAIN s : \E k \in 1..n : \E q \in DOMAIN seqs[k] : s[p] = seqs[k][q]
             Good(s, n) == s \in Seq(S) /\ Distinct(s) /\ From(s, n)
             Q == {n \in Nat : n + 1 \in 1..Len(seqs) => Good(f[n + 1], n + 1)}
  <2>2. 0 \in Q
    <3>1. SUFFICES ASSUME 1 \in 1..Len(seqs) PROVE Good(f[1], 1)
      OBVIOUS
    <3>2. f[1] = seqs[1] /\ 1 \in 1..1
      BY <2>1, <3>1
    <3>3. From(seqs[1], 1)
      BY <3>2
    <3> QED
      BY <1>0, <3>1, <3>2, <3>3
  <2>3. ASSUME NEW n \in Nat, n \in Q PROVE n + 1 \in Q
    <3>1. SUFFICES ASSUME (n + 1) + 1 \in 1..Len(seqs) PROVE Good(f[(n + 1) + 1], (n + 1) + 1)
      OBVIOUS
    <3> DEFINE m == (n + 1) + 1
    <3>2. n + 1 \in 1..Len(seqs) /\ m # 1 /\ m - 1 = n + 1 /\ m \in 1..m
      BY <1>0, <3>1
    <3>3. f[m] = f[n + 1] \o seqs[m]
      BY <2>1, <3>1, <3>2
    <3>4. Good(f[n + 1], n + 1)
      BY <2>3, <3>2
    <3>5. seqs[m] \in Seq(S) /\ Distinct(seqs[m])
      BY <1>0, <3>1
    <3>6. \A k \in 1..(n + 1) : k \in 1..m /\ k \in 1..Len(seqs) /\ k # m
      BY <1>0, <3>1
    <3> HIDE DEF m
    <3>7. \A p \in DOMAIN f[n + 1], q \in DOMAIN seqs[m] : f[n + 1][p].note # seqs[m][q].note
      <4> SUFFICES ASSUME NEW p \in DOMAIN f[n + 1], NEW q \in DOMAIN seqs[m],
                          f[n + 1][p].note = seqs[m][q].note
                   PROVE  FALSE
        OBVIOUS
      <4>1. PICK k \in 1..(n + 1) : \E r \in DOMAIN seqs[k] : f[n + 1][p] = seqs[k][r]
        BY <3>4
      <4>2. m \in 1..Len(seqs)
        BY <3>1 DEF m
      <4> QED
        BY <3>6, <4>1, <4>2 DEF Apart
    <3>8. Distinct(f[m]) /\ f[m] \in Seq(S)
      <4>1. f[n + 1] \in Seq(S) /\ Distinct(f[n + 1])
        BY <3>4
      <4>2. Distinct(f[n + 1] \o seqs[m])
        BY ONLY <3>5, <3>7, <4>1, JoinDistinct
      <4> QED
        BY <3>3, <3>5, <4>1, <4>2
    <3>9. From(f[m], m)
      <4> SUFFICES ASSUME NEW p \in DOMAIN f[m]
                   PROVE  \E k \in 1..m : \E q \in DOMAIN seqs[k] : f[m][p] = seqs[k][q]
        OBVIOUS
      <4>1. \/ \E q \in DOMAIN f[n + 1] : f[m][p] = f[n + 1][q]
            \/ \E q \in DOMAIN seqs[m] : f[m][p] = seqs[m][q]
        <5>1. f[n + 1] \in Seq(S)
          BY <3>4
        <5>2. Drawn(f[n + 1] \o seqs[m], f[n + 1], seqs[m])
          BY ONLY <3>5, <5>1, JoinMembers
        <5> QED
          BY <3>3, <5>2 DEF Drawn
      <4>2. ASSUME NEW q \in DOMAIN f[n + 1], f[m][p] = f[n + 1][q]
            PROVE  \E k \in 1..m : \E r \in DOMAIN seqs[k] : f[m][p] = seqs[k][r]
        <5>1. PICK k \in 1..(n + 1) : \E r \in DOMAIN seqs[k] : f[n + 1][q] = seqs[k][r]
          BY <3>4
        <5> QED
          BY <3>6, <4>2, <5>1
      <4> QED
        BY <3>2, <4>1, <4>2
    <3> QED
      BY <3>8, <3>9 DEF m
  <2>4. \A n \in Nat : n \in Q
    <3> HIDE DEF Q
    <3> QED
      BY <2>2, <2>3, SetInduction
  <2>5. Len(seqs) - 1 \in Nat /\ (Len(seqs) - 1) + 1 = Len(seqs) /\ Len(seqs) \in 1..Len(seqs)
    BY <1>0, <1>2
  <2>6. Good(FlattenSeq(seqs), Len(seqs))
    <3>1. Good(f[Len(seqs)], Len(seqs))
      <4> HIDE DEF Good
      <4> QED
        BY <2>4, <2>5
    <3> HIDE DEF Good
    <3> QED
      BY <2>1, <3>1
  <2> QED
    BY <2>6 DEF Joined
<1> QED
  BY <1>1, <1>2

\* Some of the items one after the other
Selection(n, items, keep) == [i \in 1..n |-> IF keep[i] THEN <<items[i]>> ELSE <<>>]
Kept(n, items, keep) == \A i, j \in 1..n : keep[i] /\ keep[j] /\ items[i].note = items[j].note => i = j
Selected(t, n, items, keep) == \A p \in DOMAIN t : \E i \in 1..n : keep[i] /\ t[p] = items[i]

LEMMA SelectDistinct ==
  ASSUME NEW S, NEW n \in Nat, NEW items, NEW keep,
         \A i \in 1..n : items[i] \in S, Kept(n, items, keep)
  PROVE  /\ FlattenSeq(Selection(n, items, keep)) \in Seq(S)
         /\ Distinct(FlattenSeq(Selection(n, items, keep)))
         /\ Selected(FlattenSeq(Selection(n, items, keep)), n, items, keep)
<1> DEFINE seqs == Selection(n, items, keep)
<1>0. seqs = [i \in 1..n |-> IF keep[i] THEN <<items[i]>> ELSE <<>>]
  BY DEF Selection
<1> HIDE DEF seqs
<1>1. \A i \in 1..n : (keep[i] /\ seqs[i] = <<items[i]>>) \/ seqs[i] = <<>>
  BY <1>0
<1>2. seqs = [i \in 1..n |-> seqs[i]] /\ DOMAIN seqs = 1..n /\ n \in Int
  BY <1>0
<1>3. \A i \in 1..n : seqs[i] \in Seq(S)
  <2> TAKE i \in 1..n
  <2>1. CASE seqs[i] = <<items[i]>>
    BY <2>1
  <2>2. CASE seqs[i] = <<>>
    BY <2>2
  <2> QED
    BY <1>1, <2>1, <2>2
<1>4. seqs \in Seq(Seq(S))
  BY ONLY <1>2, <1>3, SeqIntro
<1>5. Len(seqs) = n
  BY <1>2, <1>4
<1>6. \A i \in 1..n : \A p \in DOMAIN seqs[i] : keep[i] /\ p = 1 /\ seqs[i][p] = items[i]
  <2> TAKE i \in 1..n
  <2>1. CASE keep[i] /\ seqs[i] = <<items[i]>>
    BY <2>1
  <2>2. CASE seqs[i] = <<>>
    BY <2>2
  <2> QED
    BY <1>1, <2>1, <2>2
<1>7. \A k \in 1..Len(seqs) : Distinct(seqs[k])
  BY <1>5, <1>6 DEF Distinct
<1>8. Apart(seqs)
  BY <1>5, <1>6 DEF Apart, Kept
<1>9. Distinct(FlattenSeq(seqs)) /\ Joined(FlattenSeq(seqs), seqs) /\ FlattenSeq(seqs) \in Seq(S)
  BY ONLY <1>4, <1>7, <1>8, FlattenDistinct, FlattenType
<1>10. Selected(FlattenSeq(seqs), n, items, keep)
  <2> SUFFICES ASSUME NEW p \in DOMAIN FlattenSeq(seqs)
               PROVE  \E i \in 1..n : keep[i] /\ FlattenSeq(seqs)[p] = items[i]
    BY DEF Selected
  <2>1. PICK k \in 1..n : \E q \in DOMAIN seqs[k] : FlattenSeq(seqs)[p] = seqs[k][q]
    BY <1>5, <1>9 DEF Joined
  <2> QED
    BY <1>6, <2>1
<1> QED
  BY <1>9, <1>10 DEF seqs

\* A query finds each deposit once.
LEMMA EventsDistinct ==
  ASSUME Types, DepositedOnce, NEW start \in Nat \ {0}
  PROVE  Distinct(EventsFrom("EncryptedNote", start))
<1> DEFINE n == Len(blocks)
           m == n - start + 1
           entry(b, e) == IF e.kind = "EncryptedNote" THEN <<[note |-> e.note, block |-> b]>> ELSE <<>>
           block(b) == FlattenSeq([i \in 1..Len(blocks[b]) |-> entry(b, blocks[b][i])])
           seqs == [k \in 1..m |-> block(start + k - 1)]
           Of(x, b) == \E i : Deposit(b, i) /\ x.note = blocks[b][i].note
           Once(b) == /\ block(b) \in Seq(Found(n)) /\ Distinct(block(b))
                      /\ \A p \in DOMAIN block(b) : Of(block(b)[p], b)
<1>1. n \in Nat /\ DOMAIN blocks = 1..n /\ m \in Int
  BY DEF Types
<1>2. ASSUME NEW b \in 1..n PROVE Once(b)
  <2> DEFINE items == [i \in 1..Len(blocks[b]) |-> [note |-> blocks[b][i].note, block |-> b]]
             keep == [i \in 1..Len(blocks[b]) |-> blocks[b][i].kind = "EncryptedNote"]
             entries == [i \in 1..Len(blocks[b]) |-> entry(b, blocks[b][i])]
  <2>1. blocks[b] \in Seq(ChainEvent) /\ Len(blocks[b]) \in Nat /\ DOMAIN blocks[b] = 1..Len(blocks[b])
    BY DEF Types
  <2>2. \A i \in 1..Len(blocks[b]) : blocks[b][i] \in ChainEvent
    BY <2>1
  <2>3. \A i \in 1..Len(blocks[b]) : items[i] \in Found(n) /\ items[i].note = blocks[b][i].note
    BY <2>2 DEF ChainEvent, Found
  <2>4. \A i \in 1..Len(blocks[b]) : keep[i] => Deposit(b, i)
    BY <1>1, <2>1 DEF Deposit
  <2>5. entries = Selection(Len(blocks[b]), items, keep)
    BY DEF Selection
  <2>6. block(b) = FlattenSeq(entries)
    OBVIOUS
  <2> HIDE DEF items, keep, entries, block
  <2>7. Kept(Len(blocks[b]), items, keep)
    BY <2>3, <2>4 DEF DepositedOnce, Kept
  <2>8. /\ block(b) \in Seq(Found(n)) /\ Distinct(block(b))
        /\ \A p \in DOMAIN block(b) : \E i \in 1..Len(blocks[b]) : keep[i] /\ block(b)[p] = items[i]
    <3>1. \A i \in 1..Len(blocks[b]) : items[i] \in Found(n)
      BY <2>3
    <3>2. /\ FlattenSeq(entries) \in Seq(Found(n)) /\ Distinct(FlattenSeq(entries))
          /\ Selected(FlattenSeq(entries), Len(blocks[b]), items, keep)
      BY <2>1, <2>5, <2>7, <3>1, SelectDistinct
    <3> QED
      BY <2>6, <3>2 DEF Selected
  <2> QED
    BY <2>3, <2>4, <2>8
<1> HIDE DEF block
<1>3. ASSUME NEW b \in 1..n, NEW c \in 1..n, NEW p \in DOMAIN block(b), NEW q \in DOMAIN block(c),
             block(b)[p].note = block(c)[q].note
      PROVE  b = c
  <2>1. PICK i : Deposit(b, i) /\ block(b)[p].note = blocks[b][i].note
    BY <1>2
  <2>2. PICK j : Deposit(c, j) /\ block(c)[q].note = blocks[c][j].note
    BY <1>2
  <2>3. Deposit(b, i) /\ Deposit(c, j) /\ blocks[b][i].note = blocks[c][j].note
    BY <1>3, <2>1, <2>2
  <2> QED
    BY <2>3 DEF DepositedOnce
<1>4. \A k \in 1..m : start + k - 1 \in 1..n
  BY <1>1
<1>5. \A k \in 1..m : seqs[k] = block(start + k - 1)
  OBVIOUS
<1>6. seqs = [k \in 1..m |-> seqs[k]] /\ DOMAIN seqs = 1..m
  OBVIOUS
<1>7. EventsFrom("EncryptedNote", start) = FlattenSeq(seqs)
  BY DEF EventsFrom, block
<1> HIDE DEF seqs
<1>8. \A k \in 1..m : seqs[k] \in Seq(Found(n)) /\ Distinct(seqs[k])
  BY <1>2, <1>4, <1>5
<1>9. seqs \in Seq(Seq(Found(n)))
  BY <1>1, <1>6, <1>8, SeqIntro
<1>10. \A k \in 1..Len(seqs) : k \in 1..m
  <2>1. DOMAIN seqs = 1..Len(seqs)
    BY <1>9
  <2> QED
    BY <1>6, <2>1
<1>11. \A k \in 1..Len(seqs) : Distinct(seqs[k])
  BY <1>8, <1>10
<1>12. ASSUME NEW k \in 1..Len(seqs), NEW l \in 1..Len(seqs),
              NEW p \in DOMAIN seqs[k], NEW q \in DOMAIN seqs[l], seqs[k][p].note = seqs[l][q].note
       PROVE  k = l
  <2>1. /\ start + k - 1 \in 1..n /\ start + l - 1 \in 1..n
        /\ seqs[k] = block(start + k - 1) /\ seqs[l] = block(start + l - 1)
    BY <1>4, <1>5, <1>10
  <2> DEFINE b == start + k - 1
             c == start + l - 1
  <2>2. b \in 1..n /\ c \in 1..n /\ seqs[k] = block(b) /\ seqs[l] = block(c)
    BY <2>1
  <2>3. b = c => k = l
    BY <1>10
  <2> HIDE DEF b, c
  <2>4. p \in DOMAIN block(b) /\ q \in DOMAIN block(c) /\ block(b)[p].note = block(c)[q].note
    BY <1>12, <2>2
  <2> QED
    BY <1>3, <2>2, <2>3, <2>4
<1>13. Apart(seqs)
  BY <1>12 DEF Apart
<1>14. Distinct(FlattenSeq(seqs))
  BY ONLY <1>9, <1>11, <1>13, FlattenDistinct
<1> QED
  BY <1>7, <1>14

\* What is left of the events is not stored.
LEMMA UnstoredDistinct ==
  ASSUME NEW S, NEW events \in Seq(S), Distinct(events)
  PROVE  /\ Distinct(Unstored(events))
         /\ \A i \in DOMAIN Unstored(events), j \in DOMAIN notes : Unstored(events)[i].note # notes[j].note
<1> DEFINE stored(e) == \E i \in DOMAIN notes : notes[i].note = e.note
           n == Len(events)
           keep == [i \in 1..n |-> ~stored(events[i])]
           seqs == [i \in 1..n |-> IF stored(events[i]) THEN <<>> ELSE <<events[i]>>]
<1>1. n \in Nat /\ DOMAIN events = 1..n /\ \A i \in 1..n : events[i] \in S
  OBVIOUS
<1>2. Unstored(events) = FlattenSeq(seqs)
  BY DEF Unstored
<1> HIDE DEF stored
<1>3. seqs = Selection(n, events, keep)
  BY DEF Selection
<1>4. \A i \in 1..n : keep[i] => ~stored(events[i])
  OBVIOUS
<1> HIDE DEF seqs, keep
<1>5. Kept(n, events, keep)
  BY <1>1 DEF Distinct, Kept
<1>6. Distinct(FlattenSeq(seqs)) /\ Selected(FlattenSeq(seqs), n, events, keep)
  BY <1>1, <1>3, <1>5, SelectDistinct
<1> QED
  BY <1>2, <1>4, <1>6 DEF stored, Selected

\* What a manual request may be at
Manual == {"idle", "requested", "attest", "attested"}

LEMMA DepositsStay ==
  ASSUME UInv, blocks' = blocks, \A n \in Note : pool[n] # "none" => pool'[n] # "none"
  PROVE  DepositedOnce'
<1>1. \A b, i : Deposit(b, i) => blocks[b][i].note \in Note
  <2> SUFFICES ASSUME NEW b \in DOMAIN blocks, NEW i \in DOMAIN blocks[b] PROVE blocks[b][i].note \in Note
    BY DEF Deposit
  <2>1. blocks[b] \in Seq(ChainEvent)
    BY DEF UInv, IInv, Types
  <2>2. blocks[b][i] \in ChainEvent
    BY <2>1
  <2> QED
    BY <2>2 DEF ChainEvent
<1>2. \A b, i : Deposit(b, i)' <=> Deposit(b, i)
  BY DEF Deposit
<1> QED
  BY <1>1, <1>2 DEF UInv, DepositedOnce

\* A step of one task that neither reads from disk nor stores
LEMMA TaskKeepsUnique ==
  ASSUME UInv, IInv', DepositedOnce', notes' = notes, diskNotes' = diskNotes,
         foundTwice \subseteq foundTwice',
         NEW t \in Task, \A u \in Task \ {t} : local'[u] = local[u],
         Fresh(t)', \A u \in Task : Shared(t, u)' /\ Shared(u, t)'
  PROVE  UInv'
<1>1. \A u \in Task : Fresh(u)'
  <2>1. ASSUME NEW u \in Task \ {t} PROVE Fresh(u)'
    <3>1. Fresh(u)
      BY DEF UInv
    <3> QED
      BY <3>1 DEF Fresh, Distinct, At
  <2> QED
    BY <2>1
<1>2. \A u, v \in Task : Shared(u, v)'
  <2>1. ASSUME NEW u \in Task \ {t}, NEW v \in Task \ {t} PROVE Shared(u, v)'
    <3>1. Shared(u, v)
      BY DEF UInv
    <3> QED
      BY <3>1 DEF Shared, At
  <2> QED
    BY <2>1
<1>3. StoredOnce(notes)' /\ StoredOnce(diskNotes)'
  BY DEF UInv, StoredOnce
<1> QED
  BY <1>1, <1>2, <1>3 DEF UInv

\* A task that is not about to store
LEMMA AwayKeepsUnique ==
  ASSUME UInv, IInv', DepositedOnce', notes' = notes, diskNotes' = diskNotes,
         foundTwice \subseteq foundTwice',
         NEW t \in Task, \A u \in Task \ {t} : local'[u] = local[u], local'[t].pc # "collect"
  PROVE  UInv'
<1>1. Fresh(t)' /\ \A u \in Task : Shared(t, u)' /\ Shared(u, t)'
  BY DEF Fresh, Shared, At
<1> QED
  BY <1>1, TaskKeepsUnique

LEMMA MoveKeepsUnique ==
  ASSUME UInv, IInv', DepositedOnce', notes' = notes, diskNotes' = diskNotes,
         foundTwice \subseteq foundTwice',
         NEW t \in Task, NEW label \in Label \ {"collect"}, Goto(t, label)
  PROVE  UInv'
<1>1. local'[t].pc = label /\ \A u \in Task \ {t} : local'[u] = local[u]
  BY GotoTask DEF UInv, IInv
<1> QED
  BY <1>1, AwayKeepsUnique

LEMMA MineKeepsUnique ==
  ASSUME UInv, IInv', NEW events \in Seq(ChainEvent), Mine(events)
  PROVE  UInv'
<1>1. /\ blocks' = Append(blocks, events)
      /\ \A i \in DOMAIN events : pool[events[i].note] = Before(events[i].kind)
      /\ \A i, j \in DOMAIN events : events[i].note = events[j].note => i = j
      /\ pool' = [n \in Note |->
                    IF \E i \in DOMAIN events : events[i].note = n
                    THEN After(events[CHOOSE i \in DOMAIN events : events[i].note = n].kind)
                    ELSE pool[n]]
      /\ UNCHANGED <<notes, diskNotes, foundTwice, local>>
  BY DEF Mine, scanVars
<1>2. /\ blocks \in Seq(Seq(ChainEvent)) /\ Len(blocks) \in Nat
      /\ \A i \in DOMAIN events : events[i].note \in Note
  <2>1. \A i \in DOMAIN events : events[i] \in ChainEvent
    OBVIOUS
  <2> QED
    BY <2>1 DEF UInv, IInv, Types, ChainEvent
<1>3. \A n \in Note : pool[n] # "none" \/ (\E i \in DOMAIN events : events[i].note = n) => pool'[n] # "none"
  BY <1>1 DEF After
<1> DEFINE last == Len(blocks) + 1
<1>4. /\ DOMAIN blocks = 1..Len(blocks) /\ DOMAIN blocks' = 1..last
      /\ \A b \in DOMAIN blocks : blocks'[b] = blocks[b] /\ b # last
      /\ blocks'[last] = events
  BY <1>1, <1>2
<1>5. \A b, i : Deposit(b, i)' =>
        \/ Deposit(b, i) /\ blocks'[b] = blocks[b] /\ pool[blocks[b][i].note] # "none" /\ blocks[b][i].note \in Note
        \/ /\ b = last /\ i \in DOMAIN events /\ blocks'[b] = events
           /\ pool[events[i].note] = "none" /\ events[i].note \in Note
  <2> SUFFICES ASSUME NEW b, NEW i, Deposit(b, i)'
               PROVE  \/ /\ Deposit(b, i) /\ blocks'[b] = blocks[b]
                         /\ pool[blocks[b][i].note] # "none" /\ blocks[b][i].note \in Note
                      \/ /\ b = last /\ i \in DOMAIN events /\ blocks'[b] = events
                         /\ pool[events[i].note] = "none" /\ events[i].note \in Note
    OBVIOUS
  <2>1. b \in DOMAIN blocks' /\ i \in DOMAIN blocks'[b] /\ blocks'[b][i].kind = "EncryptedNote"
    BY DEF Deposit
  <2>2. CASE b \in DOMAIN blocks
    <3>1. Deposit(b, i) /\ blocks'[b] = blocks[b]
      BY <1>4, <2>1, <2>2 DEF Deposit
    <3>2. blocks[b] \in Seq(ChainEvent) /\ i \in DOMAIN blocks[b]
      BY <1>2, <3>1 DEF Deposit
    <3>3. blocks[b][i] \in ChainEvent
      BY <3>2
    <3> QED
      BY <3>1, <3>3 DEF UInv, DepositedOnce, ChainEvent
  <2>3. CASE b \notin DOMAIN blocks
    <3>1. b = last
      BY <1>2, <1>4, <2>1, <2>3
    <3> HIDE DEF last
    <3>2. i \in DOMAIN events /\ events[i].kind = "EncryptedNote" /\ blocks'[b] = events
      BY <1>4, <2>1, <3>1
    <3> QED
      BY <1>1, <1>2, <3>1, <3>2 DEF Before
  <2> QED
    BY <2>2, <2>3
<1> HIDE DEF last
<1>6. DepositedOnce'
  <2> SUFFICES ASSUME NEW b, NEW i, Deposit(b, i)'
               PROVE  /\ pool'[blocks'[b][i].note] # "none"
                      /\ \A c, j : Deposit(c, j)' /\ blocks'[b][i].note = blocks'[c][j].note => b = c /\ i = j
    BY DEF DepositedOnce
  <2>1. pool'[blocks'[b][i].note] # "none"
    BY <1>3, <1>5
  <2>2. ASSUME NEW c, NEW j, Deposit(c, j)', blocks'[b][i].note = blocks'[c][j].note
        PROVE  b = c /\ i = j
    <3>1. CASE Deposit(b, i) /\ Deposit(c, j) /\ blocks'[b] = blocks[b] /\ blocks'[c] = blocks[c]
      <4>1. blocks[b][i].note = blocks[c][j].note
        BY <2>2, <3>1
      <4> QED
        BY <3>1, <4>1 DEF UInv, DepositedOnce
    <3>2. CASE b = last /\ c = last /\ i \in DOMAIN events /\ j \in DOMAIN events /\ blocks'[last] = events
      BY <1>1, <2>2, <3>2
    <3> QED
      BY <1>5, <2>2, <3>1, <3>2
  <2> QED
    BY <2>1, <2>2
<1>7. StoredOnce(notes)' /\ StoredOnce(diskNotes)'
  BY <1>1 DEF UInv, StoredOnce
<1>8. ASSUME NEW t \in Task PROVE Fresh(t)'
  <2>1. Fresh(t)
    BY DEF UInv
  <2> QED
    BY <1>1, <2>1 DEF Fresh, Distinct, At
<1>9. ASSUME NEW t \in Task, NEW u \in Task PROVE Shared(t, u)'
  <2>1. Shared(t, u)
    BY DEF UInv
  <2> QED
    BY <1>1, <2>1 DEF Shared, At
<1> QED
  BY <1>6, <1>7, <1>8, <1>9 DEF UInv

LEMMA StayUnique ==
  ASSUME UInv, IInv', blocks' = blocks, notes' = notes, diskNotes' = diskNotes,
         foundTwice' = foundTwice, local' = local,
         \A n \in Note : pool[n] # "none" => pool'[n] # "none"
  PROVE  UInv'
<1>1. DepositedOnce'
  BY DepositsStay
<1>2. StoredOnce(notes)' /\ StoredOnce(diskNotes)'
  BY DEF UInv, StoredOnce
<1>3. ASSUME NEW t \in Task PROVE Fresh(t)'
  <2>1. Fresh(t)
    BY DEF UInv
  <2> QED
    BY <2>1 DEF Fresh, Distinct, At
<1>4. ASSUME NEW t \in Task, NEW u \in Task PROVE Shared(t, u)'
  <2>1. Shared(t, u)
    BY DEF UInv
  <2> QED
    BY <2>1 DEF Shared, At
<1> QED
  BY <1>1, <1>2, <1>3, <1>4 DEF UInv

LEMMA BootKeepsUnique == ASSUME UInv, IInv', Boot PROVE UInv'
<1>1. /\ At(Main, "boot") /\ notes' = diskNotes /\ diskNotes' = diskNotes /\ Goto(Main, "scan")
      /\ blocks' = blocks /\ pool' = pool /\ foundTwice' = foundTwice
  BY DEF Boot, chainVars
<1>2. Main \in Task /\ "scan" \in Label
  BY DEF Task, Label
<1>3. local'[Main].pc = "scan" /\ \A u \in Task \ {Main} : local'[u] = local[u]
  BY <1>1, <1>2, GotoTask DEF UInv, IInv
<1>4. \A u \in Task : local'[u].pc # "collect"
  BY <1>1, <1>3 DEF UInv, IInv, BootsAlone, At
<1>5. DepositedOnce'
  BY <1>1, DepositsStay
<1>6. (\A t \in Task : Fresh(t)') /\ \A t, u \in Task : Shared(t, u)'
  BY <1>4 DEF Fresh, Shared, At
<1>7. StoredOnce(notes)' /\ StoredOnce(diskNotes)'
  BY <1>1 DEF UInv, StoredOnce
<1> QED
  BY <1>5, <1>6, <1>7 DEF UInv

LEMMA StartPollKeepsUnique == ASSUME UInv, IInv', NEW p \in Polls, StartPoll(p) PROVE UInv'
<1>1. /\ blocks' = blocks /\ pool' = pool /\ notes' = notes /\ diskNotes' = diskNotes
      /\ foundTwice' = foundTwice
      /\ local' = [local EXCEPT ![p].pc = "scan", ![p].before = Len(notes)]
  BY DEF StartPoll, chainVars, scanVars
<1>2. p \in Task
  BY DEF Task
<1>3. local[p] \in Local(Len(blocks)) /\ local \in [Task -> Local(Len(blocks))]
  BY <1>2 DEF UInv, IInv, Types
<1>4. local'[p].pc = "scan" /\ \A u \in Task \ {p} : local'[u] = local[u]
  BY <1>1, <1>2, <1>3 DEF Local
<1>5. DepositedOnce'
  BY <1>1, DepositsStay
<1> QED
  BY <1>1, <1>2, <1>4, <1>5, AwayKeepsUnique

LEMMA QueryNotesKeepsUnique == ASSUME UInv, IInv', NEW t \in Task, QueryNotes(t) PROVE UInv'
<1> DEFINE events == EventsFrom("EncryptedNote", StartBlock(t, lastScannedBlock + 1))
<1>1. /\ blocks' = blocks /\ pool' = pool /\ notes' = notes /\ diskNotes' = diskNotes
      /\ (events = <<>> => Goto(t, "decrypt"))
      /\ (events # <<>> => local' = [local EXCEPT ![t].pc = "collect",
            ![t].found = Unstored(events), ![t].upTo = LastBlock(events)])
      /\ foundTwice' = foundTwice \cup
           {n \in Note : Holds(t, n)' /\ \E u \in Task \ {t} : Holds(u, n)}
  BY DEF QueryNotes, chainVars
<1>2. DepositedOnce' /\ Types /\ Types' /\ DepositedOnce
  BY <1>1, DepositsStay DEF UInv, IInv
<1>3. foundTwice \subseteq foundTwice'
  BY <1>1
<1>4. Distinct(events) /\ events \in Seq(Found(Len(blocks)))
  <2>1. lastScannedBlock + 1 \in Nat \ {0}
    BY <1>2 DEF Types
  <2>2. StartBlock(t, lastScannedBlock + 1) \in Nat \ {0}
    BY <2>1, StartBlockType
  <2> QED
    BY <1>2, <2>2, EventsType, EventsDistinct
<1> HIDE DEF events
<1>5. CASE events = <<>>
  <2>1. "decrypt" \in Label \ {"collect"}
    BY DEF Label
  <2> QED
    BY <1>1, <1>2, <1>3, <1>5, <2>1, MoveKeepsUnique
<1>6. CASE events # <<>>
  <2>1. local[t] \in Local(Len(blocks)) /\ local \in [Task -> Local(Len(blocks))]
    BY <1>2 DEF Types
  <2>2. /\ local'[t].pc = "collect" /\ local'[t].found = Unstored(events)
        /\ \A u \in Task \ {t} : local'[u] = local[u]
    BY <1>1, <1>6, <2>1 DEF Local
  <2>3. /\ Distinct(Unstored(events))
        /\ \A i \in DOMAIN Unstored(events), j \in DOMAIN notes : Unstored(events)[i].note # notes[j].note
    BY <1>4, UnstoredDistinct
  <2>4. Fresh(t)'
    BY <1>1, <2>2, <2>3 DEF Fresh, Distinct
  <2>5. \A u \in Task : \A i \in DOMAIN local'[u].found : local'[u].found[i].note \in Note
    <3> TAKE u \in Task
    <3>1. local'[u].found \in Seq(Found(Len(blocks)))
      BY <1>1, <1>2 DEF Types, Local
    <3> TAKE i \in DOMAIN local'[u].found
    <3>2. local'[u].found[i] \in Found(Len(blocks))
      BY <3>1
    <3> QED
      BY <3>2 DEF Found
  <2>6. ASSUME NEW u \in Task \ {t}, At(u, "collect"),
               NEW i \in DOMAIN local'[t].found, NEW j \in DOMAIN local'[u].found,
               local'[t].found[i].note = local'[u].found[j].note
        PROVE  local'[t].found[i].note \in foundTwice'
    <3>0. PICK n : n = local'[t].found[i].note
      OBVIOUS
    <3>1. n \in Note /\ local'[u] = local[u]
      BY <2>2, <2>5, <3>0
    <3>2. Holds(t, n)'
      BY <2>2, <3>0 DEF Holds, At
    <3>3. Holds(u, n)
      BY <2>6, <3>0, <3>1 DEF Holds
    <3>4. n \in foundTwice'
      BY <1>1, <3>1, <3>2, <3>3
    <3> QED
      BY <3>0, <3>4
  <2>7. ASSUME NEW u \in Task PROVE Shared(t, u)' /\ Shared(u, t)'
    <3>1. CASE u = t
      BY <3>1 DEF Shared
    <3>2. CASE u # t /\ ~At(u, "collect")
      BY <2>2, <3>2 DEF Shared, At
    <3>3. CASE u # t /\ At(u, "collect")
      <4>1. Shared(t, u)'
        BY <2>6, <3>3 DEF Shared
      <4>2. Shared(u, t)'
        BY <2>6, <3>3 DEF Shared
      <4> QED
        BY <4>1, <4>2
    <3> QED
      BY <3>1, <3>2, <3>3
  <2> QED
    BY <1>1, <1>2, <1>3, <2>2, <2>4, <2>7, TaskKeepsUnique
<1> QED
  BY <1>5, <1>6

LEMMA CollectNotesKeepsUnique == ASSUME UInv, IInv', NEW t \in Task, CollectNotes(t) PROVE UInv'
<1> DEFINE found == local[t].found
           more == [i \in DOMAIN found |->
              [note |-> found[i].note, block |-> found[i].block, depositor |-> local[t].deposits]]
<1>1. /\ At(t, "collect") /\ notes' = notes \o more /\ Goto(t, "decrypt")
      /\ (found = <<>> => diskNotes' = diskNotes) /\ (found # <<>> => diskNotes' = notes')
      /\ blocks' = blocks /\ pool' = pool /\ foundTwice' = foundTwice
  BY DEF CollectNotes, chainVars
<1>2. Types /\ local[t] \in Local(Len(blocks)) /\ "decrypt" \in Label
  BY DEF UInv, IInv, Types, Label
<1>3. local'[t].pc = "decrypt" /\ \A u \in Task \ {t} : local'[u] = local[u]
  BY <1>1, <1>2, GotoTask
<1>4. found \in Seq(Found(Len(blocks)))
  BY <1>2 DEF Local
<1>5. Distinct(found) /\ \A i \in DOMAIN found, j \in DOMAIN notes :
                            found[i].note = notes[j].note => notes[j].note \in foundTwice
  BY <1>1 DEF UInv, Fresh
<1>6. DOMAIN more = DOMAIN found /\ \A i \in DOMAIN found : more[i].note = found[i].note
  OBVIOUS
<1>7. more \in Seq({more[i] : i \in DOMAIN more}) /\ notes \in Seq(Stored(Len(blocks)))
  <2>1. more = [i \in 1..Len(found) |-> more[i]] /\ Len(found) \in Int /\ DOMAIN more = 1..Len(found)
    BY <1>4
  <2> HIDE DEF more
  <2>2. \A i \in 1..Len(found) : more[i] \in {more[j] : j \in DOMAIN more}
    BY <2>1
  <2>3. more \in Seq({more[i] : i \in DOMAIN more})
    BY <2>1, <2>2, SeqIntro
  <2> QED
    BY <1>2, <2>3 DEF Types
<1>8. ASSUME NEW u \in Task \ {t}, At(u, "collect"), NEW i \in DOMAIN local[u].found, NEW k \in DOMAIN found,
             local[u].found[i].note = found[k].note
      PROVE  found[k].note \in foundTwice
  BY <1>1, <1>8 DEF UInv, Shared
<1> HIDE DEF more, found
<1> DEFINE S == Stored(Len(blocks)) \cup {more[i] : i \in DOMAIN more}
<1>9. more \in Seq(S) /\ notes \in Seq(S)
  BY <1>7
<1> HIDE DEF S
<1>10. Distinct(more) /\ StoredOnce(notes) /\ StoredOnce(diskNotes)
       /\ \A i \in DOMAIN notes, j \in DOMAIN more : notes[i].note = more[j].note => notes[i].note \in foundTwice
  BY <1>5, <1>6 DEF UInv, Distinct
<1>11. StoredOnce(notes)'
  <2>1. StoredOnce(notes \o more)
    BY <1>9, <1>10, JoinOnce
  <2> QED
    BY <1>1, <2>1 DEF StoredOnce
<1>12. StoredOnce(diskNotes)'
  BY <1>1, <1>10, <1>11 DEF StoredOnce
<1>13. Fresh(t)' /\ \A u \in Task : Shared(t, u)' /\ Shared(u, t)'
  BY <1>3 DEF Fresh, Shared, At
<1>14. ASSUME NEW u \in Task \ {t} PROVE Fresh(u)'
  <2> SUFFICES ASSUME At(u, "collect")
               PROVE  /\ Distinct(local[u].found)
                      /\ \A i \in DOMAIN local[u].found, j \in DOMAIN (notes \o more) :
                           local[u].found[i].note = (notes \o more)[j].note
                             => (notes \o more)[j].note \in foundTwice
    BY <1>1, <1>3 DEF Fresh, Distinct, At
  <2>1. /\ Distinct(local[u].found)
        /\ \A i \in DOMAIN local[u].found, j \in DOMAIN notes :
             local[u].found[i].note = notes[j].note => notes[j].note \in foundTwice
    BY DEF UInv, Fresh
  <2>2. Drawn(notes \o more, notes, more)
    BY ONLY <1>9, JoinMembers
  <2>3. ASSUME NEW i \in DOMAIN local[u].found, NEW j \in DOMAIN (notes \o more),
               local[u].found[i].note = (notes \o more)[j].note
        PROVE  (notes \o more)[j].note \in foundTwice
    <3>1. CASE \E k \in DOMAIN notes : (notes \o more)[j] = notes[k]
      BY <2>1, <2>3, <3>1
    <3>2. CASE \E k \in DOMAIN more : (notes \o more)[j] = more[k]
      BY <1>6, <1>8, <2>3, <3>2
    <3> QED
      BY <2>2, <3>1, <3>2 DEF Drawn
  <2> QED
    BY <2>1, <2>3
<1>15. ASSUME NEW u \in Task \ {t}, NEW v \in Task \ {t} PROVE Shared(u, v)'
  <2>1. Shared(u, v)
    BY DEF UInv
  <2> QED
    BY <1>1, <1>3, <2>1 DEF Shared, At
<1>16. DepositedOnce'
  BY <1>1, DepositsStay
<1>17. (\A u \in Task : Fresh(u)') /\ \A u, v \in Task : Shared(u, v)'
  BY <1>13, <1>14, <1>15
<1> QED
  BY <1>11, <1>12, <1>16, <1>17 DEF UInv

\* The part of ExamineWithdrawals that is about notes and tasks
LEMMA ExamineMoves ==
  ASSUME Types, NEW t \in Task, ExamineWithdrawals(t)
  PROVE  /\ At(t, "loop") /\ blocks' = blocks /\ pool' = pool /\ notes' = notes /\ diskNotes' = diskNotes
         /\ foundTwice' = foundTwice
         /\ Goto(t, "idle") \/ (local'[t].pc = "attest" /\ \A u \in Task \ {t} : local'[u] = local[u])
<1> DEFINE found == local[t].found
           unknown == {i \in DOMAIN found : found[i].note \notin DOMAIN withdrawals}
           stops == {i \in unknown : AutoAttest /\ Passes(found[i].note, notes)}
           stop == CHOOSE i \in stops : \A j \in stops : i <= j
           added == {i \in unknown : stops = {} \/ i <= stop}
           key == {found[i].note : i \in added}
           of(n) == CHOOSE i \in added : found[i].note = n
<1>1. /\ At(t, "loop") /\ UNCHANGED <<chainVars, scanVars, secrets>>
      /\ withdrawals' = [n \in DOMAIN withdrawals \cup key |->
           IF n \in DOMAIN withdrawals THEN withdrawals[n]
           ELSE [status |-> "pending", block |-> found[of(n)].block]]
      /\ (stops # {} => /\ UNCHANGED <<lastWithdrawalScannedBlock, diskWithdrawals>>
                        /\ local' = [local EXCEPT ![t].pc = "attest", ![t].new = TRUE,
                                       ![t].found = SubSeq(found, stop, Len(found))])
      /\ (stops = {} => /\ lastWithdrawalScannedBlock' = local[t].upTo
                        /\ diskWithdrawals' \in {withdrawals', diskWithdrawals}
                        /\ Goto(t, "idle"))
  BY DEF ExamineWithdrawals, WithdrawalsUpTo
<1>2. local[t] \in Local(Len(blocks)) /\ local \in [Task -> Local(Len(blocks))]
  BY DEF Types
<1> HIDE DEF stops, stop, key, of
<1>3. blocks' = blocks /\ pool' = pool /\ notes' = notes /\ diskNotes' = diskNotes /\ foundTwice' = foundTwice
  BY <1>1 DEF chainVars, scanVars
<1>4. Goto(t, "idle") \/ (local'[t].pc = "attest" /\ \A u \in Task \ {t} : local'[u] = local[u])
  BY <1>1, <1>2 DEF Local
<1> QED
  BY <1>1, <1>3, <1>4

\* The other steps of a task store no note.
LEMMA StepKeepsUnique ==
  ASSUME UInv, IInv', NEW t \in Task, Step(t) \/ Fail(t)
  PROVE  UInv'
<1>1. CASE QueryNotes(t) \/ CollectNotes(t)
  BY <1>1, QueryNotesKeepsUnique, CollectNotesKeepsUnique
<1>2. local[t] \in Local(Len(blocks)) /\ local \in [Task -> Local(Len(blocks))]
  BY DEF UInv, IInv, Types
<1>3. {"decrypt", "query", "idle", "attested", Return(t), AfterRevert(t)} \subseteq Label \ {"collect"}
  BY DEF Label, Return, AfterRevert
<1>4. CASE DecryptNotes(t)
  <2>1. /\ Goto(t, "query") /\ blocks' = blocks /\ pool' = pool
        /\ notes' = notes /\ diskNotes' = diskNotes /\ foundTwice' = foundTwice
    BY <1>4 DEF DecryptNotes, chainVars, scanVars
  <2>2. DepositedOnce'
    BY <2>1, DepositsStay
  <2> QED
    BY <1>3, <2>1, <2>2, MoveKeepsUnique
<1>5. CASE QueryWithdrawals(t) \/ ExamineWithdrawals(t)
  <2>1. /\ blocks' = blocks /\ pool' = pool /\ notes' = notes /\ diskNotes' = diskNotes
        /\ foundTwice' = foundTwice
        /\ \/ Goto(t, "idle")
           \/ local'[t].pc # "collect" /\ \A u \in Task \ {t} : local'[u] = local[u]
    <3>1. CASE QueryWithdrawals(t)
      <4> DEFINE next == IF lastWithdrawalScannedBlock > 0 THEN lastWithdrawalScannedBlock + 1 ELSE 1
                 events == EventsFrom("WithdrawalInitiated", StartBlock(t, next))
      <4>1. /\ UNCHANGED <<chainVars, scanVars>>
            /\ \/ Goto(t, "idle")
               \/ local' = [local EXCEPT ![t].pc = "loop", ![t].found = events, ![t].new = FALSE,
                                         ![t].upTo = LastBlock(events)]
        BY <3>1 DEF QueryWithdrawals
      <4> HIDE DEF events
      <4>2. Goto(t, "idle") \/ (local'[t].pc = "loop" /\ \A u \in Task \ {t} : local'[u] = local[u])
        BY <1>2, <4>1 DEF Local
      <4> QED
        BY <4>1, <4>2 DEF chainVars, scanVars
    <3>2. CASE ExamineWithdrawals(t)
      BY <3>2, ExamineMoves DEF UInv, IInv
    <3> QED
      BY <1>5, <3>1, <3>2
  <2>2. DepositedOnce'
    BY <2>1, DepositsStay
  <2>3. CASE Goto(t, "idle")
    BY <1>3, <2>1, <2>2, <2>3, MoveKeepsUnique
  <2> QED
    BY <2>1, <2>2, <2>3, AwayKeepsUnique
<1>6. CASE AttestWithdrawal(t)
  <2>1. /\ blocks' = blocks
        /\ notes' = notes /\ diskNotes' = diskNotes /\ foundTwice' = foundTwice
        /\ \/ Goto(t, "attested") /\ pool' = [pool EXCEPT ![Current(t)] = "attested"]
           \/ Goto(t, AfterRevert(t)) /\ pool' = pool
    BY <1>6 DEF AttestWithdrawal, scanVars
  <2>2. \A n \in Note : pool[n] # "none" => pool'[n] # "none"
    BY <2>1 DEF UInv, IInv, Types
  <2>3. DepositedOnce'
    BY <2>1, <2>2, DepositsStay
  <2> QED
    BY <1>3, <2>1, <2>3, MoveKeepsUnique
<1>7. CASE Attested(t)
  <2>1. /\ Goto(t, Return(t)) /\ blocks' = blocks /\ pool' = pool
        /\ notes' = notes /\ diskNotes' = diskNotes /\ foundTwice' = foundTwice
    BY <1>7 DEF Attested, chainVars, scanVars
  <2>2. DepositedOnce'
    BY <2>1, DepositsStay
  <2> QED
    BY <1>3, <2>1, <2>2, MoveKeepsUnique
<1>8. CASE Fail(t)
  <2>1. /\ blocks' = blocks /\ pool' = pool /\ notes' = notes /\ diskNotes' = diskNotes
        /\ foundTwice' = foundTwice
        /\ \/ Goto(t, "decrypt")
           \/ At(t, "collect") /\ local' = [local EXCEPT ![t].deposits = FALSE]
           \/ Goto(t, "idle")
           \/ Goto(t, Return(t))
    BY <1>8 DEF Fail, chainVars, scanVars
  <2>2. DepositedOnce'
    BY <2>1, DepositsStay
  <2>3. CASE At(t, "collect") /\ local' = [local EXCEPT ![t].deposits = FALSE]
    <3>1. /\ local'[t].pc = local[t].pc /\ local'[t].found = local[t].found
          /\ \A u \in Task \ {t} : local'[u] = local[u]
      BY <1>2, <2>3 DEF Local
    <3>2. Fresh(t) /\ \A u \in Task : Shared(t, u) /\ Shared(u, t)
      BY DEF UInv
    <3>3. Fresh(t)'
      BY <2>1, <3>1, <3>2 DEF Fresh, Distinct, At
    <3>4. \A u \in Task : local'[u].pc = local[u].pc /\ local'[u].found = local[u].found
      BY <3>1
    <3>5. ASSUME NEW u \in Task PROVE Shared(t, u)' /\ Shared(u, t)'
      BY <2>1, <3>2, <3>4 DEF Shared, At
    <3> QED
      BY <2>1, <2>2, <3>1, <3>3, <3>5, TaskKeepsUnique
  <2>4. CASE Goto(t, "decrypt") \/ Goto(t, "idle") \/ Goto(t, Return(t))
    BY <1>3, <2>1, <2>2, <2>4, MoveKeepsUnique
  <2> QED
    BY <2>1, <2>3, <2>4
<1> QED
  BY <1>1, <1>4, <1>5, <1>6, <1>7, <1>8 DEF Step

LEMMA ManualKeepsUnique ==
  ASSUME UInv, IInv', NEW a \in Admins, ManualAttest(a) \/ \E n \in Note : RequestAttestation(a, n)
  PROVE  UInv'
<1>1. a \in Task /\ local[a] \in Local(Len(blocks)) /\ local \in [Task -> Local(Len(blocks))]
  BY DEF UInv, IInv, Types, Task
<1>2. /\ blocks' = blocks /\ pool' = pool /\ notes' = notes /\ diskNotes' = diskNotes
      /\ foundTwice' = foundTwice
  BY DEF ManualAttest, RequestAttestation, chainVars, scanVars
<1>3. DepositedOnce'
  BY <1>2, DepositsStay
<1>4. CASE ManualAttest(a)
  <2>1. \E label \in {"attest", "idle"} : Goto(a, label)
    BY <1>4 DEF ManualAttest
  <2>2. {"attest", "idle"} \subseteq Label \ {"collect"}
    BY DEF Label
  <2> QED
    BY <1>1, <1>2, <1>3, <2>1, <2>2, MoveKeepsUnique
<1>5. ASSUME NEW n \in Note, RequestAttestation(a, n) PROVE UInv'
  <2> DEFINE item == <<[note |-> n, block |-> withdrawals[n].block]>>
  <2>0. local' = [local EXCEPT ![a].pc = "requested", ![a].found = item]
    BY <1>5 DEF RequestAttestation
  <2> HIDE DEF item
  <2>1. local'[a].pc = "requested" /\ \A u \in Task \ {a} : local'[u] = local[u]
    BY <1>1, <2>0 DEF Local
  <2> QED
    BY <1>1, <1>2, <1>3, <2>1, AwayKeepsUnique
<1> QED
  BY <1>4, <1>5

LEMMA StartingUnique == \A t \in Task : Starting[t].pc # "collect"
  BY DEF Starting, Idle

LEMMA CrashKeepsUnique == ASSUME UInv, IInv', Crash PROVE UInv'
<1>1. /\ blocks' = blocks /\ pool' = pool /\ notes' = <<>> /\ diskNotes' = diskNotes
      /\ foundTwice' = foundTwice /\ local' = Starting
  BY DEF Crash, chainVars
<1>2. DepositedOnce' /\ StoredOnce(notes)' /\ StoredOnce(diskNotes)'
  BY <1>1, DepositsStay DEF UInv, StoredOnce
<1>3. (\A t \in Task : Fresh(t)') /\ \A t, u \in Task : Shared(t, u)'
  BY <1>1, StartingUnique DEF Fresh, Shared, At
<1> QED
  BY <1>2, <1>3 DEF UInv

LEMMA InitUnique == Init => UInv
<1> SUFFICES ASSUME Init PROVE UInv
  OBVIOUS
<1>1. DepositedOnce /\ StoredOnce(notes) /\ StoredOnce(diskNotes)
  BY DEF Init, DepositedOnce, Deposit, StoredOnce
<1>2. (\A t \in Task : Fresh(t)) /\ \A t, u \in Task : Shared(t, u)
  BY StartingUnique DEF Init, Fresh, Shared, At
<1> QED
  BY <1>1, <1>2, InitIInv DEF UInv

LEMMA NextUnique == UInv /\ [Next]_vars => UInv'
<1> SUFFICES ASSUME UInv, [Next]_vars PROVE UInv'
  OBVIOUS
<1>0. IInv'
  BY NextIInv DEF UInv
<1>1. ASSUME NEW k \in Kind, NEW n \in Note, Mine(<<Event(k, n)>>) PROVE UInv'
  <2>1. <<Event(k, n)>> \in Seq(ChainEvent)
    BY DEF Event, ChainEvent
  <2> QED
    BY <1>0, <1>1, <2>1, MineKeepsUnique
<1>2. ASSUME NEW k \in Kind, NEW l \in Kind, NEW n \in Note, NEW o \in Note,
             Mine(<<Event(k, n), Event(l, o)>>)
      PROVE  UInv'
  <2>1. <<Event(k, n), Event(l, o)>> \in Seq(ChainEvent)
    BY DEF Event, ChainEvent
  <2> QED
    BY <1>0, <1>2, <2>1, MineKeepsUnique
<1>3. ASSUME NEW n \in Note, Claim(n) PROVE UInv'
  <2>1. /\ blocks' = blocks /\ pool' = [pool EXCEPT ![n] = "claimed"]
        /\ UNCHANGED <<notes, diskNotes, foundTwice, local>>
    BY <1>3 DEF Claim, scanVars
  <2>2. \A m \in Note : pool[m] # "none" => pool'[m] # "none"
    BY <2>1 DEF UInv, IInv, Types
  <2> QED
    BY <1>0, <2>1, <2>2, StayUnique
<1>4. ASSUME NEW a \in Admins, ManualAttest(a) \/ \E n \in Note : RequestAttestation(a, n) PROVE UInv'
  BY <1>0, <1>4, ManualKeepsUnique
<1>5. CASE Boot \/ Crash
  BY <1>0, <1>5, BootKeepsUnique, CrashKeepsUnique
<1>6. ASSUME NEW p \in Polls, StartPoll(p) PROVE UInv'
  BY <1>0, <1>6, StartPollKeepsUnique
<1>7. ASSUME NEW t \in Task, Step(t) \/ Fail(t) PROVE UInv'
  BY <1>0, <1>7, StepKeepsUnique
<1>8. CASE QueryDeposits \/ NoDeposits \/ AnswerHistory \/ UNCHANGED vars
           \/ \E kept \in SUBSET request.deposits : CollectHistory(kept)
  <2>1. UNCHANGED <<chainVars, scanVars, local>>
    BY <1>8 DEF QueryDeposits, NoDeposits, AnswerHistory, CollectHistory, vars
  <2> QED
    BY <1>0, <2>1, StayUnique DEF chainVars, scanVars
<1> QED
  BY <1>1, <1>2, <1>3, <1>4, <1>5, <1>6, <1>7, <1>8 DEF Next

\* A note is stored once, however many polls are in flight and however often
\* blocks are scanned again after crashes and failures, unless two scans had
\* found it before either had stored it (scanner.ts skips a note "if already
\* stored" before its awaits and stores it after them).
THEOREM StoredTwiceOnlyIfFoundTwiceAlways == Spec => []StoredTwiceOnlyIfFoundTwice
<1>1. UInv => StoredTwiceOnlyIfFoundTwice
  BY DEF UInv, StoredOnce, StoredTwiceOnlyIfFoundTwice
<1> QED
  BY <1>1, NextUnique, InitUnique, PTL DEF Spec

-----------------------------------------------------------------------------
\* Types: blocks scanned were mined.

Bounds ==
  /\ lastScannedBlock <= Len(blocks) /\ lastWithdrawalScannedBlock <= Len(blocks)
  /\ \A t \in Task : local[t].upTo <= Len(blocks)

\* The others have not moved.
Alone(t) == \A u \in Task \ {t} : local'[u] = local[u]

\* The notes of a list, and the withdrawals recorded as attested
NotesIn(list) == {list[i].note : i \in DOMAIN list}
AttestedIn(known) == {n \in DOMAIN known : known[n].status = "attested"}

LEMMA LastBlockMined ==
  ASSUME NEW n \in Nat, NEW events \in Seq(Found(n)), events # <<>>
  PROVE  LastBlock(events) \in 1..n
<1>1. Len(events) \in 1..Len(events)
  OBVIOUS
<1>2. events[Len(events)] \in Found(n)
  BY <1>1
<1> QED
  BY <1>2 DEF LastBlock, Found

LEMMA HighestIn ==
  ASSUME NEW n \in Nat, NEW S \in SUBSET (1..n), S # {}
  PROVE  Highest(S) \in 1..n
<1>1. PICK k \in S : \A m \in S : m <= k
  BY GreatestElement
<1>2. Highest(S) \in S
  BY <1>1 DEF Highest
<1> QED
  BY <1>2

LEMMA GotoFound ==
  ASSUME Types, NEW t \in Task, NEW label \in Label, Goto(t, label)
  PROVE  /\ local' \in [Task -> Local(Len(blocks))] /\ local'[t].pc = label
         /\ label # "idle" => local'[t].found = local[t].found /\ local'[t].upTo = local[t].upTo
         /\ label = "idle" => local'[t].upTo = 0
         /\ \A u \in Task \ {t} : local'[u] = local[u]
<1>1. local \in [Task -> Local(Len(blocks))] /\ local[t] \in Local(Len(blocks))
  BY DEF Types
<1>2. CASE label = "idle"
  <2>1. local' = [local EXCEPT ![t] = Idle] /\ Idle.upTo = 0
    BY <1>2 DEF Goto, Idle
  <2> QED
    BY <1>1, <1>2, <2>1, GotoTask
<1>3. CASE label # "idle"
  <2>1. local' = [local EXCEPT ![t] = [@ EXCEPT !.pc = label]]
    BY <1>3 DEF Goto
  <2>2. [local[t] EXCEPT !.pc = label].upTo = local[t].upTo
    BY <1>1 DEF Local
  <2> QED
    BY <1>1, <1>3, <2>1, <2>2, GotoTask
<1> QED
  BY <1>2, <1>3

\* What the loop records, and what is left to examine
LEMMA ExamineEffect ==
  ASSUME Types, NEW t \in Task, ExamineWithdrawals(t)
  PROVE  LET found == local[t].found IN
         /\ At(t, "loop") /\ Alone(t)
         /\ UNCHANGED <<blocks, notes, lastScannedBlock, request, answered>>
         /\ DOMAIN withdrawals \subseteq DOMAIN withdrawals'
         /\ DOMAIN withdrawals' \subseteq DOMAIN withdrawals \cup NotesIn(found)
         /\ AttestedIn(withdrawals') = AttestedIn(withdrawals)
         /\ diskWithdrawals' \in {withdrawals', diskWithdrawals}
         /\ \/ /\ local'[t].pc = "idle" /\ local'[t].upTo = 0
               /\ lastWithdrawalScannedBlock' = local[t].upTo
               /\ NotesIn(found) \subseteq DOMAIN withdrawals'
            \/ /\ local'[t].pc = "attest" /\ local'[t].upTo = local[t].upTo
               /\ lastWithdrawalScannedBlock' = lastWithdrawalScannedBlock
               /\ NotesIn(local'[t].found) \subseteq NotesIn(found)
               /\ NotesIn(found) \subseteq DOMAIN withdrawals' \cup NotesIn(local'[t].found)
<1> DEFINE found == local[t].found
           unknown == {i \in DOMAIN found : found[i].note \notin DOMAIN withdrawals}
           stops == {i \in unknown : AutoAttest /\ Passes(found[i].note, notes)}
           stop == CHOOSE i \in stops : \A j \in stops : i <= j
           added == {i \in unknown : stops = {} \/ i <= stop}
           key == {found[i].note : i \in added}
           of(n) == CHOOSE i \in added : found[i].note = n
           rest == SubSeq(found, stop, Len(found))
<1>1. /\ local[t] \in Local(Len(blocks)) /\ local \in [Task -> Local(Len(blocks))] /\ "idle" \in Label
  BY DEF Types, Label
<1>2. /\ At(t, "loop") /\ UNCHANGED <<blocks, notes, lastScannedBlock, request, answered>>
      /\ withdrawals' = [n \in DOMAIN withdrawals \cup key |->
           IF n \in DOMAIN withdrawals THEN withdrawals[n]
           ELSE [status |-> "pending", block |-> found[of(n)].block]]
      /\ (stops # {} => /\ UNCHANGED <<lastWithdrawalScannedBlock, diskWithdrawals>>
                        /\ local' = [local EXCEPT ![t].pc = "attest", ![t].new = TRUE, ![t].found = rest])
      /\ (stops = {} => /\ lastWithdrawalScannedBlock' = local[t].upTo
                        /\ diskWithdrawals' \in {withdrawals', diskWithdrawals}
                        /\ Goto(t, "idle"))
  BY DEF ExamineWithdrawals, WithdrawalsUpTo, chainVars, scanVars, historyVars
<1>3. /\ found \in Seq(Found(Len(blocks))) /\ DOMAIN found = 1..Len(found) /\ Len(found) \in Nat
  BY <1>1 DEF Local
<1>4. stops # {} => stop \in stops
  <2>1. stops \in SUBSET Nat
    <3>1. DOMAIN found \subseteq Nat
      BY <1>3
    <3> HIDE DEF found
    <3> QED
      BY <3>1
  <2> HIDE DEF stops
  <2> QED
    BY <2>1, LeastElement
<1>5. key \subseteq NotesIn(found)
  BY DEF NotesIn
<1>6. stops = {} => NotesIn(found) \subseteq DOMAIN withdrawals \cup key
  BY DEF NotesIn
<1>7. ASSUME stops # {}
      PROVE  /\ NotesIn(rest) \subseteq NotesIn(found)
             /\ NotesIn(found) \subseteq DOMAIN withdrawals \cup key \cup NotesIn(rest)
  <2>1. stop \in 1..Len(found)
    <3>1. stops \subseteq DOMAIN found
      OBVIOUS
    <3> HIDE DEF stops, stop, found
    <3> QED
      BY <1>3, <1>4, <1>7, <3>1
  <2>2. ASSUME NEW i \in DOMAIN found
        PROVE  found[i].note \in DOMAIN withdrawals \cup key \cup NotesIn(rest)
    <3>1. CASE i < stop
      <4>1. i <= stop
        BY <1>3, <2>1, <3>1
      <4>2. i \in unknown => i \in added
        BY <1>7, <4>1
      <4>3. i \notin unknown => found[i].note \in DOMAIN withdrawals
        BY <2>2
      <4>4. i \in added => found[i].note \in key
        OBVIOUS
      <4> HIDE DEF added, unknown, stops, stop, rest, found, key
      <4> QED
        BY <4>2, <4>3, <4>4
    <3>2. CASE i >= stop
      <4> HIDE DEF found, stop
      <4>1. i - stop + 1 \in DOMAIN rest /\ rest[i - stop + 1] = found[i]
        BY <1>3, <2>1, <2>2, <3>2
      <4> HIDE DEF rest
      <4> QED
        BY <4>1 DEF NotesIn
    <3>3. i < stop \/ i >= stop
      <4> HIDE DEF found, stop
      <4> QED
        BY <1>3, <2>1, <2>2
    <3> QED
      BY <3>1, <3>2, <3>3
  <2>3. ASSUME NEW j \in DOMAIN rest PROVE \E i \in DOMAIN found : rest[j] = found[i]
    <3> HIDE DEF found, stop
    <3>1. stop + j - 1 \in DOMAIN found /\ rest[j] = found[stop + j - 1]
      BY <1>3, <2>1, <2>3
    <3> QED
      BY <3>1
  <2> HIDE DEF found, rest, key
  <2> QED
    BY <2>2, <2>3 DEF NotesIn
<1> HIDE DEF key, of, stops, stop, rest
<1>8. DOMAIN withdrawals' = DOMAIN withdrawals \cup key
  BY <1>2
<1>9. AttestedIn(withdrawals') = AttestedIn(withdrawals)
  <2>1. \A n \in DOMAIN withdrawals' : withdrawals'[n].status = "attested" =>
          n \in DOMAIN withdrawals /\ withdrawals'[n] = withdrawals[n]
    BY <1>2
  <2>2. \A n \in DOMAIN withdrawals : n \in DOMAIN withdrawals' /\ withdrawals'[n] = withdrawals[n]
    BY <1>2
  <2> QED
    BY <2>1, <2>2 DEF AttestedIn
<1>10. CASE stops = {}
  <2>1. local'[t].pc = "idle" /\ local'[t].upTo = 0 /\ Alone(t)
    BY <1>1, <1>2, <1>10, GotoFound DEF Alone
  <2> QED
    BY <1>2, <1>5, <1>6, <1>8, <1>9, <1>10, <2>1
<1>11. CASE stops # {}
  <2>1. local'[t].pc = "attest" /\ local'[t].upTo = local[t].upTo /\ local'[t].found = rest /\ Alone(t)
    BY <1>1, <1>2, <1>11 DEF Alone, Local
  <2> QED
    BY <1>2, <1>5, <1>7, <1>8, <1>9, <1>11, <2>1
<1> QED
  BY <1>10, <1>11

\* What a start begins with
LEMMA StartingTasks ==
  /\ \A t \in Task : Starting[t].upTo = 0 /\ Starting[t].pc \in {"boot", "idle"}
  /\ Starting[Main].pc = "boot" /\ \A t \in Task \ {Main} : Starting[t].pc = "idle"
  /\ NoRequest.pc = "idle" /\ NoRequest.withdrawals = NoWithdrawals
  /\ NoRequest = [pc |-> NoRequest.pc, deposits |-> NoRequest.deposits, withdrawals |-> NoRequest.withdrawals]
  /\ DOMAIN NoWithdrawals = {}
BY DEF Starting, Idle, NoRequest, NoWithdrawals, Task

\* A step of one task: what it found is mined, and it scanned up to there.
LEMMA TaskBounds ==
  ASSUME IInv, Bounds, NEW t \in Task, Alone(t), blocks' = blocks,
         local'[t].upTo <= Len(blocks),
         lastScannedBlock' \in {lastScannedBlock, local[t].upTo},
         lastWithdrawalScannedBlock' \in {lastWithdrawalScannedBlock, local[t].upTo}
  PROVE  Bounds'
<1>1. \A u \in Task : local'[u].upTo <= Len(blocks)
  BY DEF Alone, Bounds
<1> QED
  BY <1>1 DEF Bounds

LEMMA MoveBounds ==
  ASSUME IInv, Bounds, NEW t \in Task, NEW label \in Label, Goto(t, label), blocks' = blocks,
         lastScannedBlock' \in {lastScannedBlock, local[t].upTo},
         lastWithdrawalScannedBlock' \in {lastWithdrawalScannedBlock, local[t].upTo}
  PROVE  Bounds'
<1>1. Alone(t) /\ (local'[t].upTo = local[t].upTo \/ local'[t].upTo = 0)
  BY GotoFound DEF Alone, IInv
<1>2. Len(blocks) \in Nat /\ local'[t].upTo <= Len(blocks)
  BY <1>1 DEF Bounds, IInv, Types
<1> QED
  BY <1>1, <1>2, TaskBounds

LEMMA StepBounds ==
  ASSUME IInv, Bounds, NEW t \in Task, Step(t) \/ Fail(t)
  PROVE  Bounds'
<1>1. /\ Types /\ Len(blocks) \in Nat
      /\ local[t] \in Local(Len(blocks)) /\ local \in [Task -> Local(Len(blocks))]
      /\ local[t].upTo <= Len(blocks)
  BY DEF IInv, Types, Bounds
<1>2. {"decrypt", "query", "idle", "attested", Return(t), AfterRevert(t)} \subseteq Label
  BY DEF Label, Return, AfterRevert
<1>3. ASSUME NEW kind, NEW start \in Nat \ {0}, EventsFrom(kind, start) # <<>>,
             local'[t].upTo = LastBlock(EventsFrom(kind, start)), Alone(t), blocks' = blocks,
             lastScannedBlock' = lastScannedBlock,
             lastWithdrawalScannedBlock' = lastWithdrawalScannedBlock
      PROVE  Bounds'
  <2>1. LastBlock(EventsFrom(kind, start)) \in 1..Len(blocks)
    BY <1>1, <1>3, EventsType, LastBlockMined
  <2> QED
    BY <1>1, <1>3, <2>1, TaskBounds
<1>4. CASE QueryNotes(t)
  <2> DEFINE start == StartBlock(t, lastScannedBlock + 1)
             events == EventsFrom("EncryptedNote", start)
  <2>1. /\ blocks' = blocks /\ lastScannedBlock' = lastScannedBlock
        /\ lastWithdrawalScannedBlock' = lastWithdrawalScannedBlock
        /\ (events = <<>> => Goto(t, "decrypt"))
        /\ (events # <<>> => local' = [local EXCEPT ![t].pc = "collect",
              ![t].found = Unstored(events), ![t].upTo = LastBlock(events)])
    BY <1>4 DEF QueryNotes, chainVars, scanVars, opVars
  <2>2. start \in Nat \ {0}
    BY <1>1, StartBlockType DEF Types
  <2> HIDE DEF start
  <2>3. events # <<>> => local'[t].upTo = LastBlock(events) /\ Alone(t)
    BY <1>1, <2>1 DEF Alone, Local
  <2> QED
    BY <1>2, <1>3, <2>1, <2>2, <2>3, MoveBounds
<1>5. CASE QueryWithdrawals(t)
  <2> DEFINE next == IF lastWithdrawalScannedBlock > 0 THEN lastWithdrawalScannedBlock + 1 ELSE 1
             start == StartBlock(t, next)
             events == EventsFrom("WithdrawalInitiated", start)
  <2>1. /\ blocks' = blocks /\ lastScannedBlock' = lastScannedBlock
        /\ lastWithdrawalScannedBlock' = lastWithdrawalScannedBlock
        /\ (events = <<>> => Goto(t, "idle"))
        /\ (events # <<>> => local' = [local EXCEPT ![t].pc = "loop", ![t].found = events,
              ![t].new = FALSE, ![t].upTo = LastBlock(events)])
    BY <1>5 DEF QueryWithdrawals, chainVars, scanVars, opVars
  <2>2. start \in Nat \ {0}
    BY <1>1, StartBlockType DEF Types
  <2> HIDE DEF start
  <2>3. events # <<>> => local'[t].upTo = LastBlock(events) /\ Alone(t)
    BY <1>1, <2>1 DEF Alone, Local
  <2> QED
    BY <1>2, <1>3, <2>1, <2>2, <2>3, MoveBounds
<1>6. CASE CollectNotes(t)
  <2>1. /\ Goto(t, "decrypt") /\ blocks' = blocks
        /\ lastScannedBlock' \in {lastScannedBlock, local[t].upTo}
        /\ lastWithdrawalScannedBlock' = lastWithdrawalScannedBlock
    BY <1>6 DEF CollectNotes, ScannedUpTo, chainVars, opVars
  <2> QED
    BY <1>2, <2>1, MoveBounds
<1>7. CASE ExamineWithdrawals(t)
  <2>1. /\ blocks' = blocks /\ lastScannedBlock' = lastScannedBlock
        /\ lastWithdrawalScannedBlock' \in {lastWithdrawalScannedBlock, local[t].upTo}
    BY <1>7 DEF ExamineWithdrawals, WithdrawalsUpTo, chainVars, scanVars
  <2>2. local'[t].upTo \in {0, local[t].upTo} /\ Alone(t)
    BY <1>1, <1>7, ExamineEffect
  <2> QED
    BY <1>1, <2>1, <2>2, TaskBounds
<1>8. CASE DecryptNotes(t) \/ AttestWithdrawal(t) \/ Attested(t)
  <2>1. /\ blocks' = blocks /\ lastScannedBlock' = lastScannedBlock
        /\ lastWithdrawalScannedBlock' = lastWithdrawalScannedBlock
        /\ \E label \in {"query", "attested", Return(t), AfterRevert(t)} : Goto(t, label)
    BY <1>8 DEF DecryptNotes, AttestWithdrawal, Attested, chainVars, scanVars, opVars
  <2> QED
    BY <1>2, <2>1, MoveBounds
<1>9. CASE Fail(t)
  <2>1. /\ blocks' = blocks /\ lastScannedBlock' = lastScannedBlock
        /\ lastWithdrawalScannedBlock' = lastWithdrawalScannedBlock
        /\ \/ \E label \in {"decrypt", "idle", Return(t)} : Goto(t, label)
           \/ local' = [local EXCEPT ![t].deposits = FALSE]
    BY <1>9 DEF Fail, chainVars, scanVars, opVars
  <2>2. local' = [local EXCEPT ![t].deposits = FALSE] => local'[t].upTo = local[t].upTo /\ Alone(t)
    BY <1>1 DEF Local, Alone
  <2> QED
    BY <1>1, <1>2, <2>1, <2>2, MoveBounds, TaskBounds
<1> QED
  BY <1>4, <1>5, <1>6, <1>7, <1>8, <1>9 DEF Step

LEMMA NextBounds == IInv /\ Bounds /\ [Next]_vars => Bounds'
<1> SUFFICES ASSUME IInv, Bounds, [Next]_vars PROVE Bounds'
  OBVIOUS
<1>1. /\ Len(blocks) \in Nat /\ blocks \in Seq(Seq(ChainEvent)) /\ Types
      /\ local \in [Task -> Local(Len(blocks))]
  BY DEF IInv, Types
<1>2. ASSUME NEW events, Mine(events) PROVE Bounds'
  <2>1. /\ blocks' = Append(blocks, events)
        /\ UNCHANGED <<lastScannedBlock, lastWithdrawalScannedBlock, local>>
    BY <1>2 DEF Mine, scanVars, opVars
  <2>2. Len(blocks') = Len(blocks) + 1
    BY <1>1, <2>1
  <2>3. /\ lastScannedBlock \in Nat /\ lastWithdrawalScannedBlock \in Nat
        /\ \A t \in Task : local[t].upTo \in Nat
    BY <1>1 DEF IInv, Types, Local
  <2> QED
    BY <1>1, <2>1, <2>2, <2>3 DEF Bounds
<1>3. ASSUME UNCHANGED <<blocks, lastScannedBlock, lastWithdrawalScannedBlock, local>> PROVE Bounds'
  BY <1>3 DEF Bounds
<1>4. ASSUME \/ \E n \in Note : Claim(n)
             \/ QueryDeposits \/ NoDeposits \/ AnswerHistory \/ UNCHANGED vars
             \/ \E kept \in SUBSET request.deposits : CollectHistory(kept)
      PROVE  Bounds'
  <2>1. UNCHANGED <<blocks, lastScannedBlock, lastWithdrawalScannedBlock, local>>
    BY <1>4 DEF Claim, QueryDeposits, NoDeposits, AnswerHistory, CollectHistory, vars, chainVars, scanVars, opVars
  <2> QED
    BY <1>3, <2>1
<1>5. ASSUME NEW a \in Admins, NEW n \in Note, RequestAttestation(a, n) PROVE Bounds'
  <2> DEFINE item == <<[note |-> n, block |-> withdrawals[n].block]>>
  <2>1. /\ local' = [local EXCEPT ![a].pc = "requested", ![a].found = item]
        /\ UNCHANGED <<blocks, lastScannedBlock, lastWithdrawalScannedBlock>>
    BY <1>5 DEF RequestAttestation, chainVars, scanVars, opVars
  <2> HIDE DEF item
  <2>2. a \in Task /\ Alone(a) /\ local'[a].upTo = local[a].upTo
    BY <1>1, <2>1 DEF Alone, Task, Local
  <2> QED
    BY <2>1, <2>2, TaskBounds DEF Bounds
<1>6. ASSUME NEW p \in Polls, StartPoll(p) PROVE Bounds'
  <2>1. /\ local' = [local EXCEPT ![p].pc = "scan", ![p].before = Len(notes)]
        /\ UNCHANGED <<blocks, lastScannedBlock, lastWithdrawalScannedBlock>>
    BY <1>6 DEF StartPoll, chainVars, scanVars, opVars
  <2>2. p \in Task /\ Alone(p) /\ local'[p].upTo = local[p].upTo
    BY <1>1, <2>1 DEF Alone, Task, Local
  <2> QED
    BY <2>1, <2>2, TaskBounds DEF Bounds
<1>7. ASSUME NEW a \in Admins, ManualAttest(a) PROVE Bounds'
  <2>1. /\ a \in Task /\ UNCHANGED <<blocks, lastScannedBlock, lastWithdrawalScannedBlock>>
        /\ \E label \in {"attest", "idle"} : Goto(a, label)
    BY <1>7 DEF ManualAttest, chainVars, scanVars, opVars, Task
  <2>2. {"attest", "idle"} \subseteq Label
    BY DEF Label
  <2> QED
    BY <2>1, <2>2, MoveBounds
<1>8. ASSUME Boot PROVE Bounds'
  <2> DEFINE from(known) == IF known = {} THEN Len(blocks) ELSE Highest(known)
             stored == {diskNotes[i].block : i \in DOMAIN diskNotes}
             recorded == {diskWithdrawals[n].block : n \in DOMAIN diskWithdrawals}
  <2>1. /\ lastScannedBlock' = from(stored) /\ lastWithdrawalScannedBlock' = from(recorded)
        /\ Goto(Main, "scan") /\ blocks' = blocks
    BY <1>8 DEF Boot, chainVars
  <2>2. stored \in SUBSET (1..Len(blocks))
    <3>1. \A i \in DOMAIN diskNotes : diskNotes[i] \in Stored(Len(blocks))
      BY <1>1 DEF Types
    <3> QED
      BY <3>1 DEF Stored
  <2>3. recorded \in SUBSET (1..Len(blocks))
    BY <1>1 DEF Types, RecordedOK, Recorded
  <2> HIDE DEF stored, recorded
  <2>4. \A known \in SUBSET (1..Len(blocks)) : from(known) <= Len(blocks)
    BY <1>1, HighestIn
  <2>5. /\ Main \in Task /\ "scan" \in Label
        /\ local'[Main].upTo = local[Main].upTo /\ Alone(Main)
    BY <1>1, <2>1, GotoFound DEF Alone, Task, Label
  <2> QED
    BY <2>1, <2>2, <2>3, <2>4, <2>5 DEF Bounds, Alone
<1>9. ASSUME Crash PROVE Bounds'
  BY <1>1, <1>9, StartingTasks DEF Crash, Bounds, chainVars
<1>10. ASSUME NEW t \in Task, Step(t) \/ Fail(t) PROVE Bounds'
  BY <1>10, StepBounds
<1> QED
  BY <1>2, <1>4, <1>5, <1>6, <1>7, <1>8, <1>9, <1>10 DEF Next

\* Types: stored notes and recorded withdrawals are of blocks of the chain,
\* and no scan went past its end (scanner.ts, operator.ts).
THEOREM TypeCorrect == Spec => []TypeOK
<1>1. Init => Bounds
  <2>1. Init => Len(blocks) = 0
    BY DEF Init
  <2> QED
    BY <2>1, StartingTasks DEF Init, Bounds
<1>2. IInv /\ Bounds => TypeOK
  BY DEF IInv, Types, Bounds, TypeOK, Stored, Recorded, RecordedOK, Status
<1> QED
  BY <1>1, <1>2, InitIInv, NextIInv, NextBounds, PTL DEF Spec

-----------------------------------------------------------------------------
\* Nothing is missed, and nothing told is taken back.

\* config.fromBlock is the first block of the contract, as scripts/dev.sh and
\* docker-compose.yml give it, and the first scan gets its answers.
FromTheStart == FromBlock = 1 /\ Main \notin Exposed

\* The notes with an event of a kind in the blocks up to last are among some.
Covered(kind, last, some) ==
  \A b \in 1..last : \A i \in DOMAIN blocks[b] : blocks[b][i].kind = kind => blocks[b][i].note \in some

Initiated ==
  {n \in Note : \E b \in DOMAIN blocks : \E i \in DOMAIN blocks[b] :
     blocks[b][i].kind = "WithdrawalInitiated" /\ blocks[b][i].note = n}

\* The withdrawals an answer calls attested
Told(known) == {n \in DOMAIN known : known[n] = "attested"}

\* In the loop over the withdrawals, or in an attestation that it waits for
Looping(t) == local[t].pc \in {"loop", "attest", "attested"}

\* The server listens once the start is over; a manual request scans nothing.
MainAlone ==
  /\ ~At(Main, "idle") => request.pc = "idle" /\ \A t \in Task \ {Main} : At(t, "idle")
  /\ \A a \in Admins : local[a].pc \in Manual

Request ==
  /\ request = [pc |-> request.pc, deposits |-> request.deposits, withdrawals |-> request.withdrawals]
  /\ request.pc # "answer" => request.withdrawals = NoWithdrawals

Gathered(t) == NotesIn(notes) \cup NotesIn(local[t].found)

\* What the scans went past is stored, or found and about to be.
NotesCovered ==
  /\ local[Main].pc \notin {"boot", "scan", "collect"} =>
       Covered("EncryptedNote", lastScannedBlock, NotesIn(notes))
  /\ \A t \in Task : At(t, "collect") =>
       /\ Covered("EncryptedNote", local[t].upTo, Gathered(t))
       /\ t = Main => Covered("EncryptedNote", lastScannedBlock, Gathered(t))

WithdrawalsCovered ==
  /\ At(Main, "idle") =>
       Covered("WithdrawalInitiated", lastWithdrawalScannedBlock, DOMAIN withdrawals)
  /\ \A t \in Task \ Admins : Looping(t) =>
       Covered("WithdrawalInitiated", local[t].upTo, DOMAIN withdrawals \cup NotesIn(local[t].found))

\* Only withdrawals of the chain are recorded or told of.
OnlyInitiated ==
  /\ DOMAIN withdrawals \cup DOMAIN diskWithdrawals \subseteq Initiated
  /\ DOMAIN request.withdrawals \cup DOMAIN answered \subseteq Initiated
  /\ \A t \in Task \ Admins : Looping(t) => NotesIn(local[t].found) \subseteq Initiated

\* What is recorded or told as attested is so on disk, and in memory once
\* that was read.
SavedFirst ==
  /\ Told(answered) \cup Told(request.withdrawals) \cup AttestedIn(withdrawals)
       \subseteq AttestedIn(diskWithdrawals)
  /\ ~At(Main, "boot") => AttestedIn(diskWithdrawals) \subseteq AttestedIn(withdrawals)

\* What was told is found again by the first scan, before anything is told.
ToldAgain ==
  /\ At(Main, "idle") => DOMAIN answered \cup DOMAIN request.withdrawals \subseteq DOMAIN withdrawals
  /\ Looping(Main) => DOMAIN answered \subseteq DOMAIN withdrawals \cup NotesIn(local[Main].found)
  /\ request.pc = "answer" =>
       DOMAIN answered \subseteq DOMAIN request.withdrawals /\ Told(answered) \subseteq Told(request.withdrawals)

CInv ==
  /\ IInv /\ Bounds /\ MainAlone /\ Request
  /\ NotesCovered /\ WithdrawalsCovered
  /\ OnlyInitiated /\ SavedFirst /\ ToldAgain

-----------------------------------------------------------------------------
\* What a query finds

\* The members of s are members of t.
Among(s, t) == \A p \in DOMAIN s : \E q \in DOMAIN t : t[q] = s[p]

LEMMA JoinHas ==
  ASSUME NEW S, NEW s \in Seq(S), NEW r \in Seq(S)
  PROVE  Among(s, s \o r) /\ Among(r, s \o r)
<1>1. ASSUME NEW p \in DOMAIN s PROVE \E q \in DOMAIN (s \o r) : (s \o r)[q] = s[p]
  <2>1. p \in DOMAIN (s \o r) /\ (s \o r)[p] = s[p]
    OBVIOUS
  <2> QED
    BY <2>1
<1>2. ASSUME NEW p \in DOMAIN r PROVE \E q \in DOMAIN (s \o r) : (s \o r)[q] = r[p]
  <2>1. Len(s) + p \in DOMAIN (s \o r) /\ (s \o r)[Len(s) + p] = r[p]
    OBVIOUS
  <2> QED
    BY <2>1
<1> QED
  BY <1>1, <1>2 DEF Among

\* Joined sequences have all members of each.
LEMMA FlattenCovers ==
  ASSUME NEW S, NEW seqs \in Seq(Seq(S)), NEW k \in 1..Len(seqs), NEW q \in DOMAIN seqs[k]
  PROVE  \E p \in DOMAIN FlattenSeq(seqs) : FlattenSeq(seqs)[p] = seqs[k][q]
<1>0. Len(seqs) \in Nat /\ Len(seqs) # 0 /\ \A i \in 1..Len(seqs) : seqs[i] \in Seq(S)
  OBVIOUS
<1>1. PICK f : /\ f = [i \in 1..Len(seqs) |-> IF i = 1 THEN seqs[i] ELSE f[i - 1] \o seqs[i]]
               /\ FlattenSeq(seqs) = f[Len(seqs)]
  BY <1>0, FlattenPrefixes
<1> DEFINE Has(s, x) == \E p \in DOMAIN s : s[p] = x
           Good(n) == f[n] \in Seq(S) /\ (k <= n => Has(f[n], seqs[k][q]))
           Q == {n \in Nat : n + 1 \in 1..Len(seqs) => Good(n + 1)}
<1>2. 0 \in Q
  <2>1. 1 \in 1..Len(seqs) /\ f[1] = seqs[1] /\ (k <= 1 => k = 1)
    BY <1>0, <1>1
  <2> QED
    BY <1>0, <2>1
<1>3. ASSUME NEW n \in Nat, n \in Q PROVE n + 1 \in Q
  <2>1. SUFFICES ASSUME (n + 1) + 1 \in 1..Len(seqs) PROVE Good((n + 1) + 1)
    OBVIOUS
  <2> DEFINE m == (n + 1) + 1
  <2>2. n + 1 \in 1..Len(seqs) /\ m # 1 /\ m - 1 = n + 1 /\ m \in 1..Len(seqs)
        /\ (k <= m => k <= n + 1 \/ k = m)
    BY <1>0, <2>1
  <2> HIDE DEF m
  <2>3. f[m] = f[n + 1] \o seqs[m] /\ seqs[m] \in Seq(S) /\ Good(n + 1)
    BY <1>0, <1>1, <1>3, <2>2
  <2>6. f[m] \in Seq(S)
    BY <2>3
  <2> QED
    <3>0. Among(f[n + 1], f[m]) /\ Among(seqs[m], f[m])
      <4>1. f[n + 1] \in Seq(S) /\ seqs[m] \in Seq(S) /\ f[m] = f[n + 1] \o seqs[m]
        BY <2>3
      <4>2. Among(f[n + 1], f[n + 1] \o seqs[m]) /\ Among(seqs[m], f[n + 1] \o seqs[m])
        BY ONLY <4>1, JoinHas
      <4> QED
        BY <4>1, <4>2
    <3>1. k <= m => Has(f[m], seqs[k][q])
      <4>1. CASE k <= n + 1
        BY <2>3, <3>0, <4>1 DEF Among
      <4>2. CASE k = m
        BY <2>3, <3>0, <4>2 DEF Among
      <4> QED
        BY <2>2, <4>1, <4>2
    <3> QED
      BY <2>6, <3>1 DEF m
<1>4. \A n \in Nat : n \in Q
  <2> HIDE DEF Q
  <2> QED
    BY <1>2, <1>3, SetInduction
<1>5. Len(seqs) - 1 \in Nat /\ (Len(seqs) - 1) + 1 = Len(seqs) /\ Len(seqs) \in 1..Len(seqs) /\ k <= Len(seqs)
  BY <1>0
<1>6. Good(Len(seqs))
  <2> HIDE DEF Good
  <2> QED
    BY <1>4, <1>5
<1> QED
  BY <1>1, <1>5, <1>6

\* A query finds every event from its first block on.
LEMMA EventsCover ==
  ASSUME Types, NEW kind, NEW start \in Nat \ {0},
         NEW b \in start..Len(blocks), NEW i \in DOMAIN blocks[b], blocks[b][i].kind = kind
  PROVE  blocks[b][i].note \in NotesIn(EventsFrom(kind, start))
<1> DEFINE n == Len(blocks)
           entry(c, e) == IF e.kind = kind THEN <<[note |-> e.note, block |-> c]>> ELSE <<>>
           entries(c) == [j \in 1..Len(blocks[c]) |-> entry(c, blocks[c][j])]
           block(c) == FlattenSeq(entries(c))
           seqs == [k \in 1..(n - start + 1) |-> block(start + k - 1)]
<1>0. n \in Nat /\ blocks \in Seq(Seq(ChainEvent))
  BY DEF Types
<1>1. ASSUME NEW c \in 1..n
      PROVE  entries(c) \in Seq(Seq(Found(n))) /\ Len(entries(c)) = Len(blocks[c])
  <2>1. blocks[c] \in Seq(ChainEvent) /\ Len(blocks[c]) \in Nat
    BY <1>0
  <2>2. ASSUME NEW j \in 1..Len(blocks[c])
        PROVE  entry(c, blocks[c][j]) \in Seq(Found(n))
    <3>1. blocks[c][j] \in ChainEvent
      BY <2>1
    <3>2. [note |-> blocks[c][j].note, block |-> c] \in Found(n)
      BY <3>1 DEF ChainEvent, Found
    <3> QED
      BY <3>2
  <2>3. entries(c) = [k \in 1..Len(blocks[c]) |-> entries(c)[k]] /\ DOMAIN entries(c) = 1..Len(blocks[c])
    OBVIOUS
  <2>4. entries(c) \in Seq(Seq(Found(n)))
    BY <2>1, <2>2, <2>3, SeqIntro
  <2> HIDE DEF entries
  <2> QED
    BY <2>1, <2>3, <2>4
<1>2. \A c \in 1..n : block(c) \in Seq(Found(n))
  <2> HIDE DEF entries
  <2> QED
    BY <1>1, FlattenType
<1> DEFINE x == [note |-> blocks[b][i].note, block |-> b]
<1>3. PICK p \in DOMAIN block(b) : block(b)[p] = x
  <2>1. b \in 1..n /\ i \in 1..Len(blocks[b])
    BY <1>0
  <2>2. entries(b)[i] = <<x>>
    BY <2>1
  <2>3. entries(b) \in Seq(Seq(Found(n))) /\ i \in 1..Len(entries(b)) /\ 1 \in DOMAIN entries(b)[i] /\ entries(b)[i][1] = x
    BY <1>1, <2>1, <2>2
  <2> HIDE DEF entries, x
  <2> QED
    BY <2>3, FlattenCovers
<1> HIDE DEF block, x
<1>4. seqs \in Seq(Seq(Found(n)))
  <2>1. \A k \in 1..(n - start + 1) : start + k - 1 \in 1..n
    BY <1>0
  <2>2. \A k \in 1..(n - start + 1) : seqs[k] \in Seq(Found(n))
    BY <1>2, <2>1
  <2>3. seqs = [k \in 1..(n - start + 1) |-> seqs[k]] /\ n - start + 1 \in Int
    BY <1>0
  <2> HIDE DEF seqs
  <2> QED
    BY <2>2, <2>3, SeqIntro
<1>5. EventsFrom(kind, start) = FlattenSeq(seqs)
  BY DEF EventsFrom, block
<1>6. b - start + 1 \in 1..Len(seqs) /\ seqs[b - start + 1] = block(b)
  <2>1. b - start + 1 \in 1..(n - start + 1) /\ start + (b - start + 1) - 1 = b
    BY <1>0
  <2>2. DOMAIN seqs = 1..(n - start + 1)
    OBVIOUS
  <2>3. seqs[b - start + 1] = block(b)
    BY <2>1
  <2>4. DOMAIN seqs = 1..Len(seqs)
    BY <1>4
  <2> HIDE DEF seqs
  <2> QED
    BY <2>1, <2>2, <2>3, <2>4
<1> HIDE DEF seqs
<1>7. PICK r \in DOMAIN FlattenSeq(seqs) : FlattenSeq(seqs)[r] = x
  <2>1. PICK k \in 1..Len(seqs) : seqs[k] = block(b)
    BY <1>6
  <2>2. p \in DOMAIN seqs[k] /\ seqs[k][p] = x
    BY <1>3, <2>1
  <2> QED
    BY ONLY <1>4, <2>2, FlattenCovers
<1> QED
  BY <1>5, <1>7 DEF NotesIn, x

\* It finds nothing else.
LEMMA EventsSound ==
  ASSUME Types, NEW start \in Nat \ {0}
  PROVE  NotesIn(EventsFrom("WithdrawalInitiated", start)) \subseteq Initiated
<1> DEFINE n == Len(blocks)
           kind == "WithdrawalInitiated"
           S == [note : Initiated, block : 1..n]
           entry(c, e) == IF e.kind = kind THEN <<[note |-> e.note, block |-> c]>> ELSE <<>>
           entries(c) == [j \in 1..Len(blocks[c]) |-> entry(c, blocks[c][j])]
           block(c) == FlattenSeq(entries(c))
           seqs == [k \in 1..(n - start + 1) |-> block(start + k - 1)]
<1>0. n \in Nat /\ blocks \in Seq(Seq(ChainEvent)) /\ DOMAIN blocks = 1..n
  BY DEF Types
<1>1. ASSUME NEW c \in 1..n PROVE block(c) \in Seq(S)
  <2>1. blocks[c] \in Seq(ChainEvent) /\ Len(blocks[c]) \in Nat
    BY <1>0
  <2>2. ASSUME NEW j \in 1..Len(blocks[c]) PROVE entry(c, blocks[c][j]) \in Seq(S)
    <3>1. blocks[c][j] \in ChainEvent /\ j \in DOMAIN blocks[c] /\ c \in DOMAIN blocks
      BY <1>0, <2>1
    <3>2. CASE blocks[c][j].kind = kind
      <4>1. blocks[c][j].note \in Initiated
        BY <3>1, <3>2 DEF Initiated, ChainEvent
      <4>2. [note |-> blocks[c][j].note, block |-> c] \in S
        BY <4>1
      <4> HIDE DEF S
      <4> QED
        BY <3>2, <4>2
    <3>3. CASE blocks[c][j].kind # kind
      BY <3>3
    <3> QED
      BY <3>2, <3>3
  <2>3. entries(c) = [k \in 1..Len(blocks[c]) |-> entries(c)[k]]
    OBVIOUS
  <2> HIDE DEF S
  <2>4. entries(c) \in Seq(Seq(S))
    BY <2>1, <2>2, <2>3, SeqIntro
  <2> HIDE DEF entries
  <2> QED
    BY <2>4, FlattenType
<1> HIDE DEF block, S
<1>2. seqs \in Seq(Seq(S))
  <2>1. \A k \in 1..(n - start + 1) : start + k - 1 \in 1..n
    BY <1>0
  <2>2. \A k \in 1..(n - start + 1) : seqs[k] \in Seq(S)
    BY <1>1, <2>1
  <2>3. seqs = [k \in 1..(n - start + 1) |-> seqs[k]] /\ n - start + 1 \in Int
    BY <1>0
  <2> HIDE DEF seqs
  <2> QED
    BY <2>2, <2>3, SeqIntro
<1>3. EventsFrom(kind, start) = FlattenSeq(seqs)
  BY DEF EventsFrom, block
<1> HIDE DEF seqs
<1>4. EventsFrom(kind, start) \in Seq(S)
  BY <1>2, <1>3, FlattenType
<1>5. \A r \in DOMAIN EventsFrom(kind, start) : EventsFrom(kind, start)[r] \in S
  BY <1>4
<1> QED
  BY <1>5 DEF NotesIn, S

LEMMA UnstoredCovers ==
  ASSUME NEW S, NEW events \in Seq(S)
  PROVE  NotesIn(events) \subseteq NotesIn(notes) \cup NotesIn(Unstored(events))
<1> DEFINE stored(e) == \E j \in DOMAIN notes : notes[j].note = e.note
           seqs == [i \in 1..Len(events) |-> IF stored(events[i]) THEN <<>> ELSE <<events[i]>>]
<1>1. Len(events) \in Nat /\ DOMAIN events = 1..Len(events) /\ \A i \in 1..Len(events) : events[i] \in S
  OBVIOUS
<1>2. Unstored(events) = FlattenSeq(seqs)
  BY DEF Unstored
<1>3. ASSUME NEW i \in DOMAIN events, ~stored(events[i])
      PROVE  \E p \in DOMAIN FlattenSeq(seqs) : FlattenSeq(seqs)[p] = events[i]
  <2>1. seqs[i] = <<events[i]>> /\ DOMAIN seqs = 1..Len(events)
    BY <1>1, <1>3
  <2>2. seqs = [j \in 1..Len(events) |-> seqs[j]] /\ Len(events) \in Int
    BY <1>1
  <2>3. \A j \in 1..Len(events) : seqs[j] = <<>> \/ seqs[j] = <<events[j]>>
    OBVIOUS
  <2> HIDE DEF seqs
  <2>4. \A j \in 1..Len(events) : seqs[j] \in Seq(S)
    <3> TAKE j \in 1..Len(events)
    <3>1. <<>> \in Seq(S) /\ <<events[j]>> \in Seq(S)
      BY <1>1
    <3> QED
      BY <2>3, <3>1
  <2>5. seqs \in Seq(Seq(S))
    BY <2>2, <2>4, SeqIntro
  <2>6. i \in 1..Len(seqs) /\ 1 \in DOMAIN seqs[i] /\ seqs[i][1] = events[i]
    <3>1. DOMAIN seqs = 1..Len(seqs)
      BY <2>5
    <3> QED
      BY <1>1, <2>1, <3>1
  <2> QED
    BY <2>5, <2>6, FlattenCovers
<1> HIDE DEF seqs
<1>4. ASSUME NEW i \in DOMAIN events
      PROVE  events[i].note \in NotesIn(notes) \cup NotesIn(Unstored(events))
  <2>1. CASE stored(events[i])
    BY <2>1 DEF NotesIn
  <2>2. CASE ~stored(events[i])
    BY <1>2, <1>3, <2>2 DEF NotesIn
  <2> QED
    BY <2>1, <2>2
<1> QED
  BY <1>4 DEF NotesIn

-----------------------------------------------------------------------------
\* What steps leave alone

LEMMA CoveredGrows ==
  ASSUME NEW kind, NEW last, NEW S, NEW T, S \subseteq T, Covered(kind, last, S)
  PROVE  Covered(kind, last, T)
BY DEF Covered

LEMMA AloneKeeps ==
  ASSUME MainAlone, NEW t \in Task, ~At(t, "idle") \/ (t # Main /\ At(Main, "idle")), Alone(t),
         request' = request, t \in Admins => local'[t].pc \in Manual
  PROVE  MainAlone'
<1>1. Main \in Task /\ \A a \in Admins : a \in Task
  BY DEF Task
<1>2. CASE t = Main
  BY <1>1, <1>2, AttestationAssumption DEF MainAlone, Alone, At
<1>3. CASE t # Main
  <2>1. local'[Main] = local[Main] /\ At(Main, "idle")
    BY <1>1, <1>3 DEF MainAlone, Alone
  <2>2. At(Main, "idle")'
    BY <2>1 DEF At
  <2>3. \A a \in Admins : local'[a].pc \in Manual
    BY <1>1 DEF MainAlone, Alone
  <2> QED
    BY <2>2, <2>3 DEF MainAlone
<1> QED
  BY <1>2, <1>3

\* A step that neither stores notes nor begins or ends a scan of them.
LEMMA NotesKept ==
  ASSUME NotesCovered, UNCHANGED <<blocks, notes, lastScannedBlock>>, NEW t \in Task, Alone(t),
         local'[t].pc = "collect" =>
           local[t].pc = "collect" /\ local'[t].found = local[t].found /\ local'[t].upTo = local[t].upTo,
         t = Main /\ local[t].pc \in {"boot", "scan", "collect"} => local'[t].pc = local[t].pc
  PROVE  NotesCovered'
<1>1. Main \in Task
  BY DEF Task
<1>2. local[Main].pc \in {"boot", "scan", "collect"} => local'[Main].pc = local[Main].pc
  BY <1>1 DEF Alone
<1>3. ASSUME NEW u \in Task, local'[u].pc = "collect"
      PROVE  local[u].pc = "collect" /\ local'[u].found = local[u].found /\ local'[u].upTo = local[u].upTo
  BY <1>3 DEF Alone
<1>4. local'[Main].pc \notin {"boot", "scan", "collect"} =>
        Covered("EncryptedNote", lastScannedBlock, NotesIn(notes))'
  BY <1>2 DEF NotesCovered, Covered, NotesIn
<1>5. ASSUME NEW u \in Task, local'[u].pc = "collect"
      PROVE  /\ Covered("EncryptedNote", local[u].upTo, Gathered(u))'
             /\ u = Main => Covered("EncryptedNote", lastScannedBlock, Gathered(u))'
  <2>1. /\ Covered("EncryptedNote", local[u].upTo, Gathered(u))
        /\ u = Main => Covered("EncryptedNote", lastScannedBlock, Gathered(u))
    BY <1>3, <1>5 DEF NotesCovered, At
  <2>2. Gathered(u)' = Gathered(u) /\ local'[u].upTo = local[u].upTo
    BY <1>3, <1>5 DEF Gathered, NotesIn
  <2> QED
    BY <2>1, <2>2 DEF Covered
<1> QED
  BY <1>4, <1>5 DEF NotesCovered, At

ListInv == WithdrawalsCovered /\ OnlyInitiated /\ SavedFirst /\ ToldAgain

\* A step that neither records nor tells, nor ends a scan of withdrawals.
LEMMA ListKept ==
  ASSUME ListInv, UNCHANGED <<blocks, opVars, request, answered>>, NEW t \in Task, Alone(t),
         t \notin Admins /\ Looping(t)' =>
           Looping(t) /\ local'[t].found = local[t].found /\ local'[t].upTo = local[t].upTo,
         t = Main => (At(t, "idle")' => At(t, "idle")) /\ (At(t, "boot") => At(t, "boot")')
  PROVE  ListInv'
<1>1. Main \in Task /\ Main \notin Admins
  BY AttestationAssumption DEF Task
<1>2. /\ At(Main, "idle")' => At(Main, "idle")
      /\ At(Main, "boot") => At(Main, "boot")'
      /\ \A u \in Task \ Admins : Looping(u)' =>
           Looping(u) /\ local'[u].found = local[u].found /\ local'[u].upTo = local[u].upTo
  BY <1>1 DEF Alone, At, Looping
<1>3. /\ blocks' = blocks /\ withdrawals' = withdrawals /\ diskWithdrawals' = diskWithdrawals
      /\ lastWithdrawalScannedBlock' = lastWithdrawalScannedBlock
      /\ request' = request /\ answered' = answered
  BY DEF opVars
<1>4. WithdrawalsCovered'
  BY <1>2, <1>3 DEF ListInv, WithdrawalsCovered, Covered, NotesIn
<1>5. OnlyInitiated'
  <2>1. Initiated' = Initiated
    BY <1>3 DEF Initiated
  <2>2. \A u \in Task \ Admins : Looping(u)' => NotesIn(local'[u].found) \subseteq Initiated
    BY <1>2 DEF ListInv, OnlyInitiated
  <2>3. /\ DOMAIN withdrawals \cup DOMAIN diskWithdrawals \subseteq Initiated
        /\ DOMAIN request.withdrawals \cup DOMAIN answered \subseteq Initiated
    BY DEF ListInv, OnlyInitiated
  <2> QED
    BY <1>3, <2>1, <2>2, <2>3 DEF OnlyInitiated, NotesIn
<1>6. SavedFirst'
  BY <1>2, <1>3 DEF ListInv, SavedFirst, Told, AttestedIn
<1>7. ToldAgain'
  BY <1>1, <1>2, <1>3 DEF ListInv, ToldAgain, Told, NotesIn
<1> QED
  BY <1>4, <1>5, <1>6, <1>7 DEF ListInv

\* A step of a task that reads and writes none of it.
LEMMA MoveCovers ==
  ASSUME CInv, IInv', Bounds', NEW t \in Task, ~At(t, "idle"), NEW label \in Label, Goto(t, label),
         UNCHANGED <<blocks, notes, lastScannedBlock, opVars, request, answered>>,
         label # "collect",
         label \in {"loop", "attest", "attested"} /\ t \notin Admins => Looping(t),
         t \in Admins => label \in Manual,
         t = Main => label # "idle" /\ local[t].pc \notin {"boot", "scan", "collect"}
  PROVE  CInv'
<1>1. /\ local'[t].pc = label /\ Alone(t)
      /\ label # "idle" => local'[t].found = local[t].found /\ local'[t].upTo = local[t].upTo
      /\ label = "idle" => local'[t].upTo = 0
  BY GotoFound DEF CInv, IInv, Alone
<1>2. MainAlone'
  BY <1>1, AloneKeeps DEF CInv
<1>3. Request'
  BY DEF CInv, Request
<1>4. NotesCovered'
  BY <1>1, NotesKept DEF CInv
<1>5. ListInv'
  <2>1. t \notin Admins /\ Looping(t)' =>
          Looping(t) /\ local'[t].found = local[t].found /\ local'[t].upTo = local[t].upTo
    BY <1>1 DEF Looping
  <2>2. t = Main => (At(t, "idle")' => At(t, "idle")) /\ (At(t, "boot") => At(t, "boot")')
    BY <1>1 DEF At
  <2>3. ListInv
    BY DEF CInv, ListInv
  <2> QED
    BY <1>1, <2>1, <2>2, <2>3, ListKept
<1> QED
  BY <1>2, <1>3, <1>4, <1>5 DEF CInv, ListInv

LEMMA NoManualScan ==
  ASSUME CInv, NEW t \in Task, local[t].pc \notin Manual
  PROVE  t \notin Admins /\ ~At(t, "idle")
BY DEF CInv, MainAlone, Manual, At

LEMMA MainIsIdle ==
  ASSUME CInv, NEW t \in Task, t # Main, ~At(t, "idle")
  PROVE  At(Main, "idle")
BY DEF CInv, MainAlone

\* All events of a query from the first block, or from where scans went past
LEMMA QueryCovers ==
  ASSUME Types, NEW kind, NEW start \in Nat \ {0}, NEW S,
         NEW last \in Nat, last <= Len(blocks), start = 1 \/ Covered(kind, start - 1, S)
  PROVE  Covered(kind, last, S \cup NotesIn(EventsFrom(kind, start)))
<1> SUFFICES ASSUME NEW b \in 1..last, NEW i \in DOMAIN blocks[b], blocks[b][i].kind = kind
             PROVE  blocks[b][i].note \in S \cup NotesIn(EventsFrom(kind, start))
  BY DEF Covered
<1>0. Len(blocks) \in Nat
  BY DEF Types
<1>1. CASE b < start
  <2>1. b \in 1..(start - 1) /\ start # 1
    BY <1>1
  <2> QED
    BY <2>1 DEF Covered
<1>2. CASE b >= start
  <2>1. b \in start..Len(blocks)
    BY <1>0, <1>2
  <2> QED
    BY <2>1, EventsCover
<1> QED
  BY <1>1, <1>2

LEMMA QueryNotesCovers == ASSUME FromTheStart, CInv, IInv', Bounds', NEW t \in Task, QueryNotes(t) PROVE CInv'
<1> DEFINE start == StartBlock(t, lastScannedBlock + 1)
           events == EventsFrom("EncryptedNote", start)
<1>1. Types /\ Len(blocks) \in Nat /\ local[t] \in Local(Len(blocks)) /\ local \in [Task -> Local(Len(blocks))]
      /\ lastScannedBlock \in Nat /\ lastScannedBlock <= Len(blocks)
  BY DEF CInv, Bounds, IInv, Types
<1>2. /\ At(t, "scan") /\ UNCHANGED <<blocks, notes, lastScannedBlock, opVars, request, answered>>
      /\ (events = <<>> => Goto(t, "decrypt"))
      /\ (events # <<>> => local' = [local EXCEPT ![t].pc = "collect",
            ![t].found = Unstored(events), ![t].upTo = LastBlock(events)])
  BY DEF QueryNotes, chainVars, scanVars, historyVars
<1>3. start \in Nat \ {0} /\ (t = Main => start = 1) /\ (t # Main => start = lastScannedBlock + 1)
  BY <1>1, StartBlockType DEF FromTheStart, StartBlock
<1>4. t \notin Admins /\ ~At(t, "idle")
  BY <1>2, NoManualScan DEF At, Manual
<1>5. start = 1 \/ Covered("EncryptedNote", start - 1, NotesIn(notes))
  <2>1. CASE t # Main
    <3>1. At(Main, "idle") /\ start - 1 = lastScannedBlock
      BY <1>1, <1>3, <1>4, <2>1, MainIsIdle
    <3> QED
      BY <3>1 DEF CInv, NotesCovered, At
  <2> QED
    BY <1>3, <2>1
<1> HIDE DEF start
<1>6. \A last \in Nat : last <= Len(blocks) =>
        Covered("EncryptedNote", last, NotesIn(notes) \cup NotesIn(events))
  BY <1>1, <1>3, <1>5, QueryCovers
<1>7. events \in Seq(Found(Len(blocks)))
  BY <1>1, <1>3, EventsType
<1> HIDE DEF events
<1>8. CASE events = <<>>
  <2>1. "decrypt" \in Label
    BY DEF Label
  <2>2. CASE t # Main
    BY <1>2, <1>4, <1>8, <2>1, <2>2, MoveCovers
  <2>3. CASE t = Main
    <3>1. /\ local'[t].pc = "decrypt" /\ Alone(t)
          /\ local'[t].found = local[t].found /\ local'[t].upTo = local[t].upTo
      BY <1>1, <1>2, <1>8, <2>1, GotoFound DEF Alone
    <3>2. MainAlone' /\ Request'
      BY <1>2, <1>4, <3>1, AloneKeeps DEF CInv, Request
    <3>3. ListInv'
      <4>1. ListInv /\ ~Looping(t)' /\ ~At(t, "idle")' /\ ~At(t, "boot")
        BY <1>2, <3>1 DEF CInv, ListInv, Looping, At
      <4> QED
        BY <1>2, <3>1, <4>1, ListKept
    <3>4. NotesCovered'
      <4>1. Covered("EncryptedNote", lastScannedBlock, NotesIn(notes))'
        <5>1. NotesIn(events) = {}
          BY <1>8 DEF NotesIn
        <5>2. Covered("EncryptedNote", lastScannedBlock, NotesIn(notes) \cup NotesIn(events))
          BY <1>1, <1>6
        <5>3. NotesIn(notes) \cup NotesIn(events) = NotesIn(notes)
          BY <5>1
        <5>4. NotesIn(notes') = NotesIn(notes)
          BY <1>2
        <5> QED
          BY <1>2, <5>2, <5>3, <5>4 DEF Covered
      <4>2. ASSUME NEW u \in Task PROVE ~At(u, "collect")'
        <5>1. u # Main => At(u, "idle")
          BY <1>4, <2>3 DEF CInv, MainAlone
        <5> QED
          BY <2>3, <3>1, <5>1 DEF Alone, At
      <4> QED
        BY <4>1, <4>2 DEF NotesCovered
    <3> QED
      BY <3>2, <3>3, <3>4 DEF CInv, ListInv
  <2> QED
    BY <2>2, <2>3
<1>9. CASE events # <<>>
  <2>1. LastBlock(events) \in 1..Len(blocks)
    BY <1>1, <1>7, <1>9, LastBlockMined
  <2>2. /\ local'[t].pc = "collect" /\ local'[t].found = Unstored(events)
        /\ local'[t].upTo = LastBlock(events) /\ Alone(t)
    BY <1>1, <1>2, <1>9 DEF Alone, Local
  <2>3. MainAlone' /\ Request'
    BY <1>2, <1>4, AloneKeeps, <2>2 DEF CInv, Request
  <2>4. ListInv'
    <3>1. ListInv /\ ~Looping(t)' /\ ~At(t, "idle")' /\ ~At(t, "boot")
      BY <1>2, <2>2 DEF CInv, ListInv, Looping, At
    <3> QED
      BY <1>2, <2>2, <3>1, ListKept
  <2>5. NotesCovered'
    <3>1. NotesIn(notes) \cup NotesIn(events) \subseteq Gathered(t)'
      <4>1. NotesIn(events) \subseteq NotesIn(notes) \cup NotesIn(Unstored(events))
        BY <1>7, UnstoredCovers
      <4>2. Gathered(t)' = NotesIn(notes) \cup NotesIn(Unstored(events))
        BY <1>2, <2>2 DEF Gathered, NotesIn
      <4> QED
        BY <4>1, <4>2
    <3>2. ASSUME NEW last \in Nat, last <= Len(blocks)
          PROVE  Covered("EncryptedNote", last, Gathered(t)')
      BY <1>6, <3>1, <3>2, CoveredGrows
    <3>3. Covered("EncryptedNote", local'[t].upTo, Gathered(t)') /\ Covered("EncryptedNote", lastScannedBlock, Gathered(t)')
      BY <1>1, <2>1, <2>2, <3>2
    <3>4. Covered("EncryptedNote", local[t].upTo, Gathered(t))' /\ Covered("EncryptedNote", lastScannedBlock, Gathered(t))'
      BY <1>2, <3>3 DEF Covered
    <3>5. ASSUME NEW u \in Task \ {t}, At(u, "collect")'
          PROVE  /\ Covered("EncryptedNote", local[u].upTo, Gathered(u))'
                 /\ u = Main => Covered("EncryptedNote", lastScannedBlock, Gathered(u))'
      <4>1. local'[u] = local[u] /\ At(u, "collect")
        BY <2>2, <3>5 DEF Alone, At
      <4> QED
        BY <1>2, <4>1 DEF CInv, NotesCovered, Covered, Gathered, NotesIn
    <3>6. local'[Main].pc \notin {"boot", "scan", "collect"} =>
            Covered("EncryptedNote", lastScannedBlock, NotesIn(notes))'
      <4>1. Main \in Task /\ (t = Main => local'[Main].pc = "collect") /\ (t # Main => local'[Main] = local[Main])
        BY <2>2 DEF Alone, Task
      <4> QED
        BY <1>2, <4>1 DEF CInv, NotesCovered, Covered, NotesIn
    <3> QED
      BY <3>4, <3>5, <3>6 DEF NotesCovered
  <2> QED
    BY <2>3, <2>4, <2>5 DEF CInv, ListInv
<1> QED
  BY <1>8, <1>9

LEMMA NotesJoin ==
  ASSUME NEW S, NEW s \in Seq(S), NEW r \in Seq(S)
  PROVE  NotesIn(s \o r) = NotesIn(s) \cup NotesIn(r)
<1>1. Drawn(s \o r, s, r) /\ Among(s, s \o r) /\ Among(r, s \o r)
  BY JoinMembers, JoinHas
<1> DEFINE t == s \o r
<1>2. Drawn(t, s, r) /\ Among(s, t) /\ Among(r, t)
  BY <1>1
<1> HIDE DEF t
<1>3. NotesIn(t) = NotesIn(s) \cup NotesIn(r)
  <2>1. NotesIn(t) \subseteq NotesIn(s) \cup NotesIn(r)
    BY <1>2 DEF Drawn, NotesIn
  <2>2. NotesIn(s) \subseteq NotesIn(t) /\ NotesIn(r) \subseteq NotesIn(t)
    BY <1>2 DEF Among, NotesIn
  <2> QED
    BY <2>1, <2>2
<1> QED
  BY <1>3 DEF t

LEMMA CollectNotesCovers == ASSUME CInv, IInv', Bounds', NEW t \in Task, CollectNotes(t) PROVE CInv'
<1> DEFINE found == local[t].found
           more == [i \in DOMAIN found |->
              [note |-> found[i].note, block |-> found[i].block, depositor |-> local[t].deposits]]
<1>1. Types /\ Len(blocks) \in Nat /\ local[t] \in Local(Len(blocks)) /\ "decrypt" \in Label
  BY DEF CInv, IInv, Types, Label
<1>2. /\ At(t, "collect") /\ notes' = notes \o more /\ Goto(t, "decrypt")
      /\ lastScannedBlock' \in {lastScannedBlock, local[t].upTo}
      /\ UNCHANGED <<blocks, opVars, request, answered>>
  BY DEF CollectNotes, ScannedUpTo, chainVars, historyVars
<1>3. t \notin Admins /\ ~At(t, "idle")
  BY <1>2, NoManualScan DEF At, Manual
<1>4. NotesIn(notes') = Gathered(t)
  <2>1. found \in Seq(Found(Len(blocks))) /\ local[t].deposits \in BOOLEAN
    BY <1>1 DEF Local
  <2>2. DOMAIN found = 1..Len(found) /\ Len(found) \in Int
        /\ \A i \in 1..Len(found) : found[i] \in Found(Len(blocks))
    BY <2>1
  <2>3. NotesIn(more) = NotesIn(found)
    BY DEF NotesIn
  <2> HIDE DEF found
  <2>4. \A i \in 1..Len(found) : more[i] \in Stored(Len(blocks))
    BY <2>1, <2>2 DEF Found, Stored
  <2>5. more = [i \in 1..Len(found) |-> more[i]]
    BY <2>2
  <2> HIDE DEF more
  <2>6. more \in Seq(Stored(Len(blocks)))
    BY <2>2, <2>4, <2>5, SeqIntro
  <2>7. NotesIn(notes \o more) = NotesIn(notes) \cup NotesIn(found)
    BY <1>1, <2>3, <2>6, NotesJoin DEF Types
  <2> QED
    BY <1>2, <2>7 DEF Gathered, found
<1> HIDE DEF more
<1>5. local'[t].pc = "decrypt" /\ Alone(t) /\ local'[t].upTo = local[t].upTo
  BY <1>1, <1>2, GotoFound DEF Alone
<1>6. MainAlone' /\ Request'
  BY <1>2, <1>3, <1>5, AloneKeeps DEF CInv, Request
<1>7. ListInv'
  <2>1. ListInv /\ ~Looping(t)' /\ ~At(t, "idle")' /\ ~At(t, "boot")
    BY <1>2, <1>5 DEF CInv, ListInv, Looping, At
  <2> QED
    BY <1>2, <1>5, <2>1, ListKept
<1>8. NotesCovered'
  <2>1. Covered("EncryptedNote", local[t].upTo, Gathered(t))
    BY <1>2 DEF CInv, NotesCovered
  <2>2. Covered("EncryptedNote", lastScannedBlock, Gathered(t))
    <3>1. CASE t = Main
      BY <1>2, <3>1 DEF CInv, NotesCovered
    <3>2. CASE t # Main
      <4>1. At(Main, "idle")
        BY <1>3, <3>2, MainIsIdle
      <4>2. Covered("EncryptedNote", lastScannedBlock, NotesIn(notes))
        BY <4>1 DEF CInv, NotesCovered, At
      <4> QED
        BY <4>2, CoveredGrows DEF Gathered
    <3> QED
      BY <3>1, <3>2
  <2>3. Covered("EncryptedNote", lastScannedBlock, NotesIn(notes))'
    BY <1>2, <1>4, <2>1, <2>2 DEF Covered
  <2>4. ASSUME NEW u \in Task, At(u, "collect")'
        PROVE  /\ Covered("EncryptedNote", local[u].upTo, Gathered(u))'
               /\ u = Main => Covered("EncryptedNote", lastScannedBlock, Gathered(u))'
    <3>1. local'[u] = local[u] /\ u # t /\ At(u, "collect")
      BY <1>5, <2>4 DEF Alone, At
    <3>2. u # Main
      <4>1. u = Main => ~At(Main, "idle")
        BY <3>1 DEF At
      <4> QED
        BY <1>3, <3>1, <4>1, MainIsIdle
    <3>3. Covered("EncryptedNote", local[u].upTo, Gathered(u))
      BY <3>1 DEF CInv, NotesCovered
    <3>4. Gathered(u) \subseteq Gathered(u)'
      BY <1>4, <3>1 DEF Gathered
    <3>5. Covered("EncryptedNote", local[u].upTo, Gathered(u)')
      BY <3>3, <3>4, CoveredGrows
    <3> QED
      BY <1>2, <3>1, <3>2, <3>5 DEF Covered
  <2> QED
    BY <2>3, <2>4 DEF NotesCovered
<1> QED
  BY <1>6, <1>7, <1>8 DEF CInv, ListInv

LEMMA DecryptNotesCovers == ASSUME CInv, IInv', Bounds', NEW t \in Task, DecryptNotes(t) PROVE CInv'
<1>1. /\ At(t, "decrypt") /\ Goto(t, "query") /\ "query" \in Label
      /\ UNCHANGED <<blocks, notes, lastScannedBlock, opVars, request, answered>>
  BY DEF DecryptNotes, Label, chainVars, scanVars, historyVars
<1>2. t \notin Admins /\ ~At(t, "idle") /\ local[t].pc \notin {"boot", "scan", "collect"}
  BY <1>1, NoManualScan DEF At, Manual
<1> QED
  BY <1>1, <1>2, MoveCovers

\* All events are found by a scan from the first block.
LEMMA AllInitiated ==
  ASSUME Types, NEW S, Covered("WithdrawalInitiated", Len(blocks), S)
  PROVE  Initiated \subseteq S
<1>1. DOMAIN blocks = 1..Len(blocks)
  BY DEF Types
<1> QED
  BY <1>1 DEF Covered, Initiated

LEMMA QueryWithdrawalsCovers ==
  ASSUME FromTheStart, CInv, IInv', Bounds', NEW t \in Task, QueryWithdrawals(t)
  PROVE  CInv'
<1> DEFINE next == IF lastWithdrawalScannedBlock > 0 THEN lastWithdrawalScannedBlock + 1 ELSE 1
           start == StartBlock(t, next)
           events == EventsFrom("WithdrawalInitiated", start)
<1>1. Types /\ Len(blocks) \in Nat /\ local[t] \in Local(Len(blocks)) /\ local \in [Task -> Local(Len(blocks))]
      /\ lastWithdrawalScannedBlock \in Nat /\ lastWithdrawalScannedBlock <= Len(blocks)
  BY DEF CInv, Bounds, IInv, Types
<1>2. /\ At(t, "query") /\ UNCHANGED <<blocks, notes, lastScannedBlock, opVars, request, answered>>
      /\ (events = <<>> => Goto(t, "idle"))
      /\ (events # <<>> => local' = [local EXCEPT ![t].pc = "loop", ![t].found = events,
            ![t].new = FALSE, ![t].upTo = LastBlock(events)])
  BY DEF QueryWithdrawals, chainVars, scanVars, historyVars
<1>3. start \in Nat \ {0} /\ (t = Main => start = 1) /\ (t # Main => start = lastWithdrawalScannedBlock + 1)
  <2>1. next = lastWithdrawalScannedBlock + 1
    BY <1>1
  <2> HIDE DEF next
  <2> QED
    BY <1>1, <2>1, StartBlockType DEF FromTheStart, StartBlock
<1> HIDE DEF next
<1>4. t \notin Admins /\ ~At(t, "idle") /\ local[t].pc \notin {"boot", "scan", "collect"}
  BY <1>2, NoManualScan DEF At, Manual
<1>5. start = 1 \/ Covered("WithdrawalInitiated", start - 1, DOMAIN withdrawals)
  <2>1. CASE t # Main
    <3>1. At(Main, "idle") /\ start - 1 = lastWithdrawalScannedBlock
      BY <1>1, <1>3, <1>4, <2>1, MainIsIdle
    <3> QED
      BY <3>1 DEF CInv, WithdrawalsCovered
  <2> QED
    BY <1>3, <2>1
<1> HIDE DEF start
<1> DEFINE all == DOMAIN withdrawals \cup NotesIn(events)
<1>6. \A last \in Nat : last <= Len(blocks) => Covered("WithdrawalInitiated", last, all)
  BY <1>1, <1>3, <1>5, QueryCovers
<1>7. events \in Seq(Found(Len(blocks))) /\ NotesIn(events) \subseteq Initiated
  BY <1>1, <1>3, EventsType, EventsSound
<1>8. DOMAIN answered \subseteq DOMAIN withdrawals \cup NotesIn(events)
  <2> HIDE DEF all
  <2>1. Covered("WithdrawalInitiated", Len(blocks), all)
    BY <1>1, <1>6
  <2>2. Initiated \subseteq all
    BY <1>1, <2>1, AllInitiated
  <2> QED
    BY <2>2 DEF CInv, OnlyInitiated, all
<1> HIDE DEF events
<1>9. CASE events = <<>>
  <2>1. "idle" \in Label
    BY DEF Label
  <2>2. CASE t # Main
    BY <1>2, <1>4, <1>9, <2>1, <2>2, MoveCovers DEF Manual
  <2>3. CASE t = Main
    <3>1. local'[t].pc = "idle" /\ Alone(t) /\ local'[t].upTo = 0
      BY <1>1, <1>2, <1>9, <2>1, GotoFound DEF Alone
    <3>2. MainAlone' /\ Request'
      BY <1>2, <1>4, <3>1, AloneKeeps DEF CInv, Request
    <3>3. NotesCovered'
      BY <1>2, <1>4, <3>1, NotesKept DEF CInv
    <3>4. NotesIn(events) = {}
      BY <1>9 DEF NotesIn
    <3>5. ASSUME NEW u \in Task \ Admins, Looping(u)' PROVE FALSE
      <4>1. u # Main => At(u, "idle")
        BY <1>4, <2>3 DEF CInv, MainAlone
      <4> QED
        BY <2>3, <3>1, <3>5, <4>1 DEF Alone, At, Looping
    <3>6. WithdrawalsCovered'
      <4>1. DOMAIN withdrawals \cup NotesIn(events) = DOMAIN withdrawals
        BY <3>4
      <4> HIDE DEF all
      <4>3. Covered("WithdrawalInitiated", lastWithdrawalScannedBlock, all)
        BY <1>1, <1>6
      <4>2. Covered("WithdrawalInitiated", lastWithdrawalScannedBlock, DOMAIN withdrawals)
        BY <4>1, <4>3 DEF all
      <4> QED
        BY <1>2, <3>5, <4>2 DEF WithdrawalsCovered, Covered, opVars
    <3>7. OnlyInitiated'
      BY <1>2, <3>5 DEF CInv, OnlyInitiated, Initiated, opVars
    <3>8. SavedFirst'
      BY <1>2, <2>3 DEF CInv, SavedFirst, Told, AttestedIn, opVars, At
    <3>9. ToldAgain'
      <4>1. request.pc = "idle" /\ request.withdrawals = NoWithdrawals
        BY <1>4, <2>3 DEF CInv, MainAlone, Request
      <4>2. DOMAIN NoWithdrawals = {}
        BY DEF NoWithdrawals
      <4>3. ~Looping(Main)'
        BY <2>3, <3>1 DEF Looping
      <4> QED
        BY <1>2, <1>8, <3>4, <4>1, <4>2, <4>3 DEF ToldAgain, opVars
    <3> QED
      BY <3>2, <3>3, <3>6, <3>7, <3>8, <3>9 DEF CInv
  <2> QED
    BY <2>2, <2>3
<1>10. CASE events # <<>>
  <2>1. LastBlock(events) \in 1..Len(blocks)
    BY <1>1, <1>7, <1>10, LastBlockMined
  <2>2. /\ local'[t].pc = "loop" /\ local'[t].found = events
        /\ local'[t].upTo = LastBlock(events) /\ Alone(t)
    BY <1>1, <1>2, <1>10 DEF Alone, Local
  <2>3. MainAlone' /\ Request'
    BY <1>2, <1>4, AloneKeeps, <2>2 DEF CInv, Request
  <2>4. NotesCovered'
    BY <1>2, <1>4, <2>2, NotesKept DEF CInv
  <2>5. WithdrawalsCovered'
    <3>1. At(Main, "idle")' => At(Main, "idle")
      <4>1. Main \in Task
        BY DEF Task
      <4> QED
        BY <2>2, <4>1 DEF Alone, At
    <3>2. Covered("WithdrawalInitiated", local'[t].upTo, all)
      <4> HIDE DEF all
      <4>1. local'[t].upTo \in Nat /\ local'[t].upTo <= Len(blocks)
        BY <1>1, <2>1, <2>2
      <4> QED
        BY <1>6, <4>1
    <3>3. ASSUME NEW u \in Task \ Admins, Looping(u)'
          PROVE  Covered("WithdrawalInitiated", local'[u].upTo, DOMAIN withdrawals \cup NotesIn(local'[u].found))
      <4>1. CASE u = t
        BY <2>2, <3>2, <4>1
      <4>2. CASE u # t
        BY <2>2, <3>3, <4>2 DEF Alone, Looping, CInv, WithdrawalsCovered
      <4> QED
        BY <4>1, <4>2
    <3> QED
      BY <1>2, <3>1, <3>3 DEF CInv, WithdrawalsCovered, Covered, NotesIn, opVars
  <2>6. OnlyInitiated'
    <3>1. Initiated' = Initiated
      BY <1>2 DEF Initiated
    <3>2. \A u \in Task \ Admins : Looping(u)' => NotesIn(local'[u].found) \subseteq Initiated
      BY <1>7, <2>2 DEF Alone, Looping, CInv, OnlyInitiated
    <3>3. /\ DOMAIN withdrawals \cup DOMAIN diskWithdrawals \subseteq Initiated
          /\ DOMAIN request.withdrawals \cup DOMAIN answered \subseteq Initiated
      BY DEF CInv, OnlyInitiated
    <3> QED
      BY <1>2, <3>1, <3>2, <3>3 DEF OnlyInitiated, NotesIn, opVars
  <2>7. Main \in Task /\ (t = Main => local'[Main].pc = "loop" /\ local'[Main].found = events)
        /\ (t # Main => local'[Main] = local[Main])
    BY <2>2 DEF Alone, Task
  <2>8. SavedFirst'
    BY <1>2, <2>7 DEF CInv, SavedFirst, Told, AttestedIn, opVars, At
  <2>9. ToldAgain'
    <3>1. At(Main, "idle")' => At(Main, "idle")
      BY <2>7 DEF At
    <3>2. Looping(Main)' => DOMAIN answered \subseteq DOMAIN withdrawals \cup NotesIn(local'[Main].found)
      BY <1>8, <2>7 DEF CInv, ToldAgain, Looping
    <3> QED
      BY <1>2, <3>1, <3>2 DEF CInv, ToldAgain, Told, NotesIn, opVars
  <2> QED
    BY <2>3, <2>4, <2>5, <2>6, <2>8, <2>9 DEF CInv
<1> QED
  BY <1>9, <1>10

LEMMA ExamineWithdrawalsCovers == ASSUME CInv, IInv', Bounds', NEW t \in Task, ExamineWithdrawals(t) PROVE CInv'
<1> DEFINE found == local[t].found
           ends == /\ local'[t].pc = "idle" /\ local'[t].upTo = 0
                   /\ lastWithdrawalScannedBlock' = local[t].upTo
                   /\ NotesIn(found) \subseteq DOMAIN withdrawals'
           stops == /\ local'[t].pc = "attest" /\ local'[t].upTo = local[t].upTo
                    /\ lastWithdrawalScannedBlock' = lastWithdrawalScannedBlock
                    /\ NotesIn(local'[t].found) \subseteq NotesIn(found)
                    /\ NotesIn(found) \subseteq DOMAIN withdrawals' \cup NotesIn(local'[t].found)
<1>1. /\ At(t, "loop") /\ Alone(t)
      /\ UNCHANGED <<blocks, notes, lastScannedBlock, request, answered>>
      /\ DOMAIN withdrawals \subseteq DOMAIN withdrawals'
      /\ DOMAIN withdrawals' \subseteq DOMAIN withdrawals \cup NotesIn(found)
      /\ AttestedIn(withdrawals') = AttestedIn(withdrawals)
      /\ diskWithdrawals' \in {withdrawals', diskWithdrawals}
      /\ ends \/ stops
  BY ExamineEffect DEF CInv, IInv
<1>2. t \notin Admins /\ ~At(t, "idle") /\ Looping(t) /\ Main \in Task /\ Main \notin Admins /\ Len(blocks) \in Nat
  <2>1. local[t].pc \notin Manual /\ Looping(t)
    BY <1>1 DEF At, Manual, Looping
  <2>2. Main \in Task /\ Main \notin Admins /\ Len(blocks) \in Nat
    BY AttestationAssumption DEF Task, CInv, IInv, Types
  <2> QED
    BY <2>1, <2>2, NoManualScan
<1>3. /\ t = Main => local'[Main].pc = local'[t].pc /\ ~At(Main, "boot") /\ ~At(Main, "idle")
      /\ t # Main => local'[Main] = local[Main] /\ At(Main, "idle")
      /\ ~At(Main, "boot")
  <2>1. t # Main => local'[Main] = local[Main] /\ At(Main, "idle")
    BY <1>1, <1>2, MainIsIdle DEF Alone
  <2> QED
    BY <1>1, <2>1 DEF At
<1>4. MainAlone' /\ Request'
  BY <1>1, <1>2, AloneKeeps DEF CInv, Request
<1>5. NotesCovered'
  BY <1>1, NotesKept DEF CInv, At
<1>6. \A u \in Task \ Admins : Looping(u) =>
        Covered("WithdrawalInitiated", local[u].upTo, DOMAIN withdrawals \cup NotesIn(local[u].found))
  BY DEF CInv, WithdrawalsCovered
<1>7. ASSUME NEW u \in Task \ Admins, Looping(u)'
      PROVE  Covered("WithdrawalInitiated", local'[u].upTo, DOMAIN withdrawals' \cup NotesIn(local'[u].found))
  <2>1. CASE u # t
    <3>1. local'[u] = local[u] /\ Looping(u)
      BY <1>1, <1>7, <2>1 DEF Alone, Looping
    <3>2. Covered("WithdrawalInitiated", local[u].upTo, DOMAIN withdrawals \cup NotesIn(local[u].found))
      BY <1>6, <3>1
    <3>3. DOMAIN withdrawals \cup NotesIn(local[u].found) \subseteq DOMAIN withdrawals' \cup NotesIn(local[u].found)
      BY <1>1
    <3> QED
      BY <3>1, <3>2, <3>3, CoveredGrows
  <2>2. CASE u = t
    <3>1. stops
      BY <1>1, <1>7, <2>2 DEF Looping
    <3>2. DOMAIN withdrawals \cup NotesIn(found) \subseteq DOMAIN withdrawals' \cup NotesIn(local'[t].found)
      BY <1>1, <3>1
    <3>3. Covered("WithdrawalInitiated", local[t].upTo, DOMAIN withdrawals \cup NotesIn(found))
      BY <1>2, <1>6
    <3> QED
      BY <2>2, <3>1, <3>2, <3>3, CoveredGrows
  <2> QED
    BY <2>1, <2>2
<1>8. ASSUME At(Main, "idle")'
      PROVE  Covered("WithdrawalInitiated", lastWithdrawalScannedBlock', DOMAIN withdrawals')
  <2>1. CASE ends
    <3>1. DOMAIN withdrawals \cup NotesIn(found) \subseteq DOMAIN withdrawals'
      BY <1>1, <2>1
    <3>2. Covered("WithdrawalInitiated", local[t].upTo, DOMAIN withdrawals \cup NotesIn(found))
      BY <1>2, <1>6
    <3> QED
      BY <2>1, <3>1, <3>2, CoveredGrows
  <2>2. CASE stops
    <3>1. At(Main, "idle")
      BY <1>3, <1>8, <2>2 DEF At
    <3>2. Covered("WithdrawalInitiated", lastWithdrawalScannedBlock, DOMAIN withdrawals)
      BY <3>1 DEF CInv, WithdrawalsCovered
    <3> QED
      BY <1>1, <2>2, <3>2, CoveredGrows
  <2> QED
    BY <1>1, <2>1, <2>2
<1>9. WithdrawalsCovered'
  BY <1>1, <1>7, <1>8 DEF WithdrawalsCovered, Covered, NotesIn
<1>10. OnlyInitiated'
  <2>1. Initiated' = Initiated
    BY <1>1 DEF Initiated
  <2>2. /\ DOMAIN withdrawals \cup DOMAIN diskWithdrawals \subseteq Initiated
        /\ DOMAIN request.withdrawals \cup DOMAIN answered \subseteq Initiated
        /\ \A u \in Task \ Admins : Looping(u) => NotesIn(local[u].found) \subseteq Initiated
    BY DEF CInv, OnlyInitiated
  <2>3. DOMAIN withdrawals' \cup DOMAIN diskWithdrawals' \subseteq Initiated
    <3>1. DOMAIN withdrawals' \subseteq Initiated
      BY <1>1, <1>2, <2>2
    <3> QED
      BY <1>1, <2>2, <3>1
  <2>4. \A u \in Task \ Admins : Looping(u)' => NotesIn(local'[u].found) \subseteq Initiated
    BY <1>1, <1>2, <2>2 DEF Alone, Looping
  <2> QED
    BY <1>1, <2>1, <2>2, <2>3, <2>4 DEF OnlyInitiated, NotesIn
<1>11. SavedFirst'
  <2>1. AttestedIn(diskWithdrawals') = AttestedIn(withdrawals) \/ diskWithdrawals' = diskWithdrawals
    BY <1>1
  <2>2. /\ Told(answered) \cup Told(request.withdrawals) \cup AttestedIn(withdrawals) \subseteq AttestedIn(diskWithdrawals)
        /\ AttestedIn(diskWithdrawals) \subseteq AttestedIn(withdrawals)
    BY <1>3 DEF CInv, SavedFirst
  <2>3. AttestedIn(diskWithdrawals') = AttestedIn(diskWithdrawals)
    BY <2>1, <2>2
  <2>4. /\ Told(answered') = Told(answered) /\ Told(request'.withdrawals) = Told(request.withdrawals)
    BY <1>1
  <2>5. /\ Told(answered') \cup Told(request'.withdrawals) \cup AttestedIn(withdrawals') \subseteq AttestedIn(diskWithdrawals')
        /\ AttestedIn(diskWithdrawals') \subseteq AttestedIn(withdrawals')
    BY <1>1, <2>2, <2>3, <2>4
  <2> QED
    BY <2>5 DEF SavedFirst, Told, AttestedIn
<1>12. ToldAgain'
  <2>1. ASSUME At(Main, "idle")' PROVE DOMAIN answered \cup DOMAIN request.withdrawals \subseteq DOMAIN withdrawals'
    <3>1. CASE At(Main, "idle")
      BY <1>1, <3>1 DEF CInv, ToldAgain
    <3>2. CASE ~At(Main, "idle")
      <4>1. t = Main /\ Looping(Main)
        BY <1>2, <1>3, <3>2
      <4>2. ends
        BY <1>1, <2>1, <4>1 DEF At
      <4>3. request.withdrawals = NoWithdrawals /\ DOMAIN NoWithdrawals = {}
        BY <3>2 DEF CInv, MainAlone, Request, NoWithdrawals
      <4>4. DOMAIN answered \subseteq DOMAIN withdrawals \cup NotesIn(found)
        BY <4>1 DEF CInv, ToldAgain
      <4> QED
        BY <1>1, <4>2, <4>3, <4>4
    <3> QED
      BY <3>1, <3>2
  <2>2. ASSUME Looping(Main)' PROVE DOMAIN answered \subseteq DOMAIN withdrawals' \cup NotesIn(local'[Main].found)
    <3>1. t = Main
      BY <1>3, <2>2 DEF Looping, At
    <3>2. stops
      BY <1>1, <2>2, <3>1 DEF Looping
    <3>3. DOMAIN answered \subseteq DOMAIN withdrawals \cup NotesIn(found)
      BY <1>2, <3>1 DEF CInv, ToldAgain
    <3> QED
      BY <1>1, <3>1, <3>2, <3>3
  <2> QED
    BY <1>1, <2>1, <2>2 DEF CInv, ToldAgain, Told, NotesIn
<1> QED
  BY <1>4, <1>5, <1>9, <1>10, <1>11, <1>12 DEF CInv

LEMMA ReturnGoes ==
  ASSUME CInv, NEW t \in Task
  PROVE  /\ Return(t) \in Label /\ Return(t) # "collect" /\ (t \in Admins => Return(t) \in Manual)
         /\ (t \notin Admins => Return(t) = "loop") /\ (t = Main => Return(t) # "idle")
BY AttestationAssumption DEF Return, Label, Manual

LEMMA AttestWithdrawalCovers == ASSUME CInv, IInv', Bounds', NEW t \in Task, AttestWithdrawal(t) PROVE CInv'
<1>1. /\ At(t, "attest") /\ ~At(t, "idle") /\ Looping(t) /\ local[t].pc \notin {"boot", "scan", "collect"}
      /\ UNCHANGED <<blocks, notes, lastScannedBlock, opVars, request, answered>>
      /\ \E label \in {"attested", Return(t)} : Goto(t, label)
  BY DEF AttestWithdrawal, AfterRevert, scanVars, historyVars, At, Looping
<1>2. /\ "attested" \in Label /\ "attested" \in Manual
  BY DEF Label, Manual
<1> QED
  BY <1>1, <1>2, ReturnGoes, MoveCovers

LEMMA AttestedCovers == ASSUME CInv, IInv', Bounds', NEW t \in Task, Attested(t) PROVE CInv'
<1>1. /\ At(t, "attested") /\ ~At(t, "idle") /\ Looping(t) /\ Goto(t, Return(t))
      /\ withdrawals' = [withdrawals EXCEPT ![Current(t)].status = "attested"]
      /\ diskWithdrawals' = withdrawals'
      /\ UNCHANGED <<blocks, notes, lastScannedBlock, lastWithdrawalScannedBlock, request, answered>>
  BY DEF Attested, WithAttested, Saved, chainVars, scanVars, historyVars, At, Looping
<1>2. /\ Types /\ Len(blocks) \in Nat /\ Main \in Task /\ Main \notin Admins
      /\ withdrawals \in [DOMAIN withdrawals -> Recorded(Len(blocks))]
  BY AttestationAssumption DEF CInv, IInv, Types, RecordedOK, Task
<1>3. /\ local'[t].pc = Return(t) /\ Alone(t)
      /\ Return(t) # "idle" => local'[t].found = local[t].found /\ local'[t].upTo = local[t].upTo
      /\ Return(t) = "idle" => local'[t].upTo = 0
  BY <1>1, <1>2, ReturnGoes, GotoFound DEF Alone
<1>4. MainAlone' /\ Request'
  BY <1>1, <1>3, ReturnGoes, AloneKeeps DEF CInv, Request
<1>5. NotesCovered'
  <2>1. local[t].pc = "attested" /\ local'[t].pc # "collect"
    BY <1>1, <1>3, ReturnGoes DEF At
  <2> QED
    BY <1>1, <1>3, <2>1, NotesKept DEF CInv
<1>6. DOMAIN withdrawals' = DOMAIN withdrawals /\ AttestedIn(withdrawals) \subseteq AttestedIn(withdrawals')
  <2>1. DOMAIN withdrawals' = DOMAIN withdrawals
    BY <1>1
  <2>2. \A n \in DOMAIN withdrawals : withdrawals[n].status = "attested" => withdrawals'[n].status = "attested"
    BY <1>1, <1>2 DEF Recorded
  <2> QED
    BY <2>1, <2>2 DEF AttestedIn
<1>7. /\ At(Main, "idle")' => At(Main, "idle")
      /\ ~At(Main, "boot")
      /\ \A u \in Task \ Admins : Looping(u)' =>
           Looping(u) /\ local'[u].found = local[u].found /\ local'[u].upTo = local[u].upTo
  <2>1. t # Main => At(Main, "idle")
    BY <1>1, MainIsIdle
  <2>2. t \notin Admins => Return(t) # "idle"
    BY ReturnGoes
  <2>3. At(Main, "idle")' => At(Main, "idle")
    BY <1>2, <1>3, <2>1, <2>2 DEF At
  <2>4. ~At(Main, "boot")
    BY <1>1, <2>1 DEF At
  <2>5. ASSUME NEW u \in Task \ Admins, Looping(u)'
        PROVE  Looping(u) /\ local'[u].found = local[u].found /\ local'[u].upTo = local[u].upTo
    BY <1>1, <1>3, <2>2, <2>5 DEF Alone, Looping
  <2> QED
    BY <2>3, <2>4, <2>5
<1>8. WithdrawalsCovered'
  BY <1>1, <1>6, <1>7 DEF CInv, WithdrawalsCovered, Covered, NotesIn
<1>9. OnlyInitiated'
  <2>1. Initiated' = Initiated
    BY <1>1 DEF Initiated
  <2>2. \A u \in Task \ Admins : Looping(u)' => NotesIn(local'[u].found) \subseteq Initiated
    BY <1>7 DEF CInv, OnlyInitiated
  <2>3. /\ DOMAIN withdrawals' \cup DOMAIN diskWithdrawals' \subseteq Initiated
        /\ DOMAIN request.withdrawals \cup DOMAIN answered \subseteq Initiated
    BY <1>1, <1>6 DEF CInv, OnlyInitiated
  <2> QED
    BY <1>1, <2>1, <2>2, <2>3 DEF OnlyInitiated, NotesIn
<1>10. SavedFirst'
  <2>1. /\ Told(answered) \cup Told(request.withdrawals) \subseteq AttestedIn(withdrawals')
        /\ AttestedIn(diskWithdrawals') = AttestedIn(withdrawals')
    BY <1>1, <1>6, <1>7 DEF CInv, SavedFirst
  <2> QED
    BY <1>1, <2>1 DEF SavedFirst, Told, AttestedIn
<1>11. ToldAgain'
  BY <1>1, <1>2, <1>6, <1>7 DEF CInv, ToldAgain, Told, NotesIn
<1> QED
  BY <1>4, <1>5, <1>8, <1>9, <1>10, <1>11 DEF CInv

LEMMA FailCovers == ASSUME FromTheStart, CInv, IInv', Bounds', NEW t \in Task, Fail(t) PROVE CInv'
<1>1. /\ t # Main /\ UNCHANGED <<blocks, notes, lastScannedBlock, opVars, request, answered>>
      /\ \/ At(t, "scan") /\ Goto(t, "decrypt")
         \/ At(t, "collect") /\ local' = [local EXCEPT ![t].deposits = FALSE]
         \/ At(t, "query") /\ Goto(t, "idle")
         \/ At(t, "attest") /\ Goto(t, Return(t))
         \/ At(t, "attested") /\ Goto(t, Return(t))
  BY DEF FromTheStart, Fail, chainVars, scanVars, historyVars
<1>2. /\ {"decrypt", "idle"} \subseteq Label /\ "idle" \in Manual /\ ~At(t, "idle")
  BY <1>1 DEF Label, Manual, At
<1>3. CASE (At(t, "scan") /\ Goto(t, "decrypt")) \/ (At(t, "query") /\ Goto(t, "idle"))
  <2>1. t \notin Admins
    BY <1>3, NoManualScan DEF At, Manual
  <2> QED
    BY <1>1, <1>2, <1>3, <2>1, MoveCovers
<1>4. CASE (At(t, "attest") \/ At(t, "attested")) /\ Goto(t, Return(t))
  <2>1. Looping(t)
    BY <1>4 DEF At, Looping
  <2> QED
    BY <1>1, <1>2, <1>4, <2>1, ReturnGoes, MoveCovers
<1>5. CASE At(t, "collect") /\ local' = [local EXCEPT ![t].deposits = FALSE]
  <2>1. /\ local'[t].pc = "collect" /\ local[t].pc = "collect"
        /\ local'[t].found = local[t].found /\ local'[t].upTo = local[t].upTo
        /\ Alone(t)
    BY <1>5 DEF CInv, IInv, Types, Local, Alone, At
  <2>2. t \notin Admins
    BY <2>1, NoManualScan DEF Manual
  <2>3. MainAlone' /\ Request'
    BY <1>1, <1>2, <2>1, <2>2, AloneKeeps DEF CInv, Request
  <2>4. NotesCovered'
    BY <1>1, <2>1, NotesKept DEF CInv
  <2>5. ListInv'
    <3>1. ListInv /\ ~Looping(t)'
      BY <2>1 DEF CInv, ListInv, Looping
    <3> QED
      BY <1>1, <2>1, <3>1, ListKept
  <2> QED
    BY <2>3, <2>4, <2>5 DEF CInv, ListInv
<1> QED
  BY <1>1, <1>3, <1>4, <1>5

LEMMA ManualCovers ==
  ASSUME CInv, IInv', Bounds', NEW a \in Admins, ManualAttest(a) \/ \E n \in Note : RequestAttestation(a, n)
  PROVE  CInv'
<1>1. /\ a \in Task /\ a # Main
      /\ UNCHANGED <<blocks, notes, lastScannedBlock, opVars, request, answered>>
  BY AttestationAssumption DEF Task, ManualAttest, RequestAttestation, chainVars, scanVars, historyVars
<1>2. CASE ManualAttest(a)
  <2>1. ~At(a, "idle") /\ \E label \in {"attest", "idle"} : Goto(a, label)
    BY <1>2 DEF ManualAttest, At
  <2>2. {"attest", "idle"} \subseteq Label /\ {"attest", "idle"} \subseteq Manual
    BY DEF Label, Manual
  <2> QED
    BY <1>1, <2>1, <2>2, MoveCovers
<1>3. ASSUME NEW n \in Note, RequestAttestation(a, n) PROVE CInv'
  <2> DEFINE item == <<[note |-> n, block |-> withdrawals[n].block]>>
  <2>0. At(Main, "idle") /\ local' = [local EXCEPT ![a].pc = "requested", ![a].found = item]
    BY <1>3 DEF RequestAttestation
  <2> HIDE DEF item
  <2>1. local'[a].pc = "requested" /\ local'[a].upTo = local[a].upTo /\ Alone(a)
    BY <1>1, <2>0 DEF CInv, IInv, Types, Local, Alone
  <2>2. MainAlone' /\ Request'
    BY <1>1, <2>0, <2>1, AloneKeeps DEF CInv, Request, Manual
  <2>3. NotesCovered'
    BY <1>1, <2>1, NotesKept DEF CInv
  <2>4. ListInv'
    <3>1. ListInv
      BY DEF CInv, ListInv
    <3> QED
      BY <1>1, <2>1, <3>1, ListKept
  <2> QED
    BY <2>2, <2>3, <2>4 DEF CInv, ListInv
<1> QED
  BY <1>2, <1>3

LEMMA StartPollCovers == ASSUME CInv, IInv', Bounds', NEW p \in Polls, StartPoll(p) PROVE CInv'
<1>1. /\ p \in Task /\ p # Main /\ p \notin Admins /\ At(Main, "idle")
      /\ UNCHANGED <<blocks, notes, lastScannedBlock, opVars, request, answered>>
      /\ local' = [local EXCEPT ![p].pc = "scan", ![p].before = Len(notes)]
  BY AttestationAssumption DEF Task, StartPoll, chainVars, scanVars, historyVars
<1>2. local'[p].pc = "scan" /\ local'[p].upTo = local[p].upTo /\ Alone(p)
  BY <1>1 DEF CInv, IInv, Types, Local, Alone
<1>3. MainAlone' /\ Request'
  BY <1>1, <1>2, AloneKeeps DEF CInv, Request
<1>4. NotesCovered'
  BY <1>1, <1>2, NotesKept DEF CInv
<1>5. ListInv'
  <2>1. ListInv /\ ~Looping(p)'
    BY <1>2 DEF CInv, ListInv, Looping
  <2> QED
    BY <1>1, <1>2, <2>1, ListKept
<1> QED
  BY <1>3, <1>4, <1>5 DEF CInv, ListInv

LEMMA BootCovers == ASSUME CInv, IInv', Bounds', Boot PROVE CInv'
<1> DEFINE from(known) == IF known = {} THEN Len(blocks) ELSE Highest(known)
           stored == {diskNotes[i].block : i \in DOMAIN diskNotes}
           recorded == {diskWithdrawals[n].block : n \in DOMAIN diskWithdrawals}
<1>1. Types /\ Main \in Task /\ Main \notin Admins /\ {"scan"} \subseteq Label /\ Len(blocks) \in Nat
  BY AttestationAssumption DEF CInv, IInv, Task, Label, Types
<1>2. /\ At(Main, "boot") /\ lastScannedBlock' = from(stored)
      /\ withdrawals' = diskWithdrawals /\ lastWithdrawalScannedBlock' = from(recorded)
      /\ Goto(Main, "scan") /\ UNCHANGED <<blocks, diskWithdrawals, request, answered>>
  BY DEF Boot, chainVars, historyVars
<1>3. stored \in SUBSET (1..Len(blocks))
  <2>1. \A i \in DOMAIN diskNotes : diskNotes[i] \in Stored(Len(blocks))
    BY <1>1 DEF Types
  <2> QED
    BY <2>1 DEF Stored
<1>4. recorded \in SUBSET (1..Len(blocks))
  BY <1>1 DEF Types, RecordedOK, Recorded
<1> HIDE DEF stored, recorded
<1>5. from(stored) <= Len(blocks) /\ from(recorded) <= Len(blocks)
  BY <1>1, <1>3, <1>4, HighestIn
<1>6. /\ local'[Main].pc = "scan" /\ local'[Main].upTo = local[Main].upTo
      /\ Alone(Main)
  BY <1>1, <1>2, GotoFound DEF Alone
<1>7. request.pc = "idle" /\ request.withdrawals = NoWithdrawals /\ \A t \in Task \ {Main} : local'[t].pc = "idle"
  BY <1>1, <1>2, <1>6 DEF CInv, MainAlone, Request, At, Alone
<1>8. MainAlone' /\ Request'
  <2>1. ~At(Main, "idle")
    BY <1>2 DEF At
  <2> QED
    BY <1>1, <1>2, <1>6, <2>1, AloneKeeps DEF CInv, Request
<1>9. \A t \in Task : local'[t].pc \in {"idle", "scan"}
  BY <1>6, <1>7
<1>10. NotesCovered' /\ WithdrawalsCovered'
  BY <1>6, <1>9 DEF NotesCovered, WithdrawalsCovered, Looping, At
<1>11. OnlyInitiated'
  <2>1. Initiated' = Initiated
    BY <1>2 DEF Initiated
  <2> QED
    BY <1>2, <1>9, <2>1 DEF CInv, OnlyInitiated, Looping
<1>12. SavedFirst'
  BY <1>2 DEF CInv, SavedFirst, Told, AttestedIn
<1>13. ToldAgain'
  BY <1>2, <1>6, <1>7 DEF ToldAgain, Looping, At
<1> QED
  BY <1>8, <1>10, <1>11, <1>12, <1>13 DEF CInv

LEMMA CrashCovers == ASSUME CInv, IInv', Bounds', Crash PROVE CInv'
<1>1. /\ lastScannedBlock' = 0 /\ lastWithdrawalScannedBlock' = 0 /\ withdrawals' = NoWithdrawals
      /\ local' = Starting /\ request' = NoRequest /\ UNCHANGED <<blocks, diskWithdrawals, answered>>
  BY DEF Crash, chainVars
<1>2. Len(blocks) \in Nat /\ Main \in Task /\ \A a \in Admins : a \in Task \ {Main}
  BY AttestationAssumption DEF CInv, IInv, Types, Task
<1>3. MainAlone' /\ Request'
  BY <1>1, <1>2, StartingTasks DEF MainAlone, Request, At, Manual
<1>4. NotesCovered' /\ WithdrawalsCovered'
  BY <1>1, StartingTasks DEF NotesCovered, WithdrawalsCovered, Looping, At
<1>5. OnlyInitiated'
  <2>1. Initiated' = Initiated
    BY <1>1 DEF Initiated
  <2> QED
    BY <1>1, <2>1, StartingTasks DEF CInv, OnlyInitiated, Looping
<1>6. SavedFirst'
  BY <1>1, StartingTasks DEF CInv, SavedFirst, Told, AttestedIn, At
<1>7. ToldAgain'
  BY <1>1, StartingTasks DEF ToldAgain, Looping, At
<1> QED
  BY <1>3, <1>4, <1>5, <1>6, <1>7 DEF CInv

LEMMA MineCovers == ASSUME CInv, IInv', Bounds', NEW events \in Seq(ChainEvent), Mine(events) PROVE CInv'
<1>1. /\ blocks' = Append(blocks, events)
      /\ UNCHANGED <<notes, lastScannedBlock, opVars, local, request, answered>>
  BY DEF Mine, scanVars, historyVars
<1>2. /\ Len(blocks) \in Nat /\ Len(blocks') = Len(blocks) + 1
      /\ DOMAIN blocks \subseteq DOMAIN blocks' /\ \A b \in DOMAIN blocks : blocks'[b] = blocks[b]
      /\ DOMAIN blocks = 1..Len(blocks)
  BY <1>1 DEF CInv, IInv, Types
<1>3. ASSUME NEW kind, NEW last \in Nat, last <= Len(blocks), NEW S, Covered(kind, last, S)
      PROVE  \A b \in 1..last : \A i \in DOMAIN blocks'[b] : blocks'[b][i].kind = kind => blocks'[b][i].note \in S
  <2>1. \A b \in 1..last : blocks'[b] = blocks[b]
    BY <1>2, <1>3
  <2> QED
    BY <1>3, <2>1 DEF Covered
<1>4. /\ lastScannedBlock \in Nat /\ lastWithdrawalScannedBlock \in Nat
      /\ lastScannedBlock <= Len(blocks) /\ lastWithdrawalScannedBlock <= Len(blocks)
      /\ \A t \in Task : local[t].upTo \in Nat /\ local[t].upTo <= Len(blocks)
  BY DEF CInv, Bounds, IInv, Types, Local
<1>5. MainAlone' /\ Request'
  BY <1>1 DEF CInv, MainAlone, Request, At
<1>6. NotesCovered'
  <2>1. local[Main].pc \notin {"boot", "scan", "collect"} =>
          Covered("EncryptedNote", lastScannedBlock, NotesIn(notes))'
    <3>1. SUFFICES ASSUME local[Main].pc \notin {"boot", "scan", "collect"}
                   PROVE  Covered("EncryptedNote", lastScannedBlock, NotesIn(notes))'
      OBVIOUS
    <3>2. Covered("EncryptedNote", lastScannedBlock, NotesIn(notes))
      BY <3>1 DEF CInv, NotesCovered
    <3> QED
      BY <1>1, <1>3, <1>4, <3>2 DEF Covered, NotesIn
  <2>2. ASSUME NEW t \in Task, At(t, "collect")
        PROVE  /\ Covered("EncryptedNote", local[t].upTo, Gathered(t))'
               /\ t = Main => Covered("EncryptedNote", lastScannedBlock, Gathered(t))'
    <3>1. /\ Covered("EncryptedNote", local[t].upTo, Gathered(t))
          /\ t = Main => Covered("EncryptedNote", lastScannedBlock, Gathered(t))
      BY <2>2 DEF CInv, NotesCovered
    <3>2. Gathered(t)' = Gathered(t)
      BY <1>1 DEF Gathered, NotesIn
    <3> QED
      BY <1>1, <1>3, <1>4, <3>1, <3>2 DEF Covered
  <2> QED
    BY <1>1, <2>1, <2>2 DEF NotesCovered, At
<1>7. WithdrawalsCovered'
  <2>1. ASSUME At(Main, "idle")
        PROVE  Covered("WithdrawalInitiated", lastWithdrawalScannedBlock, DOMAIN withdrawals)'
    <3>1. Covered("WithdrawalInitiated", lastWithdrawalScannedBlock, DOMAIN withdrawals)
      BY <2>1 DEF CInv, WithdrawalsCovered
    <3> QED
      BY <1>1, <1>3, <1>4, <3>1 DEF Covered, opVars
  <2>2. ASSUME NEW t \in Task \ Admins, Looping(t)
        PROVE  Covered("WithdrawalInitiated", local[t].upTo, DOMAIN withdrawals \cup NotesIn(local[t].found))'
    <3>1. Covered("WithdrawalInitiated", local[t].upTo, DOMAIN withdrawals \cup NotesIn(local[t].found))
      BY <2>2 DEF CInv, WithdrawalsCovered
    <3> QED
      BY <1>1, <1>3, <1>4, <3>1 DEF Covered, NotesIn, opVars
  <2> QED
    BY <1>1, <2>1, <2>2 DEF WithdrawalsCovered, Looping, At
<1>8. OnlyInitiated'
  <2>1. Initiated \subseteq Initiated'
    BY <1>2 DEF Initiated
  <2> QED
    BY <1>1, <2>1 DEF CInv, OnlyInitiated, NotesIn, Looping, opVars
<1>9. SavedFirst' /\ ToldAgain'
  BY <1>1 DEF CInv, SavedFirst, ToldAgain, Told, AttestedIn, Looping, NotesIn, At, opVars
<1> QED
  BY <1>5, <1>6, <1>7, <1>8, <1>9 DEF CInv

LEMMA StayCovers ==
  ASSUME CInv, IInv', Bounds', UNCHANGED <<blocks, notes, lastScannedBlock, opVars, local, request, answered>>
  PROVE  CInv'
<1>1. MainAlone' /\ Request'
  BY DEF CInv, MainAlone, Request, At
<1>2. NotesCovered'
  BY DEF CInv, NotesCovered, Covered, Gathered, NotesIn, At
<1>3. WithdrawalsCovered'
  BY DEF CInv, WithdrawalsCovered, Covered, NotesIn, Looping, At, opVars
<1>4. OnlyInitiated'
  <2>1. Initiated' = Initiated
    BY DEF Initiated
  <2> QED
    BY <2>1 DEF CInv, OnlyInitiated, NotesIn, Looping, opVars
<1>5. SavedFirst' /\ ToldAgain'
  BY DEF CInv, SavedFirst, ToldAgain, Told, AttestedIn, Looping, NotesIn, At, opVars
<1> QED
  BY <1>1, <1>2, <1>3, <1>4, <1>5 DEF CInv

\* A step of the requests for the history, which run when the start is over.
LEMMA HistoryCovers ==
  ASSUME CInv, IInv', Bounds', UNCHANGED <<blocks, notes, lastScannedBlock, opVars, local>>,
         At(Main, "idle"), Request',
         DOMAIN answered' \cup DOMAIN request'.withdrawals \subseteq DOMAIN withdrawals,
         Told(answered') \cup Told(request'.withdrawals) \subseteq AttestedIn(withdrawals),
         request'.pc = "answer" => DOMAIN answered' \subseteq DOMAIN request'.withdrawals
                                   /\ Told(answered') \subseteq Told(request'.withdrawals)
  PROVE  CInv'
<1>1. NotesCovered'
  BY DEF CInv, NotesCovered, Covered, Gathered, NotesIn, At
<1>2. MainAlone'
  BY DEF CInv, MainAlone, At
<1>3. WithdrawalsCovered'
  BY DEF CInv, WithdrawalsCovered, Covered, NotesIn, Looping, At, opVars
<1>4. OnlyInitiated'
  <2>1. Initiated' = Initiated
    BY DEF Initiated
  <2> QED
    BY <2>1 DEF CInv, OnlyInitiated, NotesIn, Looping, opVars
<1>5. AttestedIn(withdrawals) \subseteq AttestedIn(diskWithdrawals) /\ withdrawals' = withdrawals
      /\ diskWithdrawals' = diskWithdrawals
  BY DEF CInv, SavedFirst, opVars
<1>6. SavedFirst'
  <2>1. Told(answered') \cup Told(request'.withdrawals) \cup AttestedIn(withdrawals) \subseteq AttestedIn(diskWithdrawals)
    BY <1>5
  <2> QED
    BY <1>5, <2>1 DEF CInv, SavedFirst, Told, AttestedIn, At
<1>7. ToldAgain'
  BY <1>5 DEF ToldAgain, Looping, At, Told
<1> QED
  BY <1>1, <1>2, <1>3, <1>4, <1>6, <1>7 DEF CInv

LEMMA InitCInv == Init => CInv
<1> SUFFICES ASSUME Init PROVE CInv
  OBVIOUS
<1>1. /\ lastScannedBlock = 0 /\ lastWithdrawalScannedBlock = 0 /\ local = Starting /\ request = NoRequest
      /\ withdrawals = NoWithdrawals /\ diskWithdrawals = NoWithdrawals /\ answered = NoWithdrawals
      /\ blocks = <<>>
  BY DEF Init
<1>2. IInv /\ Main \in Task /\ \A a \in Admins : a \in Task \ {Main}
  BY InitIInv, AttestationAssumption DEF Task
<1>3. Bounds
  <2>1. Len(blocks) = 0
    BY <1>1
  <2> QED
    BY <1>1, <2>1, StartingTasks DEF Bounds
<1>4. MainAlone /\ Request
  BY <1>1, <1>2, StartingTasks DEF MainAlone, Request, At, Manual
<1>5. NotesCovered /\ WithdrawalsCovered
  BY <1>1, StartingTasks DEF NotesCovered, WithdrawalsCovered, Looping, At
<1>6. OnlyInitiated
  BY <1>1, StartingTasks DEF OnlyInitiated, Looping
<1>7. SavedFirst /\ ToldAgain
  BY <1>1, StartingTasks DEF SavedFirst, ToldAgain, Told, AttestedIn, Looping, At
<1> QED
  BY <1>2, <1>3, <1>4, <1>5, <1>6, <1>7 DEF CInv

LEMMA NextCInv == ASSUME FromTheStart PROVE CInv /\ [Next]_vars => CInv'
<1> SUFFICES ASSUME CInv, [Next]_vars PROVE CInv'
  OBVIOUS
<1>0. IInv' /\ Bounds'
  BY NextIInv, NextBounds DEF CInv
<1>1. ASSUME NEW k \in Kind, NEW n \in Note, Mine(<<Event(k, n)>>) PROVE CInv'
  <2>1. <<Event(k, n)>> \in Seq(ChainEvent)
    BY DEF Event, ChainEvent
  <2> QED
    BY <1>0, <1>1, <2>1, MineCovers
<1>2. ASSUME NEW k \in Kind, NEW l \in Kind, NEW n \in Note, NEW o \in Note,
             Mine(<<Event(k, n), Event(l, o)>>)
      PROVE  CInv'
  <2>1. <<Event(k, n), Event(l, o)>> \in Seq(ChainEvent)
    BY DEF Event, ChainEvent
  <2> QED
    BY <1>0, <1>2, <2>1, MineCovers
<1>3. ASSUME (\E n \in Note : Claim(n)) \/ UNCHANGED vars PROVE CInv'
  <2>1. UNCHANGED <<blocks, notes, lastScannedBlock, opVars, local, request, answered>>
    BY <1>3 DEF Claim, vars, chainVars, scanVars, historyVars
  <2> QED
    BY <1>0, <2>1, StayCovers
<1>4. ASSUME NEW a \in Admins, ManualAttest(a) \/ \E n \in Note : RequestAttestation(a, n) PROVE CInv'
  BY <1>0, <1>4, ManualCovers
<1>5. CASE Boot \/ Crash
  BY <1>0, <1>5, BootCovers, CrashCovers
<1>6. ASSUME NEW p \in Polls, StartPoll(p) PROVE CInv'
  BY <1>0, <1>6, StartPollCovers
<1>7. ASSUME NEW t \in Task, Step(t) \/ Fail(t) PROVE CInv'
  BY <1>0, <1>7, QueryNotesCovers, CollectNotesCovers, DecryptNotesCovers, QueryWithdrawalsCovers,
     ExamineWithdrawalsCovers, AttestWithdrawalCovers, AttestedCovers, FailCovers DEF Step
<1>8. DOMAIN NoWithdrawals = {} /\ Told(NoWithdrawals) = {}
  BY DEF NoWithdrawals, Told
<1>9. At(Main, "idle") => /\ DOMAIN Listed = DOMAIN withdrawals /\ Told(Listed) = AttestedIn(withdrawals)
                          /\ DOMAIN answered \subseteq DOMAIN withdrawals
                          /\ Told(answered) \subseteq AttestedIn(withdrawals)
  <2>1. DOMAIN Listed = DOMAIN withdrawals /\ Told(Listed) = AttestedIn(withdrawals)
    BY DEF Listed, Told, AttestedIn
  <2>2. ASSUME At(Main, "idle") PROVE ~At(Main, "boot")
    BY <2>2 DEF At
  <2> QED
    BY <2>1, <2>2 DEF CInv, SavedFirst, ToldAgain
<1>10. CASE NoDeposits \/ \E kept \in SUBSET request.deposits : CollectHistory(kept)
  <2>1. /\ At(Main, "idle")
        /\ \E kept : request' = [pc |-> "answer", deposits |-> kept, withdrawals |-> Listed]
        /\ UNCHANGED <<blocks, notes, lastScannedBlock, opVars, local, answered>>
    BY <1>10 DEF NoDeposits, CollectHistory, CInv, MainAlone, chainVars, scanVars
  <2>2. Request' /\ request'.withdrawals = Listed
    BY <2>1 DEF Request
  <2> QED
    BY <1>0, <1>9, <2>1, <2>2, HistoryCovers
<1>11. CASE QueryDeposits
  <2>1. /\ At(Main, "idle") /\ request.pc = "idle"
        /\ request' = [request EXCEPT !.pc = "collect", !.deposits = DepositEvents]
        /\ UNCHANGED <<blocks, notes, lastScannedBlock, opVars, local, answered>>
    BY <1>11 DEF QueryDeposits, chainVars, scanVars
  <2>2. request'.pc = "collect" /\ request'.withdrawals = NoWithdrawals /\ Request'
    BY <2>1 DEF CInv, Request
  <2> QED
    BY <1>0, <1>8, <1>9, <2>1, <2>2, HistoryCovers
<1>12. CASE AnswerHistory
  <2>1. /\ request.pc = "answer" /\ At(Main, "idle")
        /\ answered' = request.withdrawals /\ request' = NoRequest
        /\ UNCHANGED <<blocks, notes, lastScannedBlock, opVars, local>>
    BY <1>12 DEF AnswerHistory, CInv, MainAlone, chainVars, scanVars
  <2>2. /\ DOMAIN request.withdrawals \subseteq DOMAIN withdrawals
        /\ Told(request.withdrawals) \subseteq AttestedIn(withdrawals)
    <3>1. ~At(Main, "boot")
      BY <2>1 DEF At
    <3> QED
      BY <2>1, <3>1 DEF CInv, SavedFirst, ToldAgain
  <2>3. Request' /\ request'.withdrawals = NoWithdrawals /\ request'.pc = "idle"
    BY <2>1, StartingTasks DEF Request
  <2> QED
    BY <1>0, <1>8, <2>1, <2>2, <2>3, HistoryCovers
<1> QED
  BY <1>1, <1>2, <1>3, <1>4, <1>5, <1>6, <1>7, <1>10, <1>11, <1>12 DEF Next

\* Between polls no event lies behind the next scan unrecorded, however
\* polls overlap, whatever fails in them, and through restarts, if the first
\* scan after a start begins at the first block and gets its answers
\* (scan of scanner.ts, scanWithdrawals of operator.ts).
THEOREM NothingMissedAlways == ASSUME FromTheStart PROVE Spec => []NothingMissed
<1>1. CInv => NothingMissed
  <2> SUFFICES ASSUME CInv, \A t \in Task \ Admins : At(t, "idle") PROVE NothingMissed
    BY DEF NothingMissed
  <2>1. At(Main, "idle") /\ local[Main].pc \notin {"boot", "scan", "collect"}
    BY AttestationAssumption DEF Task, At
  <2>2. Covered("EncryptedNote", lastScannedBlock, NotesIn(notes))
    BY <2>1 DEF CInv, NotesCovered
  <2>3. Covered("WithdrawalInitiated", lastWithdrawalScannedBlock, DOMAIN withdrawals)
    BY <2>1 DEF CInv, WithdrawalsCovered
  <2> QED
    BY <2>2, <2>3 DEF NothingMissed, Covered, NotesIn
<1>2. CInv /\ [Next]_vars => CInv'
  BY NextCInv
<1> QED
  BY <1>1, <1>2, InitCInv, PTL DEF Spec

\* What GET /history said of a withdrawal, it says after every restart: the
\* first scan finds the withdrawal again before the server listens, and its
\* attestation was saved before it was told (attest of operator.ts, index.ts),
\* under the same conditions.
THEOREM HistoryKept == ASSUME FromTheStart PROVE Spec => HistoryNeverTakesBack
<1> DEFINE NotTakenBack == \A n \in DOMAIN answered :
             n \in DOMAIN answered' /\ (answered[n] = "attested" => answered'[n] = "attested")
<1>1. ASSUME CInv, [Next]_vars PROVE NotTakenBack
  <2>1. CASE AnswerHistory
    <3>1. request.pc = "answer" /\ answered' = request.withdrawals
      BY <2>1 DEF AnswerHistory
    <3>2. /\ DOMAIN answered \subseteq DOMAIN request.withdrawals
          /\ Told(answered) \subseteq Told(request.withdrawals)
      BY <1>1, <3>1 DEF CInv, ToldAgain
    <3> QED
      BY <3>1, <3>2 DEF Told
  <2>2. CASE ~AnswerHistory
    <3>1. answered' = answered
      <4>1. ASSUME NEW t \in Task, Step(t) \/ Fail(t) PROVE answered' = answered
        <5>1. CASE QueryNotes(t) \/ CollectNotes(t) \/ DecryptNotes(t) \/ QueryWithdrawals(t)
          BY <5>1 DEF QueryNotes, CollectNotes, DecryptNotes, QueryWithdrawals, historyVars
        <5>2. CASE ExamineWithdrawals(t)
          BY <5>2 DEF ExamineWithdrawals, historyVars
        <5>3. CASE AttestWithdrawal(t) \/ Attested(t)
          BY <5>3 DEF AttestWithdrawal, Attested, historyVars
        <5>4. CASE Fail(t)
          BY <5>4 DEF Fail, historyVars
        <5> QED
          BY <4>1, <5>1, <5>2, <5>3, <5>4 DEF Step
      <4>2. ASSUME \E events : Mine(events) PROVE answered' = answered
        BY <4>2 DEF Mine, historyVars
      <4>3. ASSUME \/ \E n \in Note : Claim(n) \/ \E a \in Admins : RequestAttestation(a, n)
                   \/ \E a \in Admins : ManualAttest(a)
                   \/ Boot \/ Crash \/ UNCHANGED vars \/ \E p \in Polls : StartPoll(p)
            PROVE  answered' = answered
        BY <4>3 DEF Claim, RequestAttestation, ManualAttest, Boot, Crash, StartPoll, vars, historyVars
      <4>4. ASSUME QueryDeposits \/ NoDeposits \/ \E kept \in SUBSET request.deposits : CollectHistory(kept)
            PROVE  answered' = answered
        BY <4>4 DEF QueryDeposits, NoDeposits, CollectHistory
      <4> QED
        BY <1>1, <2>2, <4>1, <4>2, <4>3, <4>4 DEF Next
    <3> QED
      BY <3>1
  <2> QED
    BY <2>1, <2>2
<1>2. CInv /\ [Next]_vars => CInv'
  BY NextCInv
<1> QED
  BY <1>1, <1>2, InitCInv, PTL DEF Spec, HistoryNeverTakesBack
=============================================================================
