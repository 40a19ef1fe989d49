---------------------------- MODULE Attestation ----------------------------
(***************************************************************************)
(* How the sequencer follows notes and withdrawals and attests             *)
(* (packages/sequencer/src): the note scanner (scanner.ts), the operator's *)
(* secrets, list of withdrawals and attestation (operator.ts), the order   *)
(* in which index.ts runs them at the start and in every poll, and the     *)
(* operator's manual attestation and a client's requests for its history   *)
(* (api.ts).  A task is suspended at its awaits only; every label of its   *)
(* program counter is one.                                                 *)
(*                                                                         *)
(* A note stands for its leaf index, its secret, its nullifier and the     *)
(* withdrawal of it, whose compliance hash is the right one.  The chain is *)
(* the sequence of blocks with their events; pool is the state of each     *)
(* note in the contract (module PrivacyPool).                              *)
(***************************************************************************)
EXTENDS Integers, Sequences, FiniteSets, SequencesExt

CONSTANTS
    Note,
    Main, Polls, Admins,     \* tasks: the start, polls and manual attestations in flight
    AutoAttest,              \* config.autoAttest
    FromBlock,               \* config.fromBlock, 0 when not given
    Exposed,                 \* the tasks of which calls to the node may fail
    MaxBlock, MaxCrashes, MaxFailures   \* bounds

Task == {Main} \cup Polls \cup Admins

ASSUME AttestationAssumption ==
    /\ Main \notin Polls \cup Admins /\ Polls \cap Admins = {}
    /\ AutoAttest \in BOOLEAN /\ Exposed \subseteq Task
    /\ {FromBlock, MaxBlock, MaxCrashes, MaxFailures} \subseteq Nat

VARIABLES
    blocks, pool,            \* the chain
    notes,                   \* scanner.notes: [note, block, depositor]
    lastScannedBlock,
    foundTwice,              \* history: the notes that two scans had found at once
    secrets,                 \* the notes whose secret the operator decrypted
    withdrawals,             \* note -> [status, block]
    lastWithdrawalScannedBlock,
    local,                   \* by task
    diskNotes, diskWithdrawals,
    request, answered,       \* GET /history: the request in flight; the withdrawals of the last answer
    crashes, failures

chainVars == <<blocks, pool>>
scanVars == <<notes, lastScannedBlock, diskNotes, foundTwice>>
opVars == <<withdrawals, lastWithdrawalScannedBlock, diskWithdrawals>>
historyVars == <<request, answered>>
vars == <<chainVars, scanVars, secrets, opVars, local, historyVars, crashes, failures>>

-----------------------------------------------------------------------------
\* The chain

Event(kind, note) == [kind |-> kind, note |-> note]
Kind == {"EncryptedNote", "WithdrawalInitiated"}

Before(kind) == IF kind = "EncryptedNote" THEN "none" ELSE "deposited"
After(kind) == IF kind = "EncryptedNote" THEN "deposited" ELSE "initiated"

\* A block with one or two deposits or initiated withdrawals
Mine(events) ==
    /\ Len(blocks) < MaxBlock
    /\ \A i \in DOMAIN events : pool[events[i].note] = Before(events[i].kind)
    /\ \A i, j \in DOMAIN events : events[i].note = events[j].note => i = j
    /\ blocks' = Append(blocks, events)
    /\ pool' = [n \in Note |->
                  IF \E i \in DOMAIN events : events[i].note = n
                  THEN After(events[CHOOSE i \in DOMAIN events : events[i].note = n].kind)
                  ELSE pool[n]]
    /\ UNCHANGED <<scanVars, secrets, opVars, local, historyVars, crashes, failures>>

\* claimWithdrawal after the timeout, by anyone
Claim(n) ==
    /\ pool[n] = "initiated"
    /\ pool' = [pool EXCEPT ![n] = "claimed"]
    /\ UNCHANGED <<blocks, scanVars, secrets, opVars, local, historyVars, crashes, failures>>

\* queryFilter: the events of a kind from a block on, in chain order
EventsFrom(kind, start) ==
    LET entry(b, e) == IF e.kind = kind THEN <<[note |-> e.note, block |-> b]>> ELSE <<>>
        block(b) == FlattenSeq([i \in 1..Len(blocks[b]) |-> entry(b, blocks[b][i])])
    IN FlattenSeq([k \in 1..(Len(blocks) - start + 1) |-> block(start + k - 1)])

LastBlock(events) == events[Len(events)].block

-----------------------------------------------------------------------------
\* Start and tasks

Idle == [pc |-> "idle", found |-> <<>>, upTo |-> 0, deposits |-> TRUE, before |-> 0, new |-> FALSE]

At(t, label) == local[t].pc = label
Goto(t, label) ==
    local' = [local EXCEPT ![t] = IF label = "idle" THEN Idle ELSE [@ EXCEPT !.pc = label]]

NoWithdrawals == [n \in {} |-> 0]
NoRequest == [pc |-> "idle", deposits |-> {}, withdrawals |-> NoWithdrawals]

Starting == [t \in Task |-> IF t = Main THEN [Idle EXCEPT !.pc = "boot"] ELSE Idle]

Init ==
    /\ blocks = <<>> /\ pool = [n \in Note |-> "none"]
    /\ notes = <<>> /\ lastScannedBlock = 0 /\ diskNotes = <<>> /\ foundTwice = {}
    /\ secrets = {}
    /\ withdrawals = NoWithdrawals /\ lastWithdrawalScannedBlock = 0
    /\ diskWithdrawals = NoWithdrawals
    /\ local = Starting
    /\ request = NoRequest /\ answered = NoWithdrawals
    /\ crashes = 0 /\ failures = 0

Highest(known) == CHOOSE b \in known : \A c \in known : c <= b

\* init of the scanner and of the operator: what is on disk, and the block to
\* go on from, the current one when there is nothing on disk.
Boot ==
    LET from(known) == IF known = {} THEN Len(blocks) ELSE Highest(known) IN
    /\ At(Main, "boot")
    /\ notes' = diskNotes
    /\ lastScannedBlock' = from({diskNotes[i].block : i \in DOMAIN diskNotes})
    /\ withdrawals' = diskWithdrawals
    /\ lastWithdrawalScannedBlock' =
         from({diskWithdrawals[n].block : n \in DOMAIN diskWithdrawals})
    /\ Goto(Main, "scan")
    /\ UNCHANGED <<chainVars, diskNotes, foundTwice, secrets, diskWithdrawals, historyVars, crashes, failures>>

StartPoll(p) ==
    /\ At(Main, "idle") /\ At(p, "idle")
    /\ local' = [local EXCEPT ![p].pc = "scan", ![p].before = Len(notes)]
    /\ UNCHANGED <<chainVars, scanVars, secrets, opVars, historyVars, crashes, failures>>

\* config.fromBlock is used by the first scans only.
StartBlock(t, next) == IF t = Main /\ FromBlock > 0 THEN FromBlock ELSE next

-----------------------------------------------------------------------------
\* scan

\* (mutant: notes that are stored already are not skipped)
UnstoredOrNot(events) == events

Unstored(events) ==
    LET stored(e) == \E i \in DOMAIN notes : notes[i].note = e.note
    IN FlattenSeq([i \in 1..Len(events) |-> IF stored(events[i]) THEN <<>> ELSE <<events[i]>>])

\* What is in found is stored when the blocks and the depositors were fetched.
Holds(t, n) == At(t, "collect") /\ \E i \in DOMAIN local[t].found : local[t].found[i].note = n

QueryNotes(t) ==
    LET events == EventsFrom("EncryptedNote", StartBlock(t, lastScannedBlock + 1)) IN
    /\ At(t, "scan")
    /\ IF events = <<>>
       THEN Goto(t, "decrypt")
       ELSE local' = [local EXCEPT ![t].pc = "collect", ![t].found = Unstored(events),
                                   ![t].upTo = LastBlock(events)]
    /\ foundTwice' = foundTwice \cup
         {n \in Note : Holds(t, n)' /\ \E u \in Task \ {t} : Holds(u, n)}
    /\ UNCHANGED <<chainVars, notes, lastScannedBlock, diskNotes, secrets, opVars, historyVars,
                   crashes, failures>>

\* (mutant: the block that is current after the awaits)
ScannedUpToHead(t) == Len(blocks)

ScannedUpTo(t) == local[t].upTo

\* After the blocks and the depositors were fetched
CollectNotes(t) ==
    LET found == local[t].found IN
    /\ At(t, "collect")
    /\ notes' = notes \o [i \in DOMAIN found |->
         [note |-> found[i].note, block |-> found[i].block, depositor |-> local[t].deposits]]
    /\ IF found = <<>>
       THEN UNCHANGED <<lastScannedBlock, diskNotes>>
       ELSE lastScannedBlock' = ScannedUpTo(t) /\ diskNotes' = notes'
    /\ Goto(t, "decrypt")
    /\ UNCHANGED <<chainVars, foundTwice, secrets, opVars, historyVars, crashes, failures>>

\* tryDecryptOperatorNote of the new notes; at the start of all
DecryptNotes(t) ==
    /\ At(t, "decrypt")
    /\ secrets' = secrets \cup {notes[i].note : i \in (local[t].before + 1)..Len(notes)}
    /\ Goto(t, "query")
    /\ UNCHANGED <<chainVars, scanVars, opVars, historyVars, crashes, failures>>

-----------------------------------------------------------------------------
\* scanWithdrawals

QueryWithdrawals(t) ==
    LET next == IF lastWithdrawalScannedBlock > 0 THEN lastWithdrawalScannedBlock + 1 ELSE 1
        events == EventsFrom("WithdrawalInitiated", StartBlock(t, next))
    IN
    /\ At(t, "query")
    /\ IF events = <<>>
       THEN Goto(t, "idle")
       ELSE local' = [local EXCEPT ![t].pc = "loop", ![t].found = events, ![t].new = FALSE,
                                   ![t].upTo = LastBlock(events)]
    /\ UNCHANGED <<chainVars, scanVars, secrets, opVars, historyVars, crashes, failures>>

\* verifyCompliance with the notes it is given: the secret and the depositor
\* of the note are known.
Verified(n, known) ==
    /\ n \in secrets
    /\ \E i \in DOMAIN known : known[i].note = n /\ known[i].depositor

\* (mutant: the depositor is not looked up)
PassesBySecret(n, known) == n \in secrets

Passes(n, known) == Verified(n, known)

Put(map, n, value) == [k \in DOMAIN map \cup {n} |-> IF k = n THEN value ELSE map[k]]

WithdrawalsUpTo(t) == local[t].upTo

\* The loop over the events, up to the next attestation or to its end
ExamineWithdrawals(t) ==
    LET found == local[t].found
        unknown == {i \in DOMAIN found : found[i].note \notin DOMAIN withdrawals}
        stops == {i \in unknown : AutoAttest /\ Passes(found[i].note, notes)}
        stop == CHOOSE i \in stops : \A j \in stops : i <= j
        added == {i \in unknown : stops = {} \/ i <= stop}
    IN
    /\ At(t, "loop")
    /\ withdrawals' = [n \in DOMAIN withdrawals \cup {found[i].note : i \in added} |->
         IF n \in DOMAIN withdrawals THEN withdrawals[n]
         ELSE [status |-> "pending",
               block |-> found[CHOOSE i \in added : found[i].note = n].block]]
    /\ IF stops # {}
       THEN /\ local' = [local EXCEPT ![t].pc = "attest", ![t].new = TRUE,
                                      ![t].found = SubSeq(found, stop, Len(found))]
            /\ UNCHANGED <<lastWithdrawalScannedBlock, diskWithdrawals>>
       ELSE /\ lastWithdrawalScannedBlock' = WithdrawalsUpTo(t)
            /\ diskWithdrawals' =
                 IF added # {} \/ local[t].new THEN withdrawals' ELSE diskWithdrawals
            /\ Goto(t, "idle")
    /\ UNCHANGED <<chainVars, scanVars, secrets, historyVars, crashes, failures>>

-----------------------------------------------------------------------------
\* attest, of the first withdrawal in found

Current(t) == local[t].found[1].note
Return(t) == IF t \in Admins THEN "idle" ELSE "loop"

\* POST /operator/attest/:nullifier
RequestAttestation(a, n) ==
    /\ At(Main, "idle") /\ At(a, "idle")
    /\ n \in DOMAIN withdrawals
    /\ local' = [local EXCEPT ![a].pc = "requested",
                              ![a].found = <<[note |-> n, block |-> withdrawals[n].block]>>]
    /\ UNCHANGED <<chainVars, scanVars, secrets, opVars, historyVars, crashes, failures>>

\* The handler calls attest without any notes.
ManualAttest(a) ==
    /\ At(a, "requested")
    /\ Goto(a, IF withdrawals[Current(a)].status = "pending" /\ Passes(Current(a), <<>>)
               THEN "attest" ELSE "idle")
    /\ UNCHANGED <<chainVars, scanVars, secrets, opVars, historyVars, crashes, failures>>

\* (mutant: a transaction that was reverted is taken for success)
AfterRevertAttested(t) == "attested"

AfterRevert(t) == Return(t)

AttestWithdrawal(t) ==
    /\ At(t, "attest")
    /\ IF pool[Current(t)] = "initiated"
       THEN pool' = [pool EXCEPT ![Current(t)] = "attested"] /\ Goto(t, "attested")
       ELSE Goto(t, AfterRevert(t)) /\ UNCHANGED pool
    /\ UNCHANGED <<blocks, scanVars, secrets, opVars, historyVars, crashes, failures>>

WithAttested(t) == [withdrawals EXCEPT ![Current(t)].status = "attested"]

\* (mutant: the status is not saved)
SavedBefore(t) == diskWithdrawals

Saved(t) == WithAttested(t)

Attested(t) ==
    /\ At(t, "attested")
    /\ withdrawals' = WithAttested(t) /\ diskWithdrawals' = Saved(t)
    /\ Goto(t, Return(t))
    /\ UNCHANGED <<chainVars, scanVars, secrets, lastWithdrawalScannedBlock, historyVars, crashes, failures>>

-----------------------------------------------------------------------------
\* GET /history of an address that made every deposit and gets every
\* withdrawal; its requests come one after the other, once the server listens.

DepositEvents == {e.note : e \in ToSet(EventsFrom("EncryptedNote", IF FromBlock > 0 THEN FromBlock ELSE 1))}

Listed == [n \in DOMAIN withdrawals |-> withdrawals[n].status]

QueryDeposits ==
    /\ At(Main, "idle") /\ request.pc = "idle"
    /\ request' = [request EXCEPT !.pc = "collect", !.deposits = DepositEvents]
    /\ UNCHANGED <<chainVars, scanVars, secrets, opVars, local, answered, crashes, failures>>

\* The withdrawals are read when the senders of the deposits were fetched; a
\* sender that cannot be fetched leaves out its deposit.
CollectHistory(kept) ==
    /\ request.pc = "collect"
    /\ request' = [pc |-> "answer", deposits |-> kept, withdrawals |-> Listed]
    /\ failures' = IF kept = request.deposits THEN failures ELSE failures + 1
    /\ failures' <= MaxFailures
    /\ UNCHANGED <<chainVars, scanVars, secrets, opVars, local, answered, crashes>>

\* The query fails: the error is logged, the answer has no deposits.
NoDeposits ==
    /\ At(Main, "idle") /\ request.pc = "idle" /\ failures < MaxFailures
    /\ request' = [pc |-> "answer", deposits |-> {}, withdrawals |-> Listed]
    /\ failures' = failures + 1
    /\ UNCHANGED <<chainVars, scanVars, secrets, opVars, local, answered, crashes>>

\* After the timestamps were fetched
AnswerHistory ==
    /\ request.pc = "answer"
    /\ answered' = request.withdrawals
    /\ request' = NoRequest
    /\ UNCHANGED <<chainVars, scanVars, secrets, opVars, local, crashes, failures>>

-----------------------------------------------------------------------------
\* Faults

\* A query or a transaction fails; or the Deposit events or the transactions
\* with the depositors of new notes cannot be fetched, which is ignored.
Fail(t) ==
    /\ t \in Exposed
    /\ failures < MaxFailures
    /\ failures' = failures + 1
    /\ \/ At(t, "scan") /\ Goto(t, "decrypt")
       \/ At(t, "collect") /\ local' = [local EXCEPT ![t].deposits = FALSE]
       \/ At(t, "query") /\ Goto(t, "idle")
       \/ At(t, "attest") /\ Goto(t, Return(t))
       \/ At(t, "attested") /\ Goto(t, Return(t))
    /\ UNCHANGED <<chainVars, scanVars, secrets, opVars, historyVars, crashes>>

Crash ==
    /\ crashes < MaxCrashes
    /\ crashes' = crashes + 1
    /\ notes' = <<>> /\ lastScannedBlock' = 0 /\ secrets' = {}
    /\ withdrawals' = NoWithdrawals /\ lastWithdrawalScannedBlock' = 0
    /\ local' = Starting /\ request' = NoRequest
    /\ UNCHANGED <<chainVars, diskNotes, foundTwice, diskWithdrawals, answered, failures>>

Step(t) ==
    \/ QueryNotes(t) \/ CollectNotes(t) \/ DecryptNotes(t)
    \/ QueryWithdrawals(t) \/ ExamineWithdrawals(t) \/ AttestWithdrawal(t) \/ Attested(t)

Next ==
    \/ \E k \in Kind, n \in Note : Mine(<<Event(k, n)>>)
    \/ \E k, l \in Kind, n, o \in Note : Mine(<<Event(k, n), Event(l, o)>>)
    \/ \E n \in Note : Claim(n) \/ \E a \in Admins : RequestAttestation(a, n)
    \/ \E a \in Admins : ManualAttest(a)
    \/ Boot \/ Crash
    \/ \E p \in Polls : StartPoll(p)
    \/ \E t \in Task : Step(t) \/ Fail(t)
    \/ QueryDeposits \/ NoDeposits \/ AnswerHistory
    \/ \E kept \in SUBSET request.deposits : CollectHistory(kept)

Spec == Init /\ [][Next]_vars

-----------------------------------------------------------------------------
\* Properties

TypeOK ==
    /\ pool \in [Note -> {"none", "deposited", "initiated", "attested", "claimed"}]
    /\ notes \in Seq([note : Note, block : 1..Len(blocks), depositor : BOOLEAN])
    /\ secrets \subseteq Note
    /\ withdrawals \in [DOMAIN withdrawals -> [status : {"pending", "attested"}, block : 1..Len(blocks)]]
    /\ DOMAIN withdrawals \subseteq Note
    /\ {lastScannedBlock, lastWithdrawalScannedBlock} \subseteq 0..Len(blocks)

\* A note is stored once: scanner.ts skips it "if already stored".
NotesUnique == \A i, j \in DOMAIN notes : notes[i].note = notes[j].note => i = j

\* The only way to a note that is stored twice, which a wallet that reads
\* GET /notes counts twice, is that two polls had found it before either had
\* stored it: repeated scans of the same blocks, a slow poll that sets
\* lastScannedBlock back, crashes and failures do not store one again.
StoredTwiceOnlyIfFoundTwice ==
    \A i, j \in DOMAIN notes :
        notes[i].note = notes[j].note => i = j \/ notes[i].note \in foundTwice

\* Between polls, no event lies in a block that the next scan will not look
\* at again and was not recorded: its withdrawal would never be attested, its
\* note never be found by the recipient.
NothingMissed ==
    (\A t \in Task \ Admins : At(t, "idle")) =>
        /\ \A b \in 1..lastScannedBlock : \A i \in DOMAIN blocks[b] :
             LET e == blocks[b][i] IN e.kind = "EncryptedNote" =>
                 \E j \in DOMAIN notes : notes[j].note = e.note
        /\ \A b \in 1..lastWithdrawalScannedBlock : \A i \in DOMAIN blocks[b] :
             LET e == blocks[b][i] IN
             e.kind = "WithdrawalInitiated" => e.note \in DOMAIN withdrawals

\* What the operator has recorded as attested, in memory or on disk, is
\* attested on chain, whatever transaction raced it.
AttestedOnChain ==
    \A known \in {withdrawals, diskWithdrawals} : \A n \in DOMAIN known :
        known[n].status = "attested" => pool[n] = "attested"

\* Only a withdrawal whose secret and depositor the operator knows is
\* attested (the compliance gate of attest).
AttestedOnlyVerified ==
    [][\A n \in Note : pool[n] = "initiated" /\ pool'[n] = "attested" => Verified(n, notes)]_vars

\* What an answer to GET /history said of a withdrawal, later answers still
\* say, also after a restart: it stays in the list, and stays attested.
HistoryNeverTakesBack ==
    [][\A n \in DOMAIN answered :
         n \in DOMAIN answered' /\ (answered[n] = "attested" => answered'[n] = "attested")]_vars

\* The operator can attest by hand what it has recorded as pending and is
\* able to verify (docs/design/sequencer.md, 3.3).
ManualAttestAccepted ==
    [][\A a \in Admins :
         ManualAttest(a) /\ withdrawals[Current(a)].status = "pending" /\ Verified(Current(a), notes)
           => local'[a].pc = "attest"]_vars
=============================================================================
