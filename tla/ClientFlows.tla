---------------------------- MODULE ClientFlows ----------------------------
(***************************************************************************)
(* The flows of one connected account: deposits and withdrawals that the   *)
(* LatentClient carries through, await by await, the prover they load, and *)
(* the view that starts them and shows their outcome.                      *)
(*                                                                         *)
(* The client lives in the root layout, the state of the view (isSending,  *)
(* isWithdrawing, the notes listed) only as long as the view is mounted:   *)
(* a flow goes on when the user has left the view, with nobody to tell.    *)
(* The pool contract is what these flows see of it: it takes a deposit     *)
(* that the allowance and the balance cover, and a note once.              *)
(***************************************************************************)
EXTENDS Naturals, Sequences, SequencesExt, FiniteSets

CONSTANTS
  Payments,        \* the payments the user has been asked for
  AmountOf,        \* the amount of each
  Notes,           \* the notes the account received
  Flows,           \* bound: the flows started, 1 .. n
  Kinds,           \* the kinds of flows started
  MaxViews,        \* bound: how often the view is mounted
  InitialBalance,
  None

ASSUME FlowsAssumption ==
  /\ AmountOf \in [Payments -> Nat \ {0}]
  /\ Flows = 1 .. Cardinality(Flows)
  /\ Kinds \subseteq {"deposit", "withdraw", "preload", "dispose"}
  /\ MaxViews \in Nat \ {0} /\ InitialBalance \in Nat
  /\ None \notin Flows \cup Payments \cup Notes

VARIABLES
  balance, allowance,   \* token: of the account, and of the pool over it
  leaves,               \* the flows whose deposit was mined, in order
  spent,                \* the notes whose nullifier the pool has marked
  flow,                 \* flow[f]: kind, what for, where it awaits, its view
  view,                 \* the number of the view mounted now
  sending,              \* isSending
  dialog,               \* progress of useWithdrawal, as its dialog shows it
  announced,            \* sendSuccessTxHash: the deposit announced as sent
  offered, withdrawn,   \* receivedNotes, withdrawnLeafIndices
  scan,                 \* the scan of the view: where it awaits, what it found
  ready,                \* LatentClient.proverReady
  backend, provers      \* the prover in use, by its flow; those not destroyed

chain == <<balance, allowance, leaves, spent>>
dialogs == <<dialog, announced>>
list == <<offered, withdrawn, scan>>
page == <<view, sending, dialogs, list>>
prover == <<ready, backend, provers>>
vars == <<chain, flow, page, prover>>

Ended == {"done", "failed", "lost"}
Free == [kind |-> "none", what |-> None, at |-> "free", view |-> 0]
NoScan == [at |-> "no", found |-> {}]

(* INITIAL_PROGRESS: nothing to show.                                      *)
Closed == [is |-> "closed", of |-> None]

(* isWithdrawing                                                           *)
withdrawing == dialog.is = "running"

Init ==
  /\ balance = InitialBalance /\ allowance = 0 /\ leaves = <<>> /\ spent = {}
  /\ flow = [f \in Flows |-> Free]
  /\ view = 1 /\ sending = FALSE /\ dialog = Closed /\ announced = None
  /\ offered = {} /\ withdrawn = {} /\ scan = NoScan
  /\ ready = FALSE /\ backend = None /\ provers = {}

(***************************************************************************)
(* Starting, continuing and ending a flow.                                 *)
(***************************************************************************)
At(f, place) == flow[f].at = place
Go(f, place) == flow' = [flow EXCEPT ![f].at = place]

Start(f, kind, what, place) ==
  /\ kind \in Kinds /\ At(f, "free")
  /\ \A g \in 1 .. (f - 1) : ~At(g, "free")
  /\ flow' = [flow EXCEPT ![f] = [kind |-> kind, what |-> what, at |-> place, view |-> view]]

ShownHere(f, kind) == flow[f].kind = kind /\ flow[f].view = view

(* The view that started f, if it is still mounted, unlocks its button and *)
(* its dialog tells the outcome.                                           *)
Unlock(f, outcome) ==
  /\ sending' = (sending /\ ~ShownHere(f, "deposit"))
  /\ dialog' = IF ShownHere(f, "withdraw") THEN [dialog EXCEPT !.is = outcome] ELSE dialog

(* (mutant: only a flow that succeeds unlocks its button)                  *)
FailLocked(f, outcome) == Go(f, outcome) /\ UNCHANGED page

Fail(f, outcome) ==
  /\ Go(f, outcome)
  /\ Unlock(f, "failed")
  /\ UNCHANGED <<view, announced, list>>

(***************************************************************************)
(* deposit: read the allowance, approve if it is too small, submit.        *)
(***************************************************************************)
Amount(f) == AmountOf[flow[f].what]

(* The user pays what no flow of this view is known to have paid.          *)
Unpaid(p) == ~\E f \in Flows : flow[f].what = p /\ flow[f].view = view /\ At(f, "done")

(* (mutant: the button is not disabled while a deposit runs)               *)
SendTwice == UNCHANGED sending

Send == ~sending /\ sending' = TRUE

StartDeposit(f, p) ==
  /\ Unpaid(p)
  /\ Send
  /\ Start(f, "deposit", p, "allowance")
  /\ UNCHANGED <<chain, view, dialogs, list, prover>>

CheckAllowance(f) ==
  /\ At(f, "allowance")
  /\ Go(f, IF allowance < Amount(f) THEN "approve" ELSE "submitDeposit")
  /\ UNCHANGED <<chain, page, prover>>

(* (mutant: the approval is for any amount)                                *)
ApprovedForGood(f) == InitialBalance + Amount(f)

Approved(f) == Amount(f)

(* approve overwrites the allowance that another flow may rely on.         *)
Approve(f) ==
  /\ At(f, "approve")
  /\ allowance' = Approved(f)
  /\ Go(f, "submitDeposit")
  /\ UNCHANGED <<balance, leaves, spent, page, prover>>

Covered(f) == allowance >= Amount(f) /\ balance >= Amount(f)

(* (mutant: the status of the receipt is not looked at)                    *)
RevertIgnored(f) == Go(f, "depositReceipt") /\ UNCHANGED page

Reverted(f) == Fail(f, "failed")

SubmitDeposit(f) ==
  /\ At(f, "submitDeposit")
  /\ IF Covered(f)
     THEN /\ allowance' = allowance - Amount(f)
          /\ balance' = balance - Amount(f)
          /\ leaves' = Append(leaves, f)
          /\ Go(f, "depositReceipt")
          /\ UNCHANGED page
     ELSE Reverted(f) /\ UNCHANGED <<allowance, balance, leaves>>
  /\ UNCHANGED <<spent, prover>>

FinishDeposit(f) ==
  /\ At(f, "depositReceipt")
  /\ Go(f, "done")
  /\ Unlock(f, "complete")
  /\ announced' = IF flow[f].view = view THEN f ELSE announced
  /\ UNCHANGED <<chain, view, list, prover>>

(***************************************************************************)
(* scanMyNotes, as far as the list of notes goes.                          *)
(***************************************************************************)
StartScan ==
  /\ scan.at = "no" /\ ~withdrawing
  /\ scan' = [scan EXCEPT !.at = "nullifiers"]
  /\ UNCHANGED <<chain, flow, view, sending, dialogs, offered, withdrawn, prover>>

FilterSpent ==
  /\ scan.at = "nullifiers"
  /\ scan' = [at |-> "answer", found |-> Notes \ spent]
  /\ UNCHANGED <<chain, flow, view, sending, dialogs, offered, withdrawn, prover>>

FinishScan ==
  /\ scan.at = "answer"
  /\ offered' = scan.found
  /\ scan' = NoScan
  /\ UNCHANGED <<chain, flow, view, sending, dialogs, withdrawn, prover>>

(* A call fails: the list stays as it is.                                  *)
FailScan ==
  /\ scan.at \in {"nullifiers", "answer"}
  /\ scan' = NoScan
  /\ UNCHANGED <<chain, flow, view, sending, dialogs, offered, withdrawn, prover>>

(***************************************************************************)
(* withdraw: proofs from the sequencer, the prover, the proof, submission. *)
(***************************************************************************)
Withdrawable == offered \ withdrawn

StartWithdrawal(f, note) ==
  /\ ~withdrawing /\ note \in Withdrawable
  /\ Start(f, "withdraw", note, "proofs")
  /\ dialog' = [is |-> "running", of |-> f]
  /\ UNCHANGED <<chain, view, sending, announced, list, prover>>

FetchProofs(f) ==
  /\ At(f, "proofs")
  /\ Go(f, "ensure")
  /\ UNCHANGED <<chain, page, prover>>

SubmitWithdrawal(f) ==
  /\ At(f, "submitWithdrawal")
  /\ IF flow[f].what \notin spent
     THEN spent' = spent \cup {flow[f].what} /\ Go(f, "withdrawalReceipt") /\ UNCHANGED page
     ELSE Fail(f, "failed") /\ UNCHANGED spent
  /\ UNCHANGED <<balance, allowance, leaves, prover>>

(* (mutant: the withdrawn note is taken off the list, not remembered)      *)
TakeOff(f) ==
  /\ offered' = IF flow[f].view = view THEN offered \ {flow[f].what} ELSE offered
  /\ UNCHANGED withdrawn

MarkWithdrawn(f) ==
  /\ withdrawn' = IF flow[f].view = view THEN withdrawn \cup {flow[f].what} ELSE withdrawn
  /\ UNCHANGED offered

FinishWithdrawal(f) ==
  /\ At(f, "withdrawalReceipt")
  /\ Go(f, "done")
  /\ Unlock(f, "complete")
  /\ MarkWithdrawn(f)
  /\ UNCHANGED <<chain, view, announced, scan, prover>>

(***************************************************************************)
(* The prover: ensureProverReady asks and then loads, over several awaits. *)
(***************************************************************************)
Proceed(f) == Go(f, IF flow[f].kind = "withdraw" THEN "prove" ELSE "done")

Preload(f) ==
  /\ Start(f, "preload", None, "ensure")
  /\ UNCHANGED <<chain, page, prover>>

(* (mutant: the flag is set before the prover is loaded)                   *)
EarlyReady == ready' = TRUE

ReadyLater == UNCHANGED ready

EnsureProverReady(f) ==
  /\ At(f, "ensure")
  /\ IF ready THEN Proceed(f) /\ UNCHANGED ready ELSE Go(f, "load") /\ ReadyLater
  /\ UNCHANGED <<chain, page, backend, provers>>

(* Whoever loads last provides the prover in use; nobody destroys the      *)
(* other one.                                                              *)
InitProver(f) ==
  /\ At(f, "load")
  /\ backend' = f
  /\ provers' = provers \cup {f}
  /\ ready' = TRUE
  /\ Proceed(f)
  /\ UNCHANGED <<chain, page>>

GenerateProof(f) ==
  /\ At(f, "prove")
  /\ IF backend # None
     THEN Go(f, "submitWithdrawal") /\ UNCHANGED page
     ELSE Fail(f, "failed")
  /\ UNCHANGED <<chain, prover>>

(* disposeProver forgets the backend at once, the client its flag only     *)
(* when the WASM instance is destroyed.                                    *)
Disposing == \E f \in Flows : At(f, "destroy")

Dispose(f) ==
  /\ LET loaded == backend # None \/ Disposing
     IN  /\ Start(f, "dispose", backend, IF loaded THEN "destroy" ELSE "done")
         /\ ready' = (ready /\ loaded)
  /\ backend' = None
  /\ UNCHANGED <<chain, page, provers>>

Destroyed(f) ==
  /\ At(f, "destroy")
  /\ provers' = provers \ {flow[f].what}
  /\ ready' = FALSE
  /\ Go(f, "done")
  /\ UNCHANGED <<chain, page, backend>>

(***************************************************************************)
(* The two dialogs: Escape, their buttons and a click beside them close    *)
(* them, but not that of a withdrawal while it runs.                       *)
(***************************************************************************)
Closable == dialog.is \in {"failed", "complete"}

CloseProgress ==
  /\ Closable
  /\ dialog' = Closed
  /\ UNCHANGED <<chain, flow, view, sending, announced, list, prover>>

CloseAnnouncement ==
  /\ announced # None
  /\ announced' = None
  /\ UNCHANGED <<chain, flow, view, sending, dialog, list, prover>>

(***************************************************************************)
(* Failures and navigation.                                                *)
(***************************************************************************)
(* The user rejects a request, a call fails, or a receipt never comes for  *)
(* a transaction that was mined.                                           *)
Abort(f) ==
  /\ flow[f].kind # "dispose"
  /\ flow[f].at \notin Ended \cup {"free"}
  /\ Fail(f, IF flow[f].at \in {"depositReceipt", "withdrawalReceipt"} THEN "lost" ELSE "failed")
  /\ UNCHANGED <<chain, prover>>

(* The user leaves the view and comes back; the flows go on.               *)
Remount ==
  /\ view < MaxViews
  /\ view' = view + 1
  /\ sending' = FALSE /\ dialog' = Closed /\ announced' = None
  /\ offered' = {} /\ withdrawn' = {} /\ scan' = NoScan
  /\ UNCHANGED <<chain, flow, prover>>

Step(f) ==
  \/ CheckAllowance(f) \/ Approve(f) \/ SubmitDeposit(f) \/ FinishDeposit(f)
  \/ FetchProofs(f) \/ SubmitWithdrawal(f) \/ FinishWithdrawal(f)
  \/ EnsureProverReady(f) \/ InitProver(f) \/ GenerateProof(f) \/ Destroyed(f)

Next ==
  \/ \E f \in Flows :
       \/ \E p \in Payments : StartDeposit(f, p)
       \/ \E note \in Notes : StartWithdrawal(f, note)
       \/ Preload(f) \/ Dispose(f) \/ Step(f) \/ Abort(f)
  \/ StartScan \/ FilterSpent \/ FinishScan \/ FailScan
  \/ CloseProgress \/ CloseAnnouncement \/ Remount

Spec == Init /\ [][Next]_vars

(* The user answers the wallet, the servers and the chain answer the       *)
(* client, one way or the other.                                           *)
FairSpec == Spec /\ \A f \in Flows : WF_vars(Step(f) \/ Abort(f))

(***************************************************************************)
(* Properties.                                                             *)
(***************************************************************************)
Places == {"free", "allowance", "approve", "submitDeposit", "depositReceipt",
           "proofs", "ensure", "load", "prove", "submitWithdrawal",
           "withdrawalReceipt", "destroy"} \cup Ended

TypeOK ==
  /\ balance \in Nat /\ allowance \in Nat
  /\ leaves \in Seq(Flows)
  /\ flow \in [Flows -> [kind : Kinds \cup {"none"}, at : Places, view : 0 .. MaxViews,
                         what : Payments \cup Notes \cup Flows \cup {None}]]
  /\ spent \cup offered \cup withdrawn \subseteq Notes
  /\ scan \in [at : {"no", "nullifiers", "answer"}, found : SUBSET Notes]
  /\ view \in 1 .. MaxViews
  /\ {sending, ready} \subseteq BOOLEAN
  /\ dialog \in [is : {"closed", "running", "failed", "complete"}, of : Flows \cup {None}]
  /\ announced \in Flows \cup {None}
  /\ backend \in Flows \cup {None} /\ provers \subseteq Flows

(* A note whose withdrawal the view has reported complete is not offered   *)
(* again, whatever scan was in flight when it completed.                   *)
CompletedNeverOffered ==
  \A f \in Flows :
    flow[f].kind = "withdraw" /\ flow[f].view = view /\ At(f, "done") => flow[f].what \notin Withdrawable

(* What a flow reports, to the view and in its dialogs, is what the chain  *)
(* has: success of what was mined, failure of what was not, except when    *)
(* the receipt was lost.                                                   *)
ReportsAreTrue ==
  \A f \in Flows :
    /\ flow[f].kind = "deposit" =>
         /\ At(f, "done") => Contains(leaves, f)
         /\ At(f, "failed") => ~Contains(leaves, f)
    /\ flow[f].kind = "withdraw" =>
         /\ At(f, "done") => flow[f].what \in spent
         /\ At(f, "failed") /\ flow[f].what \in spent =>
              \E g \in Flows \ {f} :
                flow[g].what = flow[f].what /\ flow[g].at \in {"withdrawalReceipt", "done", "lost"}
    /\ announced = f => Contains(leaves, f)
    /\ dialog = [is |-> "complete", of |-> f] => flow[f].what \in spent

(* A payment is made twice only if the user could not see the first one:   *)
(* its receipt was lost, or the view that started it was left.             *)
PaidOnceUnlessUnseen ==
  \A i, j \in DOMAIN leaves :
    i < j /\ flow[leaves[i]].what = flow[leaves[j]].what =>
      At(leaves[i], "lost") \/ flow[leaves[i]].view < flow[leaves[j]].view
      \/ flow[leaves[j]].view < flow[leaves[i]].view

(* When every deposit started has succeeded, however they interleaved, the *)
(* pool is left with no allowance over the user's tokens.                  *)
NoApprovalLeft ==
  (\A f \in Flows : flow[f].kind = "deposit" => At(f, "done")) => allowance = 0

(* The client calls the prover ready only when it is there, but for the    *)
(* time it takes to dispose of it; so a proof is not asked of a prover     *)
(* that is missing, however loads overlap, unless the prover was disposed  *)
(* of under a withdrawal.                                                  *)
ProverReadyMeansLoaded ==
  /\ ready => backend # None \/ Disposing
  /\ \A f \in Flows : At(f, "prove") =>
       backend # None \/ \E g \in Flows : flow[g].kind = "dispose"

(* The user is never locked out of withdrawing: the dialog of a withdrawal *)
(* cannot be closed while it runs, so it has to end, by success or error.  *)
PageUnlocks == withdrawing ~> ~withdrawing
=============================================================================
