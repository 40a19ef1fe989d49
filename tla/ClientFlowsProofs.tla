------------------------- MODULE ClientFlowsProofs -------------------------
(***************************************************************************)
(* What the flows of the client promise, for any number of flows, views,   *)
(* payments and notes, whatever the balance, and however the awaits of the *)
(* flows interleave, fail, or lose their receipt.                          *)
(***************************************************************************)
EXTENDS ClientFlows, TLAPS

-----------------------------------------------------------------------------
\* The inductive invariant, in parts.

DepositPlaces == {"allowance", "approve", "submitDeposit", "depositReceipt"}

WithdrawalPlaces ==
  {"proofs", "ensure", "load", "prove", "submitWithdrawal", "withdrawalReceipt"}

\* A flow of each kind is where flows of its kind come.
Placed(kind, at) ==
  \/ kind = "none" /\ at = "free"
  \/ kind = "deposit" /\ at \in DepositPlaces \cup Ended
  \/ kind = "withdraw" /\ at \in WithdrawalPlaces \cup Ended
  \/ kind = "preload" /\ at \in {"ensure", "load"} \cup Ended
  \/ kind = "dispose" /\ at \in {"destroy", "done"}

FlowsOK ==
  \A f \in Flows :
    /\ Placed(flow[f].kind, flow[f].at)
    /\ flow[f].view <= view
    /\ flow[f].kind = "deposit" => flow[f].what \in Payments
    /\ flow[f].kind = "withdraw" => flow[f].what \in Notes

Deposit(f) == flow[f].kind = "deposit"
Withdrawal(f) == flow[f].kind = "withdraw"
Running(f) == flow[f].at \notin Ended \cup {"free"}

\* Its transaction was mined, whether or not its receipt has come.
Mined(f) ==
  flow[f].at \in {"depositReceipt", "withdrawalReceipt", "done", "lost"}

\* The chain has the deposits, each once, and the nullifiers of the flows that
\* were mined.
LeavesOK ==
  /\ \A f \in Flows : Contains(leaves, f) <=> Deposit(f) /\ Mined(f)
  /\ \A i, j \in DOMAIN leaves : leaves[i] = leaves[j] => i = j

SpentOK ==
  /\ \A f \in Flows : Withdrawal(f) /\ Mined(f) => flow[f].what \in spent
  /\ \A note \in spent : \E f \in Flows : Withdrawal(f) /\ Mined(f) /\ flow[f].what = note

ChainOK == LeavesOK /\ SpentOK

\* The dialogs tell of the flows of this view what has become of them.
DialogsOK ==
  /\ \A f \in Flows :
       Withdrawal(f) /\ Running(f) /\ flow[f].view = view =>
         dialog = [is |-> "running", of |-> f]
  /\ dialog.is = "complete" =>
       dialog.of \in Flows /\ Withdrawal(dialog.of) /\ At(dialog.of, "done")
  /\ announced # None => Deposit(announced) /\ At(announced, "done")

\* An approval that is left over waits for the deposit that it covers, or
\* for none, the deposit having failed.
ApprovalOK ==
  \/ allowance = 0
  \/ \E f \in Flows : Deposit(f) /\ At(f, "failed")
  \/ \E f \in Flows : Deposit(f) /\ At(f, "submitDeposit") /\ allowance <= Amount(f)

Live(f) == Running(f) \/ At(f, "done")

\* A view runs one deposit at a time, and pays a payment once, as far as it
\* can see.
PaymentsOK ==
  /\ \A f \in Flows : Deposit(f) /\ Running(f) /\ flow[f].view = view => sending
  /\ \A f, g \in Flows :
       Deposit(f) /\ Deposit(g) /\ Running(f) /\ Running(g) /\ flow[f].view = flow[g].view =>
         f = g
  /\ \A f, g \in Flows :
       Deposit(f) /\ Deposit(g) /\ Live(f) /\ Live(g)
       /\ flow[f].view = flow[g].view /\ flow[f].what = flow[g].what =>
         f = g

\* The view remembers the notes whose withdrawal it has seen complete.
WithdrawnOK ==
  \A f \in Flows :
    Withdrawal(f) /\ flow[f].view = view /\ At(f, "done") => flow[f].what \in withdrawn

IInv ==
  /\ TypeOK /\ FlowsOK /\ ChainOK /\ DialogsOK /\ ApprovalOK
  /\ PaymentsOK /\ PaidOnceUnlessUnseen /\ WithdrawnOK /\ ProverReadyMeansLoaded

-----------------------------------------------------------------------------
\* What a step does to the flows: begin one, move one, or leave them alone.

FlowType ==
  [kind : Kinds \cup {"none"}, at : Places, view : 0 .. MaxViews,
   what : Payments \cup Notes \cup Flows \cup {None}]

Others(f) == \A g \in Flows \ {f} : flow'[g] = flow[g]

Moved(f, place) ==
  /\ flow'[f].kind = flow[f].kind /\ flow'[f].what = flow[f].what
  /\ flow'[f].view = flow[f].view /\ flow'[f].at = place
  /\ Others(f)

Begun(f, kind, what, place) ==
  /\ kind \in Kinds /\ At(f, "free")
  /\ flow'[f].kind = kind /\ flow'[f].what = what
  /\ flow'[f].view = view /\ flow'[f].at = place
  /\ Others(f)

LEMMA GoMoves ==
  ASSUME TypeOK, NEW f \in Flows, NEW place \in Places, Go(f, place)
  PROVE  Moved(f, place) /\ flow' \in [Flows -> FlowType]
<1>1. flow \in [Flows -> FlowType]
  BY DEF TypeOK, FlowType
<1>2. flow' = [flow EXCEPT ![f] = [flow[f] EXCEPT !.at = place]]
  BY <1>1 DEF Go
<1>3. flow[f] \in FlowType
  BY <1>1
<1>4. [flow[f] EXCEPT !.at = place] \in FlowType
  BY <1>3 DEF FlowType
<1>5. flow' \in [Flows -> FlowType]
  BY <1>1, <1>2, <1>4
<1>6. flow'[f] = [flow[f] EXCEPT !.at = place]
  BY <1>1, <1>2
<1> QED
  BY <1>1, <1>2, <1>3, <1>5, <1>6 DEF Moved, Others, FlowType

LEMMA StartBegins ==
  ASSUME TypeOK, NEW f \in Flows, NEW kind, NEW place \in Places,
         NEW what \in Payments \cup Notes \cup Flows \cup {None},
         Start(f, kind, what, place)
  PROVE  Begun(f, kind, what, place) /\ flow' \in [Flows -> FlowType]
<1> DEFINE new == [kind |-> kind, what |-> what, at |-> place, view |-> view]
<1>1. flow \in [Flows -> FlowType] /\ kind \in Kinds /\ At(f, "free")
  BY DEF TypeOK, FlowType, Start
<1>2. flow' = [flow EXCEPT ![f] = new]
  BY DEF Start
<1>3. view \in 0 .. MaxViews
  BY FlowsAssumption DEF TypeOK
<1>4. new \in FlowType
  BY <1>1, <1>3 DEF FlowType
<1>5. flow' \in [Flows -> FlowType] /\ flow'[f] = new
  BY <1>1, <1>2, <1>4
<1> QED
  BY <1>1, <1>2, <1>5 DEF Begun, Others

\* The conjuncts of FlowsOK speak of one flow each.
FlowOK(f) ==
  /\ Placed(flow[f].kind, flow[f].at)
  /\ flow[f].view <= view
  /\ Deposit(f) => flow[f].what \in Payments
  /\ Withdrawal(f) => flow[f].what \in Notes

Acts(f) ==
  \/ \E p \in Payments : StartDeposit(f, p)
  \/ \E note \in Notes : StartWithdrawal(f, note)
  \/ Preload(f) \/ Dispose(f) \/ Step(f) \/ Abort(f)

ViewActs ==
  StartScan \/ FilterSpent \/ FinishScan \/ FailScan \/ CloseProgress \/ CloseAnnouncement

LEMMA NextSplits ==
  ASSUME [Next]_vars
  PROVE  (\E f \in Flows : Acts(f)) \/ ViewActs \/ Remount \/ UNCHANGED vars
BY DEF Next, Acts, ViewActs

\* Where a flow comes from and goes to, action by action.
LEMMA StepMoves ==
  ASSUME TypeOK, NEW f \in Flows
  PROVE  /\ CheckAllowance(f) =>
              At(f, "allowance") /\ (Moved(f, "approve") \/ Moved(f, "submitDeposit"))
         /\ Approve(f) => At(f, "approve") /\ Moved(f, "submitDeposit")
         /\ SubmitDeposit(f) =>
              /\ At(f, "submitDeposit")
              /\ \/ Moved(f, "depositReceipt") /\ Covered(f)
                 \/ Moved(f, "failed") /\ ~Covered(f)
         /\ FinishDeposit(f) => At(f, "depositReceipt") /\ Moved(f, "done")
         /\ FetchProofs(f) => At(f, "proofs") /\ Moved(f, "ensure")
         /\ SubmitWithdrawal(f) =>
              /\ At(f, "submitWithdrawal")
              /\ \/ Moved(f, "withdrawalReceipt") /\ flow[f].what \notin spent
                 \/ Moved(f, "failed") /\ flow[f].what \in spent
         /\ FinishWithdrawal(f) => At(f, "withdrawalReceipt") /\ Moved(f, "done")
         /\ EnsureProverReady(f) =>
              /\ At(f, "ensure")
              /\ \/ ready /\ Moved(f, IF Withdrawal(f) THEN "prove" ELSE "done")
                 \/ ~ready /\ Moved(f, "load")
         /\ InitProver(f) => At(f, "load") /\ Moved(f, IF Withdrawal(f) THEN "prove" ELSE "done")
         /\ GenerateProof(f) =>
              /\ At(f, "prove")
              /\ (Moved(f, "submitWithdrawal") \/ Moved(f, "failed"))
         /\ Destroyed(f) => At(f, "destroy") /\ Moved(f, "done")
         /\ Abort(f) =>
              /\ flow[f].kind # "dispose" /\ Running(f)
              /\ \/ flow[f].at \in {"depositReceipt", "withdrawalReceipt"} /\ Moved(f, "lost")
                 \/ flow[f].at \notin {"depositReceipt", "withdrawalReceipt"} /\ Moved(f, "failed")
<1> DEFINE there(place) == Go(f, place) => Moved(f, place)
<1>1. \A place \in Places : there(place)
  BY GoMoves
<1>2. \A place \in Places : Fail(f, place) => Moved(f, place)
  BY <1>1 DEF Fail
<1>3. /\ there("approve") /\ there("submitDeposit") /\ there("depositReceipt") /\ there("failed")
      /\ there("lost") /\ there("done") /\ there("ensure") /\ there("prove") /\ there("load")
      /\ there("submitWithdrawal") /\ there("withdrawalReceipt")
  BY <1>1 DEF Places, Ended
<1>4. Fail(f, "failed") => Moved(f, "failed")
  BY <1>2 DEF Places, Ended
<1>5. Fail(f, "lost") => Moved(f, "lost")
  BY <1>2 DEF Places, Ended
<1>6. Proceed(f) => Moved(f, IF Withdrawal(f) THEN "prove" ELSE "done")
  BY <1>3 DEF Proceed, Withdrawal
<1> HIDE DEF there
<1>7. /\ CheckAllowance(f) =>
           At(f, "allowance") /\ (Moved(f, "approve") \/ Moved(f, "submitDeposit"))
      /\ Approve(f) => At(f, "approve") /\ Moved(f, "submitDeposit")
      /\ FinishDeposit(f) => At(f, "depositReceipt") /\ Moved(f, "done")
      /\ FetchProofs(f) => At(f, "proofs") /\ Moved(f, "ensure")
  BY <1>3 DEF CheckAllowance, Approve, FinishDeposit, FetchProofs, there
<1>8. /\ FinishWithdrawal(f) => At(f, "withdrawalReceipt") /\ Moved(f, "done")
      /\ Destroyed(f) => At(f, "destroy") /\ Moved(f, "done")
  BY <1>3 DEF FinishWithdrawal, Destroyed, there
<1>9. SubmitDeposit(f) =>
        /\ At(f, "submitDeposit")
        /\ \/ Moved(f, "depositReceipt") /\ Covered(f)
           \/ Moved(f, "failed") /\ ~Covered(f)
  BY <1>3, <1>4 DEF SubmitDeposit, Reverted, there
<1>10. SubmitWithdrawal(f) =>
         /\ At(f, "submitWithdrawal")
         /\ \/ Moved(f, "withdrawalReceipt") /\ flow[f].what \notin spent
            \/ Moved(f, "failed") /\ flow[f].what \in spent
  BY <1>3, <1>4 DEF SubmitWithdrawal, there
<1>11. EnsureProverReady(f) =>
         /\ At(f, "ensure")
         /\ \/ ready /\ Moved(f, IF Withdrawal(f) THEN "prove" ELSE "done")
            \/ ~ready /\ Moved(f, "load")
  BY <1>3, <1>6 DEF EnsureProverReady, there
<1>12. InitProver(f) => At(f, "load") /\ Moved(f, IF Withdrawal(f) THEN "prove" ELSE "done")
  BY <1>6 DEF InitProver
<1>13. GenerateProof(f) =>
         At(f, "prove") /\ (Moved(f, "submitWithdrawal") \/ Moved(f, "failed"))
  BY <1>3, <1>4 DEF GenerateProof, there
<1>14. Abort(f) =>
         /\ flow[f].kind # "dispose" /\ Running(f)
         /\ \/ flow[f].at \in {"depositReceipt", "withdrawalReceipt"} /\ Moved(f, "lost")
            \/ flow[f].at \notin {"depositReceipt", "withdrawalReceipt"} /\ Moved(f, "failed")
  BY <1>4, <1>5 DEF Abort, Running
<1> QED
  BY <1>7, <1>8, <1>9, <1>10, <1>11, <1>12, <1>13, <1>14

LEMMA BeginMoves ==
  ASSUME TypeOK, NEW f \in Flows
  PROVE  /\ \A p \in Payments : StartDeposit(f, p) => Begun(f, "deposit", p, "allowance")
         /\ \A note \in Notes : StartWithdrawal(f, note) => Begun(f, "withdraw", note, "proofs")
         /\ Preload(f) => Begun(f, "preload", None, "ensure")
         /\ Dispose(f) =>
              \/ Begun(f, "dispose", backend, "destroy") /\ (backend # None \/ Disposing)
              \/ Begun(f, "dispose", backend, "done") /\ ~(backend # None \/ Disposing)
<1>1. /\ {"allowance", "proofs", "ensure", "destroy", "done"} \subseteq Places
      /\ {backend, None} \subseteq Payments \cup Notes \cup Flows \cup {None}
      /\ Payments \subseteq Payments \cup Notes \cup Flows \cup {None}
      /\ Notes \subseteq Payments \cup Notes \cup Flows \cup {None}
  BY DEF Places, Ended, TypeOK
<1>2. ASSUME NEW p \in Payments, StartDeposit(f, p)
      PROVE  Begun(f, "deposit", p, "allowance")
  BY <1>1, <1>2, StartBegins DEF StartDeposit
<1>3. ASSUME NEW note \in Notes, StartWithdrawal(f, note)
      PROVE  Begun(f, "withdraw", note, "proofs")
  BY <1>1, <1>3, StartBegins DEF StartWithdrawal
<1>4. Preload(f) => Begun(f, "preload", None, "ensure")
  BY <1>1, StartBegins DEF Preload
<1>5. Dispose(f) =>
        \/ Begun(f, "dispose", backend, "destroy") /\ (backend # None \/ Disposing)
        \/ Begun(f, "dispose", backend, "done") /\ ~(backend # None \/ Disposing)
  <2>1. CASE backend # None \/ Disposing
    BY <1>1, <2>1, StartBegins DEF Dispose
  <2>2. CASE ~(backend # None \/ Disposing)
    BY <1>1, <2>2, StartBegins DEF Dispose
  <2> QED
    BY <2>1, <2>2
<1> QED
  BY <1>2, <1>3, <1>4, <1>5

LEMMA FlowsTyped ==
  ASSUME TypeOK, NEW f \in Flows, Acts(f)
  PROVE  flow' \in [Flows -> FlowType]
<1> DEFINE typed == flow' \in [Flows -> FlowType]
<1>1. \A place \in Places : Go(f, place) => typed
  BY GoMoves
<1>2. \A kind : \A place \in Places : \A what \in Payments \cup Notes \cup Flows \cup {None} :
        Start(f, kind, what, place) => typed
  BY StartBegins
<1>3. /\ {"allowance", "approve", "submitDeposit", "depositReceipt", "proofs", "ensure", "load",
          "prove", "submitWithdrawal", "withdrawalReceipt", "destroy"} \subseteq Places
      /\ Ended \subseteq Places /\ Ended = {"done", "failed", "lost"}
      /\ {backend, None} \subseteq Payments \cup Notes \cup Flows \cup {None}
  BY DEF Places, Ended, TypeOK
<1> HIDE DEF typed
<1>4. ASSUME NEW p \in Payments, StartDeposit(f, p)
      PROVE  typed
  BY <1>2, <1>3, <1>4 DEF StartDeposit
<1>5. ASSUME NEW note \in Notes, StartWithdrawal(f, note)
      PROVE  typed
  BY <1>2, <1>3, <1>5 DEF StartWithdrawal
<1>6. Preload(f) \/ Dispose(f) => typed
  BY <1>2, <1>3 DEF Preload, Dispose
<1>7. \A place \in Places : Fail(f, place) => typed
  BY <1>1 DEF Fail
<1>8. Proceed(f) => typed
  BY <1>1, <1>3 DEF Proceed
<1>9. Step(f) => typed
  <2>1. CheckAllowance(f) \/ Approve(f) \/ FinishDeposit(f) \/ FetchProofs(f) => typed
    BY <1>1, <1>3 DEF CheckAllowance, Approve, FinishDeposit, FetchProofs
  <2>2. SubmitDeposit(f) \/ SubmitWithdrawal(f) \/ GenerateProof(f) => typed
    BY <1>1, <1>3, <1>7 DEF SubmitDeposit, Reverted, SubmitWithdrawal, GenerateProof
  <2>3. EnsureProverReady(f) \/ InitProver(f) => typed
    BY <1>1, <1>3, <1>8 DEF EnsureProverReady, InitProver
  <2>4. FinishWithdrawal(f) \/ Destroyed(f) => typed
    BY <1>1, <1>3 DEF FinishWithdrawal, Destroyed
  <2> QED
    BY <2>1, <2>2, <2>3, <2>4 DEF Step
<1>10. Abort(f) => typed
  BY <1>3, <1>7 DEF Abort
<1>11. typed
  BY <1>4, <1>5, <1>6, <1>9, <1>10 DEF Acts
<1> QED
  BY <1>11 DEF typed

LEMMA AmountType ==
  ASSUME FlowsOK, NEW f \in Flows, Deposit(f)
  PROVE  Amount(f) \in Nat \ {0}
BY FlowsAssumption DEF FlowsOK, Amount, Deposit

LEMMA FlowsNext ==
  ASSUME TypeOK, FlowsOK, [Next]_vars
  PROVE  FlowsOK'
<1>0. \A f \in Flows : FlowOK(f)
  BY DEF FlowsOK, FlowOK, Deposit, Withdrawal
<1>1. ASSUME NEW f \in Flows, NEW place, Moved(f, place), view' = view, Placed(flow[f].kind, place)
      PROVE  FlowsOK'
  BY <1>0, <1>1 DEF FlowsOK, FlowOK, Deposit, Withdrawal, Moved, Others
<1>2. ASSUME NEW f \in Flows, NEW kind, NEW what, NEW place, Begun(f, kind, what, place),
             view' = view, Placed(kind, place), kind = "deposit" => what \in Payments,
             kind = "withdraw" => what \in Notes
      PROVE  FlowsOK'
  BY <1>0, <1>2 DEF FlowsOK, FlowOK, Deposit, Withdrawal, Begun, Others, TypeOK
<1>3. ASSUME NEW f \in Flows, Acts(f)
      PROVE  FlowsOK'
  <2>0. Placed(flow[f].kind, flow[f].at)
    BY <1>0 DEF FlowOK
  <2>1. view' = view
    BY <1>3 DEF Acts, StartDeposit, StartWithdrawal, Preload, Dispose, Step, Abort, CheckAllowance,
         Approve, SubmitDeposit, FinishDeposit, FetchProofs, SubmitWithdrawal, FinishWithdrawal,
         EnsureProverReady, InitProver, GenerateProof, Destroyed, Reverted, Fail, page
  <2>2. CASE \E p \in Payments : StartDeposit(f, p)
    BY <1>2, <2>1, <2>2, BeginMoves DEF Placed, DepositPlaces
  <2>3. CASE \E note \in Notes : StartWithdrawal(f, note)
    BY <1>2, <2>1, <2>3, BeginMoves DEF Placed, WithdrawalPlaces
  <2>4. CASE Preload(f) \/ Dispose(f)
    BY <1>2, <2>1, <2>4, BeginMoves DEF Placed
  <2>5. CASE CheckAllowance(f) \/ Approve(f) \/ SubmitDeposit(f) \/ FinishDeposit(f)
    BY <1>1, <2>0, <2>1, <2>5, StepMoves DEF Placed, At, DepositPlaces, WithdrawalPlaces, Ended
  <2>6. CASE FetchProofs(f) \/ SubmitWithdrawal(f) \/ FinishWithdrawal(f) \/ GenerateProof(f)
    BY <1>1, <2>0, <2>1, <2>6, StepMoves DEF Placed, At, DepositPlaces, WithdrawalPlaces, Ended
  <2>7. CASE EnsureProverReady(f) \/ InitProver(f) \/ Destroyed(f)
    BY <1>1, <2>0, <2>1, <2>7, StepMoves
    DEF Placed, At, DepositPlaces, WithdrawalPlaces, Ended, Withdrawal
  <2>8. CASE Abort(f)
    BY <1>1, <2>0, <2>1, <2>8, StepMoves
    DEF Placed, At, DepositPlaces, WithdrawalPlaces, Ended, Running
  <2> QED
    BY <1>3, <2>2, <2>3, <2>4, <2>5, <2>6, <2>7, <2>8 DEF Acts, Step
<1>4. CASE ViewActs
  BY <1>4 DEF FlowsOK, ViewActs, StartScan, FilterSpent, FinishScan, FailScan, CloseProgress,
       CloseAnnouncement
<1>5. CASE Remount
  BY <1>5, FlowsAssumption DEF FlowsOK, Remount, TypeOK
<1>6. CASE UNCHANGED vars
  BY <1>6 DEF FlowsOK, vars, page
<1> QED
  BY <1>3, <1>4, <1>5, <1>6, NextSplits

LEMMA TypeNext ==
  ASSUME TypeOK, FlowsOK, [Next]_vars
  PROVE  TypeOK'
<1>1. flow' \in [Flows -> FlowType]
  <2>1. flow \in [Flows -> FlowType]
    BY DEF TypeOK, FlowType
  <2>2. CASE ViewActs \/ Remount \/ UNCHANGED vars
    BY <2>1, <2>2 DEF ViewActs, StartScan, FilterSpent, FinishScan, FailScan, CloseProgress,
         CloseAnnouncement, Remount, vars
  <2> QED
    BY <2>2, FlowsTyped, NextSplits
<1>2. balance' \in Nat /\ allowance' \in Nat /\ leaves' \in Seq(Flows)
  <2>0. balance \in Nat /\ allowance \in Nat /\ leaves \in Seq(Flows)
    BY DEF TypeOK
  <2>1. ASSUME NEW f \in Flows, SubmitDeposit(f)
        PROVE  balance' \in Nat /\ allowance' \in Nat /\ leaves' \in Seq(Flows)
    <3>1. Amount(f) \in Nat
      BY <2>1, AmountType DEF SubmitDeposit, At, FlowsOK, Placed, Deposit, WithdrawalPlaces, Ended
    <3>2. CASE Covered(f)
      BY <2>0, <2>1, <3>1, <3>2 DEF SubmitDeposit, Covered
    <3>3. CASE ~Covered(f)
      BY <2>0, <2>1, <3>3 DEF SubmitDeposit
    <3> QED
      BY <3>2, <3>3
  <2>2. ASSUME NEW f \in Flows, Approve(f)
        PROVE  balance' \in Nat /\ allowance' \in Nat /\ leaves' \in Seq(Flows)
    <3>1. Amount(f) \in Nat
      BY <2>2, AmountType DEF Approve, At, FlowsOK, Placed, Deposit, WithdrawalPlaces, Ended
    <3> QED
      BY <2>0, <2>2, <3>1 DEF Approve, Approved
  <2>3. ASSUME NEW f \in Flows, Acts(f), ~SubmitDeposit(f), ~Approve(f)
        PROVE  UNCHANGED <<balance, allowance, leaves>>
    BY <2>3 DEF Acts, StartDeposit, StartWithdrawal, Preload, Dispose, Step, Abort, CheckAllowance,
         FinishDeposit, FetchProofs, SubmitWithdrawal, FinishWithdrawal,
         EnsureProverReady, InitProver, GenerateProof, Destroyed, chain
  <2>4. CASE ViewActs \/ Remount \/ UNCHANGED vars
    BY <2>0, <2>4 DEF ViewActs, StartScan, FilterSpent, FinishScan, FailScan, CloseProgress,
         CloseAnnouncement, Remount, vars, chain
  <2> QED
    BY <2>0, <2>1, <2>2, <2>3, <2>4, NextSplits
<1>3. spent' \cup offered' \cup withdrawn' \subseteq Notes
  <2>0. /\ spent \cup offered \cup withdrawn \subseteq Notes
        /\ scan.found \subseteq Notes
    BY DEF TypeOK
  <2>1. ASSUME NEW f \in Flows, SubmitWithdrawal(f) \/ FinishWithdrawal(f)
        PROVE  spent' \cup offered' \cup withdrawn' \subseteq Notes
    <3>1. flow[f].what \in Notes
      BY <2>1 DEF SubmitWithdrawal, FinishWithdrawal, At, FlowsOK, Placed, DepositPlaces, Ended
    <3> QED
      BY <2>0, <2>1, <3>1
      DEF SubmitWithdrawal, FinishWithdrawal, MarkWithdrawn, Fail, page, list, chain
  <2>2. ASSUME NEW f \in Flows, Acts(f), ~SubmitWithdrawal(f), ~FinishWithdrawal(f)
        PROVE  UNCHANGED <<spent, offered, withdrawn>>
    BY <2>2 DEF Acts, StartDeposit, StartWithdrawal, Preload, Dispose, Step, Abort, CheckAllowance,
         Approve, SubmitDeposit, FinishDeposit, FetchProofs, Reverted, Fail,
         EnsureProverReady, InitProver, GenerateProof, Destroyed, chain, page, list
  <2>3. CASE ViewActs \/ Remount \/ UNCHANGED vars
    BY <2>0, <2>3 DEF ViewActs, StartScan, FilterSpent, FinishScan, FailScan, CloseProgress,
         CloseAnnouncement, Remount, vars, chain, page, list
  <2>4. CASE \E f \in Flows : Acts(f)
    BY <2>0, <2>1, <2>2, <2>4
  <2> QED
    BY <2>3, <2>4, NextSplits
<1>4. scan' \in [at : {"no", "nullifiers", "answer"}, found : SUBSET Notes]
  <2>0. scan \in [at : {"no", "nullifiers", "answer"}, found : SUBSET Notes]
    BY DEF TypeOK
  <2>1. NoScan \in [at : {"no", "nullifiers", "answer"}, found : SUBSET Notes]
    BY DEF NoScan
  <2>2. ASSUME NEW f \in Flows, Acts(f)
        PROVE  scan' = scan
    BY <2>2 DEF Acts, StartDeposit, StartWithdrawal, Preload, Dispose, Step, Abort, CheckAllowance,
         Approve, SubmitDeposit, FinishDeposit, FetchProofs, SubmitWithdrawal, FinishWithdrawal,
         EnsureProverReady, InitProver, GenerateProof, Destroyed, Reverted, Fail, page, list
  <2>3. CASE StartScan
    BY <2>0, <2>3 DEF StartScan
  <2>4. CASE FilterSpent
    BY <2>4 DEF FilterSpent
  <2>5. CASE FinishScan \/ FailScan \/ Remount
    BY <2>1, <2>5 DEF FinishScan, FailScan, Remount
  <2>6. CASE CloseProgress \/ CloseAnnouncement \/ UNCHANGED vars
    BY <2>0, <2>6 DEF CloseProgress, CloseAnnouncement, vars, page, list
  <2> QED
    BY <2>0, <2>2, <2>3, <2>4, <2>5, <2>6, NextSplits DEF ViewActs
<1>5. view' \in 1 .. MaxViews /\ {sending', ready'} \subseteq BOOLEAN
  <2>0. view \in 1 .. MaxViews /\ sending \in BOOLEAN /\ ready \in BOOLEAN
    BY DEF TypeOK
  <2>1. ASSUME NEW f \in Flows, Acts(f)
        PROVE  view' = view
    BY <2>1 DEF Acts, StartDeposit, StartWithdrawal, Preload, Dispose, Step, Abort, CheckAllowance,
         Approve, SubmitDeposit, FinishDeposit, FetchProofs, SubmitWithdrawal, FinishWithdrawal,
         EnsureProverReady, InitProver, GenerateProof, Destroyed, Reverted, Fail, page
  <2>2. ASSUME NEW f \in Flows, Acts(f)
        PROVE  sending' \in BOOLEAN
    BY <2>0, <2>2 DEF Acts, StartDeposit, StartWithdrawal, Preload, Dispose, Step, Abort,
         CheckAllowance, Approve, SubmitDeposit, FinishDeposit, FetchProofs, SubmitWithdrawal,
         FinishWithdrawal, EnsureProverReady, InitProver, GenerateProof, Destroyed, Reverted, Fail,
         Unlock, Send, page
  <2>3. ASSUME NEW f \in Flows, Acts(f)
        PROVE  ready' \in BOOLEAN
    BY <2>0, <2>3 DEF Acts, StartDeposit, StartWithdrawal, Preload, Dispose, Step, Abort,
         CheckAllowance, Approve, SubmitDeposit, FinishDeposit, FetchProofs, SubmitWithdrawal,
         FinishWithdrawal, EnsureProverReady, InitProver, GenerateProof, Destroyed, ReadyLater, prover
  <2>4. CASE ViewActs \/ UNCHANGED vars
    BY <2>0, <2>4 DEF ViewActs, StartScan, FilterSpent, FinishScan, FailScan,
         CloseProgress, CloseAnnouncement, vars, prover, page
  <2>5. CASE Remount
    <3>1. MaxViews \in Nat
      BY FlowsAssumption
    <3>2. view' \in 1 .. MaxViews
      BY <2>0, <2>5, <3>1 DEF Remount
    <3> QED
      BY <2>0, <2>5, <3>2 DEF Remount, prover
  <2>6. CASE \E f \in Flows : Acts(f)
    BY <2>0, <2>1, <2>2, <2>3, <2>6
  <2> QED
    BY <2>4, <2>5, <2>6, NextSplits
<1>6. /\ dialog' \in [is : {"closed", "running", "failed", "complete"}, of : Flows \cup {None}]
      /\ announced' \in Flows \cup {None}
  <2>0. /\ dialog \in [is : {"closed", "running", "failed", "complete"}, of : Flows \cup {None}]
        /\ announced \in Flows \cup {None}
    BY DEF TypeOK
  <2>1. ASSUME NEW f \in Flows, Acts(f)
        PROVE  dialog' \in [is : {"closed", "running", "failed", "complete"}, of : Flows \cup {None}]
    BY <2>0, <2>1 DEF Acts, StartDeposit, StartWithdrawal, Preload, Dispose, Step, Abort,
         CheckAllowance, Approve, SubmitDeposit, FinishDeposit, FetchProofs, SubmitWithdrawal,
         FinishWithdrawal, EnsureProverReady, InitProver, GenerateProof, Destroyed, Reverted, Fail,
         Unlock, page, dialogs
  <2>2. ASSUME NEW f \in Flows, Acts(f)
        PROVE  announced' \in Flows \cup {None}
    BY <2>0, <2>2 DEF Acts, StartDeposit, StartWithdrawal, Preload, Dispose, Step, Abort,
         CheckAllowance, Approve, SubmitDeposit, FinishDeposit, FetchProofs, SubmitWithdrawal,
         FinishWithdrawal, EnsureProverReady, InitProver, GenerateProof, Destroyed, Reverted, Fail,
         page, dialogs
  <2>3. CASE ViewActs \/ Remount \/ UNCHANGED vars
    BY <2>0, <2>3 DEF ViewActs, StartScan, FilterSpent, FinishScan, FailScan,
         CloseProgress, CloseAnnouncement, Closed, Remount, vars, dialogs, page
  <2> QED
    BY <2>1, <2>2, <2>3, NextSplits
<1>7. backend' \in Flows \cup {None} /\ provers' \subseteq Flows
  <2>0. backend \in Flows \cup {None} /\ provers \subseteq Flows
    BY DEF TypeOK
  <2>1. ASSUME NEW f \in Flows, Acts(f)
        PROVE  backend' \in Flows \cup {None} /\ provers' \subseteq Flows
    BY <2>0, <2>1 DEF Acts, StartDeposit, StartWithdrawal, Preload, Dispose, Step, Abort,
         CheckAllowance, Approve, SubmitDeposit, FinishDeposit, FetchProofs, SubmitWithdrawal,
         FinishWithdrawal, EnsureProverReady, InitProver, GenerateProof, Destroyed, prover
  <2>2. CASE ViewActs \/ Remount \/ UNCHANGED vars
    BY <2>0, <2>2 DEF ViewActs, StartScan, FilterSpent, FinishScan, FailScan,
         CloseProgress, CloseAnnouncement, Remount, vars, prover
  <2> QED
    BY <2>1, <2>2, NextSplits
<1> QED
  BY <1>1, <1>2, <1>3, <1>4, <1>5, <1>6, <1>7 DEF TypeOK, FlowType

-----------------------------------------------------------------------------
\* The prover.

\* Most steps leave the prover alone and bring no flow to it.
LEMMA OthersLeaveProver ==
  ASSUME TypeOK, FlowsOK, ProverReadyMeansLoaded, NEW f \in Flows, NEW place,
         Moved(f, place), flow[f].kind # "dispose", UNCHANGED prover,
         place = "prove" => backend # None \/ Disposing
  PROVE  ProverReadyMeansLoaded'
<1>1. \A g \in Flows : flow'[g].kind = flow[g].kind
  BY DEF Moved, Others
<1>2. \A g \in Flows : g # f => flow'[g] = flow[g]
  BY DEF Moved, Others
<1>3. \A g \in Flows : At(g, "destroy") => flow[g].kind = "dispose"
  BY DEF FlowsOK, Placed, At, DepositPlaces, WithdrawalPlaces, Ended
<1>4. Disposing => Disposing'
  BY <1>2, <1>3 DEF Disposing, At
<1>5. ready' => backend' # None \/ Disposing'
  BY <1>4 DEF ProverReadyMeansLoaded, prover
<1>6. ASSUME NEW g \in Flows, At(g, "prove")'
      PROVE  backend' # None \/ \E h \in Flows : flow'[h].kind = "dispose"
  <2>1. CASE At(g, "prove")
    BY <1>1, <2>1 DEF ProverReadyMeansLoaded, prover
  <2>2. CASE ~At(g, "prove")
    BY <1>1, <1>2, <1>3, <1>6, <2>2 DEF Moved, At, prover, Disposing
  <2> QED
    BY <2>1, <2>2
<1> QED
  BY <1>5, <1>6 DEF ProverReadyMeansLoaded

LEMMA ProverNext ==
  ASSUME TypeOK, FlowsOK, ProverReadyMeansLoaded, [Next]_vars
  PROVE  ProverReadyMeansLoaded'
<1>0. \A g \in Flows : At(g, "destroy") => flow[g].kind = "dispose"
  BY DEF FlowsOK, Placed, At, DepositPlaces, WithdrawalPlaces, Ended
<1>1. ASSUME NEW f \in Flows, NEW kind, NEW what, NEW place, Begun(f, kind, what, place),
             kind # "dispose", place # "prove", UNCHANGED prover
      PROVE  ProverReadyMeansLoaded'
  <2>1. \A g \in Flows : g # f => flow'[g] = flow[g]
    BY <1>1 DEF Begun, Others
  <2>2. ~At(f, "destroy") /\ flow[f].kind # "dispose"
    BY <1>1 DEF Begun, At, FlowsOK, Placed, Ended
  <2>3. Disposing => Disposing'
    BY <2>1, <2>2 DEF Disposing, At
  <2> QED
    BY <1>1, <2>1, <2>2, <2>3 DEF ProverReadyMeansLoaded, At, Begun, prover
<1>2. ASSUME NEW f \in Flows, \/ \E p \in Payments : StartDeposit(f, p)
                              \/ \E note \in Notes : StartWithdrawal(f, note)
                              \/ Preload(f)
      PROVE  ProverReadyMeansLoaded'
  BY <1>1, <1>2, BeginMoves DEF StartDeposit, StartWithdrawal, Preload
<1>3. ASSUME NEW f \in Flows, Dispose(f)
      PROVE  ProverReadyMeansLoaded'
  <2>1. ready' => At(f, "destroy")'
    BY <1>3, BeginMoves DEF Dispose, ProverReadyMeansLoaded, Begun, At
  <2>2. flow'[f].kind = "dispose"
    BY <1>3, BeginMoves DEF Begun
  <2> QED
    BY <2>1, <2>2 DEF ProverReadyMeansLoaded, Disposing
<1>4. ASSUME NEW f \in Flows,
             \/ CheckAllowance(f) \/ Approve(f) \/ SubmitDeposit(f) \/ FinishDeposit(f)
             \/ FetchProofs(f) \/ SubmitWithdrawal(f) \/ FinishWithdrawal(f) \/ GenerateProof(f)
             \/ Abort(f)
      PROVE  ProverReadyMeansLoaded'
  <2>1. flow[f].kind # "dispose"
    BY <1>4, StepMoves DEF At, FlowsOK, Placed, Ended
  <2>2. UNCHANGED prover
    BY <1>4 DEF CheckAllowance, Approve, SubmitDeposit, FinishDeposit, FetchProofs,
         SubmitWithdrawal, FinishWithdrawal, GenerateProof, Abort
  <2> QED
    BY <1>4, <2>1, <2>2, StepMoves, OthersLeaveProver
<1>5. ASSUME NEW f \in Flows, EnsureProverReady(f)
      PROVE  ProverReadyMeansLoaded'
  <2>1. flow[f].kind # "dispose"
    BY <1>5, StepMoves DEF At, FlowsOK, Placed, Ended
  <2>2. UNCHANGED prover
    BY <1>5 DEF EnsureProverReady, ReadyLater, prover
  <2>3. ready => backend # None \/ Disposing
    BY DEF ProverReadyMeansLoaded
  <2> QED
    BY <1>5, <2>1, <2>2, <2>3, StepMoves, OthersLeaveProver
<1>6. ASSUME NEW f \in Flows, InitProver(f)
      PROVE  ProverReadyMeansLoaded'
  BY <1>6, FlowsAssumption DEF InitProver, ProverReadyMeansLoaded
<1>7. ASSUME NEW f \in Flows, Destroyed(f)
      PROVE  ProverReadyMeansLoaded'
  <2>1. ready' = FALSE /\ backend' = backend
    BY <1>7 DEF Destroyed
  <2>2. /\ \A g \in Flows : flow'[g].kind = flow[g].kind
        /\ \A g \in Flows : At(g, "prove")' => At(g, "prove")
    BY <1>7, StepMoves DEF Moved, Others, At
  <2> QED
    BY <2>1, <2>2 DEF ProverReadyMeansLoaded
<1>8. CASE ViewActs \/ Remount \/ UNCHANGED vars
  BY <1>8 DEF ViewActs, StartScan, FilterSpent, FinishScan, FailScan, CloseProgress,
       CloseAnnouncement, Remount, vars, prover, ProverReadyMeansLoaded, Disposing, At
<1> QED
  BY <1>2, <1>3, <1>4, <1>5, <1>6, <1>7, <1>8, NextSplits DEF Acts, Step

-----------------------------------------------------------------------------
\* The approval.

LEMMA OthersLeaveApproval ==
  ASSUME ApprovalOK, NEW f \in Flows, NEW place, Moved(f, place), allowance' = allowance,
         ~At(f, "failed"), At(f, "submitDeposit") => place = "failed"
  PROVE  ApprovalOK'
<1>1. \A g \in Flows : /\ flow'[g].kind = flow[g].kind /\ flow'[g].what = flow[g].what
                       /\ g # f => flow'[g].at = flow[g].at
  BY DEF Moved, Others
<1>2. flow'[f].at = place
  BY DEF Moved
<1>3. CASE allowance = 0
  BY <1>3 DEF ApprovalOK
<1>4. ASSUME NEW g \in Flows, Deposit(g), At(g, "failed")
      PROVE  ApprovalOK'
  BY <1>1, <1>4 DEF ApprovalOK, Deposit, At
<1>5. ASSUME NEW g \in Flows, Deposit(g), At(g, "submitDeposit"), allowance <= Amount(g)
      PROVE  ApprovalOK'
  BY <1>1, <1>2, <1>5 DEF ApprovalOK, Deposit, At, Amount
<1> QED
  BY <1>3, <1>4, <1>5 DEF ApprovalOK

LEMMA ApprovalNext ==
  ASSUME TypeOK, FlowsOK, ApprovalOK, [Next]_vars
  PROVE  ApprovalOK'
<1>0. allowance \in Nat
  BY DEF TypeOK
<1>1. ASSUME NEW f \in Flows, NEW kind, NEW what, NEW place, Begun(f, kind, what, place),
             allowance' = allowance
      PROVE  ApprovalOK'
  <2>1. \A g \in Flows : Deposit(g) => flow'[g] = flow[g]
    BY <1>1 DEF Begun, Others, At, FlowsOK, Placed, Deposit, DepositPlaces, Ended
  <2> QED
    BY <1>1, <2>1 DEF ApprovalOK, Deposit, At, Amount
<1>2. ASSUME NEW f \in Flows, \/ \E p \in Payments : StartDeposit(f, p)
                              \/ \E note \in Notes : StartWithdrawal(f, note)
                              \/ Preload(f) \/ Dispose(f)
      PROVE  ApprovalOK'
  BY <1>1, <1>2, BeginMoves DEF StartDeposit, StartWithdrawal, Preload, Dispose, chain
<1>3. ASSUME NEW f \in Flows,
             \/ CheckAllowance(f) \/ FinishDeposit(f) \/ FetchProofs(f) \/ SubmitWithdrawal(f)
             \/ FinishWithdrawal(f) \/ GenerateProof(f) \/ EnsureProverReady(f) \/ InitProver(f)
             \/ Destroyed(f) \/ Abort(f)
      PROVE  ApprovalOK'
  <2>1. allowance' = allowance
    BY <1>3 DEF CheckAllowance, FinishDeposit, FetchProofs, SubmitWithdrawal, FinishWithdrawal,
         GenerateProof, EnsureProverReady, InitProver, Destroyed, Abort, chain
  <2>2. /\ ~At(f, "failed")
        /\ At(f, "submitDeposit") => Abort(f)
    BY <1>3, StepMoves DEF At, Running, Ended
  <2>3. CASE Abort(f)
    BY <2>1, <2>2, <2>3, StepMoves, OthersLeaveApproval DEF At
  <2> QED
    BY <1>3, <2>1, <2>2, <2>3, StepMoves, OthersLeaveApproval
<1>4. ASSUME NEW f \in Flows, Approve(f)
      PROVE  ApprovalOK'
  <2>1. Deposit(f)
    BY <1>4, StepMoves DEF At, FlowsOK, Placed, WithdrawalPlaces, Ended, Deposit
  <2>2. Amount(f) \in Nat
    BY <2>1, AmountType
  <2> QED
    BY <1>4, <2>1, <2>2, StepMoves DEF Approve, Approved, ApprovalOK, Moved, Deposit, At, Amount
<1>5. ASSUME NEW f \in Flows, SubmitDeposit(f)
      PROVE  ApprovalOK'
  <2>1. Deposit(f) /\ At(f, "submitDeposit")
    BY <1>5, StepMoves DEF At, FlowsOK, Placed, WithdrawalPlaces, Ended, Deposit
  <2>2. CASE ~Covered(f)
    BY <1>5, <2>1, <2>2, StepMoves DEF ApprovalOK, Moved, Deposit, At
  <2>3. CASE Covered(f)
    <3>1. Amount(f) \in Nat /\ allowance >= Amount(f) /\ allowance' = allowance - Amount(f)
      BY <1>5, <2>1, <2>3, AmountType DEF SubmitDeposit, Covered
    <3>2. \A g \in Flows \ {f} : flow'[g] = flow[g]
      BY <1>5, StepMoves DEF Moved, Others
    <3>3. ASSUME NEW g \in Flows, Deposit(g), At(g, "submitDeposit"), allowance <= Amount(g)
          PROVE  ApprovalOK'
      <4>1. Amount(g) \in Nat
        BY <3>3, AmountType
      <4>2. CASE g = f
        BY <1>0, <3>1, <3>3, <4>2 DEF ApprovalOK
      <4>3. CASE g # f
        <5>1. flow'[g] = flow[g] /\ allowance' <= Amount(g)
          BY <1>0, <3>1, <3>2, <3>3, <4>1, <4>3
        <5> QED
          BY <3>3, <5>1 DEF ApprovalOK, Deposit, At, Amount
      <4> QED
        BY <4>2, <4>3
    <3>4. ASSUME NEW g \in Flows, Deposit(g), At(g, "failed")
          PROVE  ApprovalOK'
      BY <2>1, <3>2, <3>4 DEF ApprovalOK, Deposit, At
    <3>5. CASE allowance = 0
      BY <3>1, <3>5 DEF ApprovalOK
    <3> QED
      BY <3>3, <3>4, <3>5 DEF ApprovalOK
  <2> QED
    BY <2>2, <2>3
<1>6. CASE ViewActs \/ Remount \/ UNCHANGED vars
  BY <1>6 DEF ViewActs, StartScan, FilterSpent, FinishScan, FailScan, CloseProgress,
       CloseAnnouncement, Remount, vars, chain, ApprovalOK, Deposit, At, Amount
<1> QED
  BY <1>2, <1>3, <1>4, <1>5, <1>6, NextSplits DEF Acts, Step

-----------------------------------------------------------------------------
\* The notes withdrawn.

LEMMA WithdrawnNext ==
  ASSUME TypeOK, FlowsOK, WithdrawnOK, [Next]_vars
  PROVE  WithdrawnOK'
<1>1. ASSUME NEW f \in Flows, NEW kind, NEW what, NEW place, Begun(f, kind, what, place),
             kind = "withdraw" => place # "done", view' = view, withdrawn' = withdrawn
      PROVE  WithdrawnOK'
  BY <1>1 DEF WithdrawnOK, Begun, Others, At, Withdrawal
<1>2. ASSUME NEW f \in Flows, \/ \E p \in Payments : StartDeposit(f, p)
                              \/ \E note \in Notes : StartWithdrawal(f, note)
                              \/ Preload(f) \/ Dispose(f)
      PROVE  WithdrawnOK'
  BY <1>1, <1>2, BeginMoves DEF StartDeposit, StartWithdrawal, Preload, Dispose, page, list
<1>3. ASSUME NEW f \in Flows, NEW place, Moved(f, place), Withdrawal(f) => place # "done",
             view' = view, withdrawn' = withdrawn
      PROVE  WithdrawnOK'
  BY <1>3 DEF WithdrawnOK, Moved, Others, At, Withdrawal
<1>4. ASSUME NEW f \in Flows, Step(f) \/ Abort(f), ~FinishWithdrawal(f)
      PROVE  view' = view /\ withdrawn' = withdrawn
  BY <1>4 DEF Step, Abort, CheckAllowance, Approve, SubmitDeposit, FinishDeposit, FetchProofs,
       SubmitWithdrawal, EnsureProverReady, InitProver, GenerateProof, Destroyed, Reverted, Fail,
       page, list
<1>5. ASSUME NEW f \in Flows, Step(f) \/ Abort(f), ~FinishWithdrawal(f)
      PROVE  WithdrawnOK'
  <2>0. view' = view /\ withdrawn' = withdrawn
    BY <1>4, <1>5
  <2>1. CASE CheckAllowance(f) \/ Approve(f) \/ SubmitDeposit(f) \/ FetchProofs(f)
             \/ SubmitWithdrawal(f) \/ GenerateProof(f) \/ Abort(f)
    BY <1>3, <2>0, <2>1, StepMoves
  <2>2. CASE FinishDeposit(f) \/ Destroyed(f)
    <3>1. ~Withdrawal(f)
      BY <2>2, StepMoves DEF FlowsOK, Placed, At, WithdrawalPlaces, Ended, Withdrawal
    <3> QED
      BY <1>3, <2>0, <2>2, <3>1, StepMoves
  <2>3. CASE EnsureProverReady(f) \/ InitProver(f)
    BY <1>3, <2>0, <2>3, StepMoves
  <2> QED
    BY <1>5, <2>1, <2>2, <2>3 DEF Step
<1>6. ASSUME NEW f \in Flows, FinishWithdrawal(f)
      PROVE  WithdrawnOK'
  <2>1. /\ \A g \in Flows : g # f => flow'[g] = flow[g]
        /\ flow'[f].what = flow[f].what /\ flow'[f].view = flow[f].view
    BY <1>6, StepMoves DEF Moved, Others
  <2>2. /\ view' = view /\ withdrawn \subseteq withdrawn'
        /\ flow[f].view = view => flow[f].what \in withdrawn'
    BY <1>6 DEF FinishWithdrawal, MarkWithdrawn
  <2> QED
    BY <2>1, <2>2 DEF WithdrawnOK, At, Withdrawal
<1>7. CASE Remount
  BY <1>7 DEF Remount, WithdrawnOK, FlowsOK, TypeOK
<1>8. CASE ViewActs \/ UNCHANGED vars
  BY <1>8 DEF ViewActs, StartScan, FilterSpent, FinishScan, FailScan, CloseProgress,
       CloseAnnouncement, vars, page, list, WithdrawnOK, Withdrawal, At
<1> QED
  BY <1>2, <1>5, <1>6, <1>7, <1>8, NextSplits DEF Acts

-----------------------------------------------------------------------------
\* The chain.

LEMMA AppendLeaf ==
  ASSUME leaves \in Seq(Flows), NEW f \in Flows, leaves' = Append(leaves, f)
  PROVE  /\ DOMAIN leaves' = 1 .. (Len(leaves) + 1) /\ Len(leaves) \in Nat
         /\ DOMAIN leaves = 1 .. Len(leaves)
         /\ leaves'[Len(leaves) + 1] = f
         /\ \A i \in DOMAIN leaves : leaves'[i] = leaves[i]
         /\ \A g \in Flows : Contains(leaves, g)' <=> Contains(leaves, g) \/ g = f
<1>1. /\ DOMAIN leaves' = 1 .. (Len(leaves) + 1) /\ Len(leaves) \in Nat
      /\ DOMAIN leaves = 1 .. Len(leaves) /\ Len(leaves') = Len(leaves) + 1
      /\ leaves'[Len(leaves) + 1] = f
      /\ \A i \in DOMAIN leaves : leaves'[i] = leaves[i]
  OBVIOUS
<1>2. \A g \in Flows : Contains(leaves, g)' <=> Contains(leaves, g) \/ g = f
  BY <1>1 DEF Contains
<1> QED
  BY <1>1, <1>2

\* A step that mines nothing and moves no flow over the line.
LEMMA OthersLeaveChain ==
  ASSUME ChainOK, UNCHANGED <<leaves, spent>>,
         \A f \in Flows : Deposit(f)' /\ Mined(f)' <=> Deposit(f) /\ Mined(f),
         \A f \in Flows : Withdrawal(f)' /\ Mined(f)' <=> Withdrawal(f) /\ Mined(f),
         \A f \in Flows : Mined(f) /\ Withdrawal(f) => flow'[f].what = flow[f].what
  PROVE  ChainOK'
<1>1. LeavesOK'
  BY DEF ChainOK, LeavesOK, Contains, SpentOK
<1>2. SpentOK'
  BY DEF ChainOK, SpentOK, LeavesOK
<1> QED
  BY <1>1, <1>2 DEF ChainOK, LeavesOK, SpentOK

LEMMA MovedOverNoLine ==
  ASSUME ChainOK, UNCHANGED <<leaves, spent>>, NEW f \in Flows, NEW place, Moved(f, place),
         Deposit(f) \/ Withdrawal(f) =>
           (Mined(f) <=> place \in {"depositReceipt", "withdrawalReceipt", "done", "lost"})
  PROVE  ChainOK'
<1>1. \A g \in Flows : /\ flow'[g].kind = flow[g].kind /\ flow'[g].what = flow[g].what
                       /\ g # f => flow'[g].at = flow[g].at
  BY DEF Moved, Others
<1>2. \A g \in Flows : (Deposit(g)' <=> Deposit(g)) /\ (Withdrawal(g)' <=> Withdrawal(g))
  BY <1>1 DEF Deposit, Withdrawal
<1>3. \A g \in Flows : g # f => (Mined(g)' <=> Mined(g))
  BY <1>1 DEF Mined
<1>4. Deposit(f) \/ Withdrawal(f) => (Mined(f)' <=> Mined(f))
  BY DEF Mined, Moved
<1> QED
  BY <1>1, <1>2, <1>3, <1>4, OthersLeaveChain

LEMMA ChainNext ==
  ASSUME TypeOK, FlowsOK, ChainOK, [Next]_vars
  PROVE  ChainOK'
<1>1. ASSUME NEW f \in Flows, NEW kind, NEW what, NEW place, Begun(f, kind, what, place),
             place \in {"done", "lost"} => kind \notin {"deposit", "withdraw"},
             place \notin {"depositReceipt", "withdrawalReceipt"},
             UNCHANGED <<leaves, spent>>
      PROVE  ChainOK'
  <2>1. \A g \in Flows : g # f => flow'[g] = flow[g]
    BY <1>1 DEF Begun, Others
  <2>2. ~Mined(f) /\ (Deposit(f)' \/ Withdrawal(f)' => ~Mined(f)')
    BY <1>1 DEF Begun, Mined, Deposit, Withdrawal, At
  <2> QED
    BY <1>1, <2>1, <2>2, OthersLeaveChain DEF Deposit, Withdrawal, Mined
<1>2. ASSUME NEW f \in Flows, \/ \E p \in Payments : StartDeposit(f, p)
                              \/ \E note \in Notes : StartWithdrawal(f, note)
                              \/ Preload(f) \/ Dispose(f)
      PROVE  ChainOK'
  BY <1>1, <1>2, BeginMoves DEF StartDeposit, StartWithdrawal, Preload, Dispose, chain
<1>3. ASSUME NEW f \in Flows,
             \/ CheckAllowance(f) \/ Approve(f) \/ FinishDeposit(f) \/ FetchProofs(f)
             \/ FinishWithdrawal(f) \/ GenerateProof(f) \/ Abort(f)
      PROVE  ChainOK'
  <2>1. UNCHANGED <<leaves, spent>>
    BY <1>3 DEF CheckAllowance, Approve, FinishDeposit, FetchProofs, FinishWithdrawal,
         GenerateProof, Abort, chain
  <2> QED
    BY <1>3, <2>1, StepMoves, MovedOverNoLine DEF At, Mined, Running, Ended
<1>4. ASSUME NEW f \in Flows, EnsureProverReady(f) \/ InitProver(f) \/ Destroyed(f)
      PROVE  ChainOK'
  <2>1. UNCHANGED <<leaves, spent>>
    BY <1>4 DEF EnsureProverReady, InitProver, Destroyed, chain
  <2>2. ~Deposit(f) /\ ~Mined(f) /\ (Destroyed(f) => ~Withdrawal(f))
    BY <1>4, StepMoves
    DEF At, Mined, FlowsOK, Placed, DepositPlaces, WithdrawalPlaces, Ended, Deposit, Withdrawal
  <2> QED
    BY <1>4, <2>1, <2>2, StepMoves, MovedOverNoLine
<1>5. ASSUME NEW f \in Flows, SubmitDeposit(f)
      PROVE  ChainOK'
  <2>0. Deposit(f) /\ ~Mined(f)
    BY <1>5, StepMoves DEF At, FlowsOK, Placed, WithdrawalPlaces, Ended, Deposit, Mined
  <2>1. CASE ~Covered(f)
    <3>1. UNCHANGED <<leaves, spent>> /\ Moved(f, "failed")
      BY <1>5, <2>1, StepMoves DEF SubmitDeposit
    <3> QED
      BY <2>0, <3>1, MovedOverNoLine
  <2>2. CASE Covered(f)
    <3>1. leaves' = Append(leaves, f) /\ spent' = spent /\ Moved(f, "depositReceipt")
      BY <1>5, <2>2, StepMoves DEF SubmitDeposit
    <3>2. leaves \in Seq(Flows)
      BY DEF TypeOK
    <3>3. \A g \in Flows : /\ flow'[g].kind = flow[g].kind /\ flow'[g].what = flow[g].what
                           /\ g # f => flow'[g].at = flow[g].at
      BY <3>1 DEF Moved, Others
    <3>4. /\ \A g \in Flows : (Deposit(g)' <=> Deposit(g)) /\ (Withdrawal(g)' <=> Withdrawal(g))
          /\ \A g \in Flows : g # f => (Mined(g)' <=> Mined(g))
          /\ Mined(f)' /\ ~Withdrawal(f)
      BY <2>0, <3>1, <3>3 DEF Deposit, Withdrawal, Mined, Moved
    <3>5. \A g \in Flows : Contains(leaves, g)' <=> Contains(leaves, g) \/ g = f
      BY <3>1, <3>2, AppendLeaf
    <3>6. ~Contains(leaves, f)
      BY <2>0 DEF ChainOK, LeavesOK, SpentOK
    <3>7. \A i, j \in DOMAIN leaves' : leaves'[i] = leaves'[j] => i = j
      <4>1. \A i \in DOMAIN leaves : leaves[i] # f
        BY <3>2, <3>6 DEF Contains
      <4>2. \A i \in DOMAIN leaves' : i \in DOMAIN leaves \/ i = Len(leaves) + 1
        BY <3>1, <3>2, AppendLeaf
      <4>3. \A i, j \in DOMAIN leaves : leaves[i] = leaves[j] => i = j
        BY DEF ChainOK, LeavesOK, SpentOK
      <4> QED
        BY <3>1, <3>2, <4>1, <4>2, <4>3, AppendLeaf
    <3>8. \A g \in Flows : Contains(leaves, g)' <=> Deposit(g)' /\ Mined(g)'
      BY <2>0, <3>4, <3>5 DEF ChainOK, LeavesOK, SpentOK
    <3>9. SpentOK'
      BY <2>0, <3>1, <3>3, <3>4 DEF SpentOK, ChainOK, LeavesOK
    <3> QED
      BY <3>7, <3>8, <3>9 DEF ChainOK, SpentOK, LeavesOK
  <2> QED
    BY <2>1, <2>2
<1>6. ASSUME NEW f \in Flows, SubmitWithdrawal(f)
      PROVE  ChainOK'
  <2>0. Withdrawal(f) /\ ~Mined(f) /\ leaves' = leaves
    BY <1>6, StepMoves
    DEF SubmitWithdrawal, At, FlowsOK, Placed, DepositPlaces, Ended, Withdrawal, Mined
  <2>1. CASE flow[f].what \in spent
    <3>1. spent' = spent /\ Moved(f, "failed")
      BY <1>6, <2>1, StepMoves DEF SubmitWithdrawal
    <3> QED
      BY <2>0, <3>1, MovedOverNoLine
  <2>2. CASE flow[f].what \notin spent
    <3>1. spent' = spent \cup {flow[f].what} /\ Moved(f, "withdrawalReceipt")
      BY <1>6, <2>2, StepMoves DEF SubmitWithdrawal
    <3>2. \A g \in Flows : /\ flow'[g].kind = flow[g].kind /\ flow'[g].what = flow[g].what
                           /\ g # f => flow'[g].at = flow[g].at
      BY <3>1 DEF Moved, Others
    <3>3. /\ \A g \in Flows : (Deposit(g)' <=> Deposit(g)) /\ (Withdrawal(g)' <=> Withdrawal(g))
          /\ \A g \in Flows : g # f => (Mined(g)' <=> Mined(g))
          /\ Mined(f)' /\ ~Deposit(f)
      BY <2>0, <3>1, <3>2 DEF Deposit, Withdrawal, Mined, Moved
    <3>4. SpentOK'
      <4>1. \A g \in Flows : Withdrawal(g)' /\ Mined(g)' => flow'[g].what \in spent'
        BY <3>1, <3>2, <3>3 DEF ChainOK, LeavesOK, SpentOK
      <4>2. ASSUME NEW note \in spent'
            PROVE  \E g \in Flows : Withdrawal(g)' /\ Mined(g)' /\ flow'[g].what = note
        BY <2>0, <3>1, <3>2, <3>3, <4>2 DEF ChainOK, LeavesOK, SpentOK
      <4> QED
        BY <4>1, <4>2 DEF SpentOK
    <3>5. LeavesOK'
      BY <2>0, <3>3 DEF ChainOK, LeavesOK, Contains, SpentOK
    <3> QED
      BY <3>4, <3>5 DEF ChainOK, LeavesOK, SpentOK
  <2> QED
    BY <2>1, <2>2
<1>7. CASE ViewActs \/ Remount \/ UNCHANGED vars
  <2>1. UNCHANGED <<leaves, spent, flow>>
    BY <1>7 DEF ViewActs, StartScan, FilterSpent, FinishScan, FailScan, CloseProgress,
         CloseAnnouncement, Remount, vars, chain
  <2> QED
    BY <2>1 DEF ChainOK, Contains, Deposit, Withdrawal, Mined, LeavesOK, SpentOK
<1> QED
  BY <1>2, <1>3, <1>4, <1>5, <1>6, <1>7, NextSplits DEF Acts, Step

-----------------------------------------------------------------------------
\* The payments.

\* Every step of a flow takes it from where it runs, and unlocks the button of
\* the view only when the flow has ended.
LEMMA StepEnds ==
  ASSUME TypeOK, NEW f \in Flows, Step(f) \/ Abort(f)
  PROVE  \E place :
           /\ Moved(f, place) /\ Running(f) /\ view' = view
           /\ \/ UNCHANGED <<sending, dialogs>>
              \/ /\ place \in Ended
                 /\ \/ Unlock(f, "failed") /\ announced' = announced
                    \/ place = "done" /\ Unlock(f, "complete")
                       /\ announced' \in {announced, f}
                       /\ (announced' = f => At(f, "depositReceipt") \/ announced = f)
                       /\ flow[f].at \in {"depositReceipt", "withdrawalReceipt"}
<1>1. CASE CheckAllowance(f) \/ Approve(f) \/ FetchProofs(f)
  BY <1>1, StepMoves
  DEF CheckAllowance, Approve, FetchProofs, page, dialogs, At, Running, Ended
<1>2. CASE EnsureProverReady(f) \/ InitProver(f) \/ Destroyed(f)
  <2>1. Running(f) /\ view' = view /\ UNCHANGED <<sending, dialogs>>
    BY <1>2, StepMoves
    DEF EnsureProverReady, InitProver, Destroyed, page, dialogs, At, Running, Ended
  <2>2. \E place : Moved(f, place)
    BY <1>2, StepMoves
  <2> QED
    BY <2>1, <2>2
<1>3. CASE SubmitDeposit(f) \/ SubmitWithdrawal(f) \/ GenerateProof(f)
  <2>1. Running(f) /\ view' = view
    BY <1>3, StepMoves DEF SubmitDeposit, SubmitWithdrawal, GenerateProof, Reverted, Fail, page,
         At, Running, Ended
  <2>2. CASE Moved(f, "failed") /\ Fail(f, "failed")
    BY <2>1, <2>2 DEF Fail, Ended
  <2>3. CASE UNCHANGED page
    <3>1. \E place : Moved(f, place)
      BY <1>3, StepMoves
    <3> QED
      BY <2>1, <2>3, <3>1 DEF page, dialogs
  <2>4. UNCHANGED page \/ Fail(f, "failed")
    BY <1>3 DEF SubmitDeposit, SubmitWithdrawal, GenerateProof, Reverted
  <2>5. Fail(f, "failed") => Moved(f, "failed")
    BY GoMoves DEF Fail, Places, Ended
  <2> QED
    BY <2>2, <2>3, <2>4, <2>5
<1>4. CASE FinishDeposit(f)
  BY <1>4, StepMoves DEF FinishDeposit, At, Running, Ended
<1>5. CASE FinishWithdrawal(f)
  BY <1>5, StepMoves DEF FinishWithdrawal, At, Running, Ended
<1>6. CASE Abort(f)
  BY <1>6, StepMoves DEF Abort, Fail, Ended
<1> QED
  BY <1>1, <1>2, <1>3, <1>4, <1>5, <1>6 DEF Step

LEMMA PaymentsNext ==
  ASSUME TypeOK, FlowsOK, PaymentsOK, [Next]_vars
  PROVE  PaymentsOK'
<1>1. ASSUME NEW f \in Flows, NEW place, Moved(f, place), Running(f), view' = view,
             \/ sending' = sending
             \/ place \in Ended /\ sending' = (sending /\ ~ShownHere(f, "deposit"))
      PROVE  PaymentsOK'
  <2>1. \A g \in Flows : /\ flow'[g].kind = flow[g].kind /\ flow'[g].what = flow[g].what
                         /\ flow'[g].view = flow[g].view
                         /\ g # f => flow'[g].at = flow[g].at
    BY <1>1 DEF Moved, Others
  <2>2. \A g \in Flows : /\ Running(g)' => Running(g)
                         /\ Live(g)' => Live(g)
                         /\ Deposit(g)' => Deposit(g)
    BY <1>1, <2>1 DEF Live, Running, At, Deposit
  <2>3. \A g, h \in Flows :
          Deposit(g)' /\ Deposit(h)' /\ Running(g)' /\ Running(h)' /\ flow'[g].view = flow'[h].view =>
            g = h
    BY <2>1, <2>2 DEF PaymentsOK
  <2>4. \A g, h \in Flows :
          Deposit(g)' /\ Deposit(h)' /\ Live(g)' /\ Live(h)'
          /\ flow'[g].view = flow'[h].view /\ flow'[g].what = flow'[h].what =>
            g = h
    BY <2>1, <2>2 DEF PaymentsOK
  <2>5. ASSUME NEW g \in Flows, Deposit(g)', Running(g)', flow'[g].view = view'
        PROVE  sending'
    <3>1. Deposit(g) /\ Running(g) /\ flow[g].view = view /\ sending
      BY <1>1, <2>1, <2>2, <2>5 DEF PaymentsOK
    <3>2. place \in Ended => g # f
      BY <1>1, <2>5 DEF Moved, Running
    <3>3. g # f => ~ShownHere(f, "deposit")
      BY <1>1, <3>1 DEF PaymentsOK, ShownHere, Deposit
    <3> QED
      BY <1>1, <3>1, <3>2, <3>3
  <2> QED
    BY <2>3, <2>4, <2>5 DEF PaymentsOK
<1>2. ASSUME NEW f \in Flows, Step(f) \/ Abort(f)
      PROVE  PaymentsOK'
  BY <1>1, <1>2, StepEnds DEF Unlock
<1>3. ASSUME NEW f \in Flows, NEW kind, NEW what, NEW place, Begun(f, kind, what, place),
             kind # "deposit", view' = view, sending' = sending
      PROVE  PaymentsOK'
  <2>1. \A g \in Flows : Deposit(g)' => flow'[g] = flow[g]
    BY <1>3 DEF Begun, Others, Deposit
  <2> QED
    BY <1>3, <2>1 DEF PaymentsOK, Deposit, Running, Live, At
<1>4. ASSUME NEW f \in Flows, \/ \E note \in Notes : StartWithdrawal(f, note)
                              \/ Preload(f) \/ Dispose(f)
      PROVE  PaymentsOK'
  BY <1>3, <1>4, BeginMoves DEF StartWithdrawal, Preload, Dispose, page
<1>5. ASSUME NEW f \in Flows, NEW p \in Payments, StartDeposit(f, p)
      PROVE  PaymentsOK'
  <2>1. Begun(f, "deposit", p, "allowance") /\ view' = view /\ ~sending /\ sending' = TRUE
        /\ Unpaid(p)
    BY <1>5, BeginMoves DEF StartDeposit, Send
  <2>2. \A g \in Flows : g # f => flow'[g] = flow[g]
    BY <2>1 DEF Begun, Others
  <2>3. flow'[f].view = view /\ flow'[f].what = p
    BY <2>1 DEF Begun
  <2>4. \A g \in Flows : ~(Deposit(g) /\ Running(g) /\ flow[g].view = view)
    BY <2>1 DEF PaymentsOK
  <2>5. \A g \in Flows : ~(Deposit(g) /\ Live(g) /\ flow[g].view = view /\ flow[g].what = p)
    BY <2>1, <2>4 DEF Unpaid, Live
  <2>6. \A g \in Flows : g # f => /\ Deposit(g)' <=> Deposit(g)
                                  /\ Running(g)' <=> Running(g)
                                  /\ Live(g)' <=> Live(g)
    BY <2>2 DEF Deposit, Running, Live, At
  <2> QED
    BY <2>1, <2>2, <2>3, <2>4, <2>5, <2>6 DEF PaymentsOK
<1>6. CASE Remount
  <2>1. \A g \in Flows : flow'[g] = flow[g] /\ flow[g].view # view'
    BY <1>6 DEF Remount, FlowsOK, TypeOK
  <2> QED
    BY <2>1 DEF PaymentsOK, Deposit, Running, Live, At
<1>7. CASE ViewActs \/ UNCHANGED vars
  BY <1>7 DEF ViewActs, StartScan, FilterSpent, FinishScan, FailScan, CloseProgress,
       CloseAnnouncement, vars, page, PaymentsOK, Deposit, Running, Live, At
<1> QED
  BY <1>2, <1>4, <1>5, <1>6, <1>7, NextSplits DEF Acts

LEMMA PaidOnceNext ==
  ASSUME TypeOK, FlowsOK, ChainOK, PaymentsOK, PaidOnceUnlessUnseen, [Next]_vars
  PROVE  PaidOnceUnlessUnseen'
<1>0. leaves \in Seq(Flows) /\ \A i \in DOMAIN leaves : leaves[i] \in Flows
  BY DEF TypeOK
<1>1. ASSUME leaves' = leaves,
             \A g \in Flows : Contains(leaves, g) =>
               /\ flow'[g].what = flow[g].what /\ flow'[g].view = flow[g].view
               /\ At(g, "lost") => At(g, "lost")'
      PROVE  PaidOnceUnlessUnseen'
  <2>1. \A i \in DOMAIN leaves : Contains(leaves, leaves[i])
    BY <1>0 DEF Contains
  <2> QED
    BY <1>0, <1>1, <2>1 DEF PaidOnceUnlessUnseen, At
<1>2. ASSUME NEW f \in Flows, \/ \E p \in Payments : StartDeposit(f, p)
                              \/ \E note \in Notes : StartWithdrawal(f, note)
                              \/ Preload(f) \/ Dispose(f)
      PROVE  PaidOnceUnlessUnseen'
  <2>1. leaves' = leaves
    BY <1>2 DEF StartDeposit, StartWithdrawal, Preload, Dispose, chain
  <2>2. At(f, "free") /\ Others(f)
    BY <1>2, BeginMoves DEF Begun
  <2>3. ~Contains(leaves, f)
    BY <2>2 DEF ChainOK, Mined, At, LeavesOK, SpentOK
  <2> QED
    BY <1>1, <2>1, <2>2, <2>3 DEF Others, At
<1>3. ASSUME NEW f \in Flows, Step(f) \/ Abort(f), leaves' = leaves
      PROVE  PaidOnceUnlessUnseen'
  <2>1. PICK place : Moved(f, place) /\ Running(f)
    BY <1>3, StepEnds
  <2> QED
    BY <1>1, <1>3, <2>1 DEF Moved, Others, Running, At, Ended
<1>4. ASSUME NEW f \in Flows, Step(f) \/ Abort(f), leaves' # leaves
      PROVE  SubmitDeposit(f) /\ Covered(f)
  BY <1>4 DEF Step, Abort, CheckAllowance, Approve, SubmitDeposit, FinishDeposit, FetchProofs,
       SubmitWithdrawal, FinishWithdrawal, EnsureProverReady, InitProver, GenerateProof, Destroyed,
       chain
<1>5. ASSUME NEW f \in Flows, SubmitDeposit(f), Covered(f)
      PROVE  PaidOnceUnlessUnseen'
  <2>1. leaves' = Append(leaves, f) /\ Moved(f, "depositReceipt") /\ At(f, "submitDeposit")
    BY <1>5, StepMoves DEF SubmitDeposit
  <2>2. Deposit(f) /\ Live(f) /\ ~Mined(f) /\ Running(f)
    BY <2>1 DEF At, FlowsOK, Placed, WithdrawalPlaces, Ended, Deposit, Mined, Live, Running
  <2>3. \A g \in Flows : /\ flow'[g].what = flow[g].what /\ flow'[g].view = flow[g].view
                         /\ g # f => flow'[g].at = flow[g].at
    BY <2>1 DEF Moved, Others
  <2>4. \A i \in DOMAIN leaves : leaves[i] # f /\ Deposit(leaves[i]) /\ Mined(leaves[i])
    <3>1. \A i \in DOMAIN leaves : Contains(leaves, leaves[i])
      BY <1>0 DEF Contains
    <3> QED
      BY <1>0, <2>2, <3>1 DEF ChainOK, LeavesOK, SpentOK
  <2>5. \A i \in DOMAIN leaves : ~At(leaves[i], "lost") => Live(leaves[i])
    BY <1>0, <2>4 DEF Live, Running, Mined, At, Ended
  <2>6. ASSUME NEW i \in DOMAIN leaves, flow[leaves[i]].what = flow[f].what
        PROVE  \/ At(leaves[i], "lost")
               \/ flow[leaves[i]].view # flow[f].view
    BY <1>0, <2>2, <2>4, <2>5, <2>6 DEF PaymentsOK
  <2>7. \A g \in Flows : flow[g].view \in Nat
    BY DEF TypeOK
  <2>8. /\ DOMAIN leaves = 1 .. Len(leaves) /\ DOMAIN leaves' = 1 .. (Len(leaves) + 1)
        /\ Len(leaves) \in Nat
        /\ leaves'[Len(leaves) + 1] = f /\ \A i \in DOMAIN leaves : leaves'[i] = leaves[i]
    BY <1>0, <2>1, AppendLeaf
  <2>9. ASSUME NEW i \in DOMAIN leaves', NEW j \in DOMAIN leaves', i < j,
               flow'[leaves'[i]].what = flow'[leaves'[j]].what
        PROVE  \/ flow'[leaves'[i]].at = "lost"
               \/ flow'[leaves'[i]].view < flow'[leaves'[j]].view
               \/ flow'[leaves'[j]].view < flow'[leaves'[i]].view
    <3>1. i \in DOMAIN leaves /\ leaves'[i] = leaves[i] /\ leaves[i] \in Flows /\ leaves[i] # f
      BY <1>0, <2>4, <2>8, <2>9
    <3>2. CASE j \in DOMAIN leaves
      <4>1. leaves'[j] = leaves[j] /\ leaves[j] \in Flows /\ leaves[j] # f
        BY <1>0, <2>4, <2>8, <3>2
      <4> QED
        BY <2>3, <2>9, <3>1, <3>2, <4>1 DEF PaidOnceUnlessUnseen, At
    <3>3. CASE j \notin DOMAIN leaves
      <4>1. leaves'[j] = f
        BY <2>8, <3>3
      <4>2. flow[leaves[i]].what = flow[f].what
        BY <2>3, <2>9, <3>1, <4>1
      <4>3. At(leaves[i], "lost") \/ flow[leaves[i]].view # flow[f].view
        BY <2>6, <3>1, <4>2
      <4> QED
        BY <2>3, <2>7, <3>1, <4>1, <4>3 DEF At
    <3> QED
      BY <3>2, <3>3
  <2> QED
    BY <2>9 DEF PaidOnceUnlessUnseen, At
<1>6. CASE ViewActs \/ Remount \/ UNCHANGED vars
  <2>1. UNCHANGED <<leaves, flow>>
    BY <1>6 DEF ViewActs, StartScan, FilterSpent, FinishScan, FailScan, CloseProgress,
         CloseAnnouncement, Remount, vars, chain
  <2> QED
    BY <1>1, <2>1 DEF At
<1> QED
  BY <1>2, <1>3, <1>4, <1>5, <1>6, NextSplits DEF Acts

-----------------------------------------------------------------------------
\* The dialogs.

LEMMA DialogsNext ==
  ASSUME TypeOK, FlowsOK, DialogsOK, [Next]_vars
  PROVE  DialogsOK'
<1>0. /\ dialog \in [is : {"closed", "running", "failed", "complete"}, of : Flows \cup {None}]
      /\ announced \in Flows \cup {None} /\ None \notin Flows
  BY FlowsAssumption DEF TypeOK
<1>1. ASSUME NEW f \in Flows, NEW place, Moved(f, place), Running(f), view' = view
      PROVE  /\ \A g \in Flows : /\ flow'[g].kind = flow[g].kind /\ flow'[g].view = flow[g].view
                                 /\ g # f => flow'[g].at = flow[g].at
                                 /\ Running(g)' => Running(g)
                                 /\ At(g, "done") => At(g, "done")'
             /\ place \in Ended => ~Running(f)'
  BY <1>1 DEF Moved, Others, Running, At, Ended
<1>2. ASSUME NEW f \in Flows, NEW place, Moved(f, place), Running(f), view' = view,
             UNCHANGED dialogs
      PROVE  DialogsOK'
  BY <1>0, <1>1, <1>2 DEF DialogsOK, dialogs, Withdrawal, Deposit, At
<1>3. ASSUME NEW f \in Flows, NEW place, Moved(f, place), Running(f), view' = view,
             place \in Ended, announced' = announced,
             dialog' = IF ShownHere(f, "withdraw") THEN [dialog EXCEPT !.is = "failed"] ELSE dialog
      PROVE  DialogsOK'
  <2>1. CASE ShownHere(f, "withdraw")
    <3>1. dialog = [is |-> "running", of |-> f] /\ dialog'.is = "failed"
      BY <1>0, <1>3, <2>1 DEF DialogsOK, ShownHere, Withdrawal
    <3>2. \A g \in Flows : g # f => ~(Withdrawal(g) /\ Running(g) /\ flow[g].view = view)
      BY <3>1 DEF DialogsOK
    <3> QED
      BY <1>0, <1>1, <1>3, <3>1, <3>2 DEF DialogsOK, Withdrawal, Deposit
  <2>2. CASE ~ShownHere(f, "withdraw")
    <3>1. UNCHANGED dialogs
      BY <1>3, <2>2 DEF dialogs
    <3> QED
      BY <1>2, <1>3, <3>1
  <2> QED
    BY <2>1, <2>2
<1>4. ASSUME NEW f \in Flows, Moved(f, "done"), Running(f), view' = view,
             announced' \in {announced, f}, announced' = f => Deposit(f) \/ announced = f,
             dialog' = IF ShownHere(f, "withdraw") THEN [dialog EXCEPT !.is = "complete"] ELSE dialog
      PROVE  DialogsOK'
  <2>0. At(f, "done")' /\ ~Running(f)'
    BY <1>4 DEF Moved, At, Running, Ended
  <2>1. /\ \A g \in Flows : /\ flow'[g].kind = flow[g].kind /\ flow'[g].view = flow[g].view
                            /\ Running(g)' => Running(g)
                            /\ At(g, "done") => At(g, "done")'
    BY <1>1, <1>4
  <2>2. announced' # None => Deposit(announced)' /\ At(announced, "done")'
    BY <1>0, <1>4, <2>0, <2>1 DEF DialogsOK, Deposit
  <2>3. CASE ShownHere(f, "withdraw")
    <3>1. dialog = [is |-> "running", of |-> f] /\ dialog'.of = f /\ Withdrawal(f)
      BY <1>0, <1>4, <2>3 DEF DialogsOK, ShownHere, Withdrawal
    <3>2. \A g \in Flows : g # f => ~(Withdrawal(g) /\ Running(g) /\ flow[g].view = view)
      BY <3>1 DEF DialogsOK
    <3> QED
      BY <1>4, <2>0, <2>1, <2>2, <3>1, <3>2 DEF DialogsOK, Withdrawal
  <2>4. CASE ~ShownHere(f, "withdraw")
    <3>1. dialog' = dialog
      BY <1>4, <2>4
    <3>2. dialog.is = "complete" => dialog.of \in Flows
      BY DEF DialogsOK
    <3> QED
      BY <1>4, <2>1, <2>2, <3>1, <3>2 DEF DialogsOK, Withdrawal
  <2> QED
    BY <2>3, <2>4
<1>5. ASSUME NEW f \in Flows, Step(f) \/ Abort(f)
      PROVE  DialogsOK'
  <2>1. At(f, "depositReceipt") => Deposit(f)
    BY DEF At, FlowsOK, Placed, WithdrawalPlaces, Ended, Deposit
  <2> QED
    BY <1>2, <1>3, <1>4, <1>5, <2>1, StepEnds DEF Unlock
<1>6. ASSUME NEW f \in Flows, NEW kind, NEW what, NEW place, Begun(f, kind, what, place),
             kind # "withdraw", view' = view, UNCHANGED dialogs
      PROVE  DialogsOK'
  <2>1. \A g \in Flows : g # f => flow'[g] = flow[g]
    BY <1>6 DEF Begun, Others
  <2>2. ~At(f, "done") /\ ~Withdrawal(f)'
    BY <1>6 DEF Begun, At, Withdrawal
  <2>3. dialog.is = "complete" => dialog.of # f
    BY <2>2 DEF DialogsOK
  <2>4. announced # f
    BY <1>0, <2>2 DEF DialogsOK
  <2> QED
    BY <1>0, <1>6, <2>1, <2>2, <2>3, <2>4 DEF DialogsOK, dialogs, Withdrawal, Deposit, Running, At
<1>7. ASSUME NEW f \in Flows, \/ \E p \in Payments : StartDeposit(f, p)
                              \/ Preload(f) \/ Dispose(f)
      PROVE  DialogsOK'
  BY <1>6, <1>7, BeginMoves DEF StartDeposit, Preload, Dispose, page
<1>8. ASSUME NEW f \in Flows, NEW note \in Notes, StartWithdrawal(f, note)
      PROVE  DialogsOK'
  <2>1. /\ Begun(f, "withdraw", note, "proofs") /\ view' = view /\ announced' = announced
        /\ dialog' = [is |-> "running", of |-> f] /\ dialog.is # "running"
    BY <1>8, BeginMoves DEF StartWithdrawal, withdrawing
  <2>2. \A g \in Flows : g # f => flow'[g] = flow[g]
    BY <2>1 DEF Begun, Others
  <2>3. \A g \in Flows : ~(Withdrawal(g) /\ Running(g) /\ flow[g].view = view)
    BY <2>1 DEF DialogsOK
  <2>4. announced # f
    BY <1>0, <2>1 DEF DialogsOK, Begun, At
  <2> QED
    BY <1>0, <2>1, <2>2, <2>3, <2>4 DEF DialogsOK, Withdrawal, Deposit, Running, At
<1>9. CASE Remount
  <2>1. \A g \in Flows : flow'[g] = flow[g] /\ flow[g].view # view'
    BY <1>9 DEF Remount, FlowsOK, TypeOK
  <2> QED
    BY <1>9, <2>1 DEF Remount, DialogsOK, Closed, Withdrawal
<1>10. CASE CloseProgress
  <2>1. \A g \in Flows : ~(Withdrawal(g) /\ Running(g) /\ flow[g].view = view)
    BY <1>10 DEF CloseProgress, Closable, DialogsOK
  <2> QED
    BY <1>10, <2>1
    DEF CloseProgress, Closed, DialogsOK, Withdrawal, Deposit, Running, At
<1>11. CASE StartScan \/ FilterSpent \/ FinishScan \/ FailScan \/ CloseAnnouncement \/ UNCHANGED vars
  BY <1>11 DEF StartScan, FilterSpent, FinishScan, FailScan, CloseAnnouncement, vars, page, dialogs,
       DialogsOK, Withdrawal, Deposit, Running, At
<1> QED
  BY <1>5, <1>7, <1>8, <1>9, <1>10, <1>11, NextSplits DEF Acts, ViewActs

-----------------------------------------------------------------------------
\* The theorems.

LEMMA InvInit == Init => IInv
<1> SUFFICES ASSUME Init
             PROVE  IInv
  OBVIOUS
<1>1. \A f \in Flows : flow[f] = Free
  BY DEF Init
<1>2. TypeOK
  <2>1. flow \in [Flows -> FlowType]
    BY FlowsAssumption DEF Init, Free, FlowType, Places
  <2>2. /\ balance \in Nat /\ allowance \in Nat /\ view \in 1 .. MaxViews
    BY FlowsAssumption DEF Init
  <2>3. leaves \in Seq(Flows) /\ spent \cup offered \cup withdrawn \subseteq Notes
    BY DEF Init
  <2>4. scan \in [at : {"no", "nullifiers", "answer"}, found : SUBSET Notes]
    BY DEF Init, NoScan
  <2>5. /\ dialog \in [is : {"closed", "running", "failed", "complete"}, of : Flows \cup {None}]
        /\ {sending, ready} \subseteq BOOLEAN /\ announced \in Flows \cup {None}
    BY DEF Init, Closed
  <2>6. backend \in Flows \cup {None} /\ provers \subseteq Flows
    BY DEF Init
  <2> QED
    BY <2>1, <2>2, <2>3, <2>4, <2>5, <2>6 DEF TypeOK, FlowType
<1>3. FlowsOK
  BY <1>1 DEF Init, FlowsOK, Placed, Free
<1>4. \A f \in Flows : ~Deposit(f) /\ ~Withdrawal(f) /\ ~Running(f) /\ ~Mined(f)
  BY <1>1 DEF Free, Deposit, Withdrawal, Running, Mined
<1>5. ChainOK
  BY <1>4 DEF Init, ChainOK, Contains, LeavesOK, SpentOK
<1>6. DialogsOK /\ ApprovalOK /\ PaymentsOK /\ WithdrawnOK
  BY <1>4 DEF Init, Closed, DialogsOK, ApprovalOK, PaymentsOK, WithdrawnOK
<1>7. PaidOnceUnlessUnseen
  BY DEF Init, PaidOnceUnlessUnseen
<1>8. ProverReadyMeansLoaded
  BY <1>1 DEF Init, ProverReadyMeansLoaded, At, Free
<1> QED
  BY <1>2, <1>3, <1>5, <1>6, <1>7, <1>8 DEF IInv

LEMMA InvNext == IInv /\ [Next]_vars => IInv'
<1> SUFFICES ASSUME IInv, [Next]_vars
             PROVE  IInv'
  OBVIOUS
<1>1. TypeOK' /\ FlowsOK' /\ ChainOK' /\ DialogsOK'
  BY TypeNext, FlowsNext, ChainNext, DialogsNext DEF IInv
<1>2. ApprovalOK' /\ PaymentsOK' /\ WithdrawnOK' /\ ProverReadyMeansLoaded'
  BY ApprovalNext, PaymentsNext, WithdrawnNext, ProverNext DEF IInv
<1>3. PaidOnceUnlessUnseen'
  BY PaidOnceNext DEF IInv
<1> QED
  BY <1>1, <1>2, <1>3 DEF IInv

THEOREM Invariance == Spec => []IInv
BY InvInit, InvNext, PTL DEF Spec

\* Whatever the flows do, what they and the view keep has its type.
THEOREM TypeCorrect == Spec => []TypeOK
<1>1. IInv => TypeOK
  BY DEF IInv
<1> QED
  BY <1>1, Invariance, PTL

\* A flow that reports success was mined, one that reports failure was not,
\* and so with the two dialogs.
THEOREM TrueReports == Spec => []ReportsAreTrue
<1>1. IInv => ReportsAreTrue
  <2> SUFFICES ASSUME IInv, NEW f \in Flows
               PROVE  /\ flow[f].kind = "deposit" =>
                           /\ At(f, "done") => Contains(leaves, f)
                           /\ At(f, "failed") => ~Contains(leaves, f)
                      /\ flow[f].kind = "withdraw" =>
                           /\ At(f, "done") => flow[f].what \in spent
                           /\ At(f, "failed") /\ flow[f].what \in spent =>
                                \E g \in Flows \ {f} :
                                  /\ flow[g].what = flow[f].what
                                  /\ flow[g].at \in {"withdrawalReceipt", "done", "lost"}
                      /\ announced = f => Contains(leaves, f)
                      /\ dialog = [is |-> "complete", of |-> f] => flow[f].what \in spent
    BY DEF ReportsAreTrue
  <2>0. ChainOK /\ DialogsOK /\ FlowsOK /\ None \notin Flows
    BY FlowsAssumption DEF IInv
  <2>1. flow[f].kind = "deposit" =>
          /\ At(f, "done") => Contains(leaves, f)
          /\ At(f, "failed") => ~Contains(leaves, f)
    BY <2>0 DEF ChainOK, Deposit, Mined, At, LeavesOK, SpentOK
  <2>2. flow[f].kind = "withdraw" /\ At(f, "done") => flow[f].what \in spent
    BY <2>0 DEF ChainOK, Withdrawal, Mined, At, LeavesOK, SpentOK
  <2>3. ASSUME At(f, "failed"), flow[f].what \in spent
        PROVE  \E g \in Flows \ {f} :
                 /\ flow[g].what = flow[f].what
                 /\ flow[g].at \in {"withdrawalReceipt", "done", "lost"}
    <3>1. PICK g \in Flows : Withdrawal(g) /\ Mined(g) /\ flow[g].what = flow[f].what
      BY <2>0, <2>3 DEF ChainOK, LeavesOK, SpentOK
    <3>2. flow[g].at \in {"withdrawalReceipt", "done", "lost"}
      BY <2>0, <3>1 DEF Withdrawal, Mined, FlowsOK, Placed, WithdrawalPlaces, Ended
    <3> QED
      BY <2>3, <3>1, <3>2 DEF At
  <2>4. announced = f => Contains(leaves, f)
    BY <2>0 DEF DialogsOK, ChainOK, Mined, At, LeavesOK, SpentOK
  <2>5. dialog = [is |-> "complete", of |-> f] => flow[f].what \in spent
    BY <2>0 DEF DialogsOK, ChainOK, Mined, At, LeavesOK, SpentOK
  <2> QED
    BY <2>1, <2>2, <2>3, <2>4, <2>5
<1> QED
  BY <1>1, Invariance, PTL

\* Two deposits of one payment are mined only if the user could not see the
\* first: its receipt was lost, or the two were sent from different views.
THEOREM PaidOnce == Spec => []PaidOnceUnlessUnseen
<1>1. IInv => PaidOnceUnlessUnseen
  BY DEF IInv
<1> QED
  BY <1>1, Invariance, PTL

\* When every deposit started has succeeded, no allowance is left to the pool,
\* whichever of them overwrote the approval of which.
THEOREM ApprovalsUsedUp == Spec => []NoApprovalLeft
<1>1. IInv => NoApprovalLeft
  BY DEF IInv, ApprovalOK, NoApprovalLeft, Deposit, At
<1> QED
  BY <1>1, Invariance, PTL

\* A note whose withdrawal the view has reported complete is not offered
\* again, whatever scan answers late.
THEOREM NeverOfferedAgain == Spec => []CompletedNeverOffered
<1>1. IInv => CompletedNeverOffered
  BY DEF IInv, WithdrawnOK, CompletedNeverOffered, Withdrawal, Withdrawable
<1> QED
  BY <1>1, Invariance, PTL

\* The client calls the prover ready only when it is loaded, or just being
\* disposed of.
THEOREM ReadyIsLoaded == Spec => []ProverReadyMeansLoaded
<1>1. IInv => ProverReadyMeansLoaded
  BY DEF IInv
<1> QED
  BY <1>1, Invariance, PTL
=============================================================================
