---------------------------- MODULE PrivacyPool ----------------------------
(***************************************************************************)
(* The pool contract, contracts/src/PrivacyPoolV2.sol: deposits into the   *)
(* commitment tree, immediate withdrawals (one or several notes),          *)
(* two-stage withdrawals attested by the operator or claimed after the     *)
(* attestation window, the registration root and the relayer role.         *)
(*                                                                         *)
(* A transaction is one action: a call that reverts changes nothing, so    *)
(* every require is a conjunct of the guard.  Hashes are injective: a      *)
(* commitment is the note it commits to, a Merkle root is the sequence of  *)
(* leaves of its tree (CommitmentTree), a registration root is the set of  *)
(* keys below it.  A verifier accepts exactly the public inputs for which  *)
(* the circuit (circuits/privacy, circuits/compliance) has a witness.      *)
(*                                                                         *)
(* The contract sees a hash, not a note: a depositor announces an amount   *)
(* and pays it, and inserts any commitment.  The SDK announces the amount  *)
(* it commits to (packages/sdk/src/client.ts:296-325); nothing on chain    *)
(* ties the two, and nothing here does.                                    *)
(***************************************************************************)
EXTENDS Integers, Sequences, SequenceSums, CommitmentTree

CONSTANTS
    User,             \* addresses that hold tokens and call the pool
    Pool,             \* the address of the contract
    Operator,         \* the compliance operator's address
    ZeroAddr,         \* address(0)
    Relayer,          \* addresses that may hold the relayer role
    Recipient,        \* the addresses a proof may name as its recipient
    Key,              \* nullifier keys: npk and nsk determine each other
    Denomination,     \* the amounts isDenomination allows
    TransferAmount,   \* the amounts a caller may name
    U64,              \* 2^64: "as u64" in the circuits reduces modulo it
    Window,           \* ATTESTATION_WINDOW
    Slot,             \* the nullifier slots of withdrawMulti in use
    PrivacyVerifier, ComplianceVerifier,  \* which verifiers are deployed
    InitialBalance,   \* the tokens a user starts with
    MaxDeposits, MaxBatch, MaxTime        \* bounds of the model

Address == User \cup Relayer \cup Recipient \cup {Pool, Operator, ZeroAddr}

\* The note's secret and its owner's nsk determine the nullifier; its amount
\* and depositor do not enter it (compute_nullifier).
Nullifier(note) == <<note.secret, note.key>>
Nullifiers == {Nullifier(note) : note \in Note}
NoNullifier == <<>>

ASSUME AddressAssumption ==
    /\ Pool # ZeroAddr
    /\ {Pool, ZeroAddr} \cap User = {}
    /\ ZeroAddr \notin Relayer

ASSUME NoteAssumption ==
    /\ \A note \in Note : /\ {"secret", "key", "amount", "depositor"} = DOMAIN note
                          /\ note.amount \in Nat
    /\ Denomination \subseteq 1..(U64 - 1)
    /\ NoNullifier \notin Nullifiers

ASSUME ParameterAssumption ==
    /\ TransferAmount \subseteq Nat
    /\ U64 \in Nat \ {0}
    /\ MaxLeaves \in Nat \ {0}
    /\ Window \in Nat
    /\ Slot \subseteq 1..4
    /\ InitialBalance \in Nat
    /\ MaxDeposits \in Nat /\ MaxBatch \in Nat /\ MaxTime \in Nat

\* All deposits together stay below 2^64 token units (1.8 * 10^13 USDT).
ASSUME SupplyAssumption ==
    \E cap \in 0..U64 : /\ cap * MaxDeposits < U64
                        /\ \A d \in Denomination : d <= cap

\* The constructor: some verifier, and an operator if the compliance one.
ASSUME ConstructorAssumption ==
    /\ {PrivacyVerifier, ComplianceVerifier} \subseteq BOOLEAN
    /\ PrivacyVerifier \/ ComplianceVerifier
    /\ ComplianceVerifier => Operator # ZeroAddr

VARIABLES
    balance,             \* the token ledger; leaves and knownRoots: the tree
    announced,           \* the amounts of the Deposit events, by leaf
    nullifiers,          \* the nullifiers marked as used
    knownRegistrationRoots,
    pendingWithdrawals,  \* the two-stage records, by nullifier
    relayer,
    now,                 \* block.timestamp
    payouts              \* history: the transfers made for each nullifier

tree == <<leaves, knownRoots, announced>>
vars == <<balance, leaves, knownRoots, announced, nullifiers,
          knownRegistrationRoots, pendingWithdrawals, relayer, now, payouts>>

-----------------------------------------------------------------------------
\* The token

\* (mutant: the balance check of the token is missing)
TransferUnchecked(from, to, amount) ==
    LET debited == [balance EXCEPT ![from] = @ - amount]
    IN balance' = [debited EXCEPT ![to] = @ + amount]

\* A transfer reverts when the payer's balance does not cover it.
Transfer(from, to, amount) ==
    /\ balance[from] >= amount
    /\ LET debited == [balance EXCEPT ![from] = @ - amount]
       IN balance' = [debited EXCEPT ![to] = @ + amount]

-----------------------------------------------------------------------------
\* The statements the circuits prove

\* (mutant: the comparison with the note's amount is missing)
AmountValidUnbounded(amount, note) == amount % U64 > 0

\* transfer_amount as u64 > 0 and transfer_amount as u64 <= note_amount as u64
AmountValid(amount, note) ==
    /\ amount % U64 > 0
    /\ amount % U64 <= note.amount % U64

ProvesWithdrawal(note, root, amount) ==
    InTree(note, root) /\ AmountValid(amount, note)

ComplianceHash(note, recipient, amount) ==
    <<note.depositor, recipient, amount, note.secret>>

NoHash == <<>>

-----------------------------------------------------------------------------
NoWithdrawal == [recipient |-> ZeroAddr, amount |-> 0, complianceHash |-> NoHash,
                 deadline |-> 0, completed |-> FALSE]

Init ==
    /\ balance = [a \in Address |-> IF a \in User THEN InitialBalance ELSE 0]
    /\ InitTree
    /\ announced = <<>>
    /\ nullifiers = {}
    /\ knownRegistrationRoots = {}
    /\ pendingWithdrawals = [n \in Nullifiers |-> NoWithdrawal]
    /\ relayer \in Relayer
    /\ now = 0
    /\ payouts = [n \in Nullifiers |-> <<>>]

\* deposit: take the announced amount, insert the commitment.
Deposit(user, note, amount) ==
    /\ Len(leaves) < MaxDeposits
    /\ amount \in Denomination
    /\ Transfer(user, Pool, amount)
    /\ Insert(<<note>>)
    /\ announced' = Append(announced, amount)
    /\ UNCHANGED <<nullifiers, knownRegistrationRoots, pendingWithdrawals,
                   relayer, now, payouts>>

\* batchDeposit: one transfer for the whole batch, then one insert per
\* commitment.
BatchDeposit(user, batch, amounts) ==
    /\ Len(batch) = Len(amounts)
    /\ Len(batch) > 0
    /\ Len(leaves) + Len(batch) <= MaxDeposits
    /\ \A i \in DOMAIN amounts : amounts[i] \in Denomination
    /\ Transfer(user, Pool, SeqSum(amounts))
    /\ Insert(batch)
    /\ announced' = announced \o amounts
    /\ UNCHANGED <<nullifiers, knownRegistrationRoots, pendingWithdrawals,
                   relayer, now, payouts>>

\* updateRegistrationRoot: no root is ever forgotten.
UpdateRegistrationRoot(caller, newRoot) ==
    /\ Operator # ZeroAddr
    /\ caller = Operator
    /\ knownRegistrationRoots' = knownRegistrationRoots \cup {newRoot}
    /\ UNCHANGED <<balance, tree, nullifiers, pendingWithdrawals, relayer, now, payouts>>

\* (mutant: the nullifier is not looked up)
FreshUnchecked(n) == n \in Nullifiers

\* The nullifier check all three withdrawal functions share.
Fresh(n) == n \notin nullifiers

Paid(n, recipient, amount) ==
    [payouts EXCEPT ![n] = Append(@, [recipient |-> recipient, amount |-> amount])]

\* withdraw: prove, mark the nullifier, transfer at once.
Withdraw(note, root, amount, recipient) ==
    LET n == Nullifier(note) IN
    /\ PrivacyVerifier
    /\ root \in knownRoots
    /\ Fresh(n)
    /\ ProvesWithdrawal(note, root, amount)
    /\ nullifiers' = nullifiers \cup {n}
    /\ Transfer(Pool, recipient, amount)
    /\ payouts' = Paid(n, recipient, amount)
    /\ UNCHANGED <<tree, knownRegistrationRoots, pendingWithdrawals, relayer, now>>

\* A slot of withdrawMulti: a note and the amount taken from it, or nothing.
NoSpend == [note |-> NoNullifier, amount |-> 0]
Spend == [note : Note, amount : TransferAmount]

SlotNullifier(spends, i) ==
    IF i \in Slot /\ spends[i] # NoSpend THEN Nullifier(spends[i].note) ELSE NoNullifier
SlotAmount(spends, i) ==
    IF i \in Slot THEN spends[i].amount ELSE 0

MultiProof(spends, root) ==
    \A i \in Slot : spends[i] # NoSpend =>
        /\ InTree(spends[i].note, root)
        /\ spends[i].amount \in 1..spends[i].note.amount

\* withdrawMulti: zero slots are skipped, the others are checked and marked
\* one after the other (so a nullifier named twice reverts), one transfer of
\* the total follows.
WithdrawMulti(spends, root, recipient) ==
    LET used == {SlotNullifier(spends, i) : i \in Slot} \ {NoNullifier}
        total == SlotAmount(spends, 1) + SlotAmount(spends, 2)
                 + SlotAmount(spends, 3) + SlotAmount(spends, 4)
    IN
    /\ PrivacyVerifier
    /\ root \in knownRoots
    /\ MultiProof(spends, root)
    /\ \A n \in used : Fresh(n)
    /\ \A i, j \in Slot : SlotNullifier(spends, i) = SlotNullifier(spends, j)
                            => i = j \/ SlotNullifier(spends, i) = NoNullifier
    /\ nullifiers' = nullifiers \cup used
    /\ Transfer(Pool, recipient, total)
    /\ payouts' = [n \in Nullifiers |->
         IF n \in used
         THEN LET i == CHOOSE j \in Slot : SlotNullifier(spends, j) = n
              IN Append(payouts[n], [recipient |-> recipient, amount |-> spends[i].amount])
         ELSE payouts[n]]
    /\ UNCHANGED <<tree, knownRegistrationRoots, pendingWithdrawals, relayer, now>>

\* initiateWithdrawal: prove, burn the nullifier, open the attestation window.
\* (The model's clock must be able to reach the deadline.)
InitiateWithdrawal(note, root, amount, recipient, registrationRoot) ==
    LET n == Nullifier(note) IN
    /\ now + Window <= MaxTime
    /\ ComplianceVerifier
    /\ root \in knownRoots
    /\ registrationRoot \in knownRegistrationRoots
    /\ Fresh(n)
    /\ ProvesWithdrawal(note, root, amount)
    /\ note.key \in registrationRoot
    /\ nullifiers' = nullifiers \cup {n}
    /\ pendingWithdrawals' = [pendingWithdrawals EXCEPT ![n] =
         [recipient |-> recipient, amount |-> amount,
          complianceHash |-> ComplianceHash(note, recipient, amount),
          deadline |-> now + Window, completed |-> FALSE]]
    /\ UNCHANGED <<balance, tree, knownRegistrationRoots, relayer, now, payouts>>

\* (mutant: the completed flag is not checked)
OpenUnchecked(pw) == pw.recipient # ZeroAddr

\* "No pending withdrawal" and "Already completed".
Open(pw) == pw.recipient # ZeroAddr /\ ~pw.completed

\* What attestWithdrawal and claimWithdrawal do with the record they accept.
Complete(n) ==
    LET pw == pendingWithdrawals[n] IN
    /\ Open(pw)
    /\ pendingWithdrawals' = [pendingWithdrawals EXCEPT ![n].completed = TRUE]
    /\ Transfer(Pool, pw.recipient, pw.amount)
    /\ payouts' = Paid(n, pw.recipient, pw.amount)
    /\ UNCHANGED <<tree, nullifiers, knownRegistrationRoots, relayer, now>>

AttestWithdrawal(caller, n) ==
    /\ caller = Operator
    /\ Complete(n)

\* (mutants: strictly after the deadline; a deadline taken for milliseconds)
WindowOverStrict(pw) == now > pw.deadline
WindowOverMillis(pw) == now >= 1000 * pw.deadline

\* "Window active"
WindowOver(pw) == now >= pw.deadline

\* claimWithdrawal: anyone, once the window is over.
ClaimWithdrawal(n) ==
    /\ WindowOver(pendingWithdrawals[n])
    /\ Complete(n)

SetRelayer(caller, newRelayer) ==
    /\ caller = relayer
    /\ newRelayer # ZeroAddr
    /\ relayer' = newRelayer
    /\ UNCHANGED <<balance, tree, nullifiers, knownRegistrationRoots,
                   pendingWithdrawals, now, payouts>>

\* A block is mined.
Tick ==
    /\ now < MaxTime
    /\ now' = now + 1
    /\ UNCHANGED <<balance, tree, nullifiers, knownRegistrationRoots,
                   pendingWithdrawals, relayer, payouts>>

Amount == Denomination \cup TransferAmount

Next ==
    \/ \E user \in User, note \in Note, amount \in Amount : Deposit(user, note, amount)
    \/ \E user \in User, len \in 1..MaxBatch :
           \E batch \in [1..len -> Note], amounts \in [1..len -> Amount] :
               BatchDeposit(user, batch, amounts)
    \/ \E caller \in Address, newRoot \in SUBSET Key :
           UpdateRegistrationRoot(caller, newRoot)
    \/ \E note \in Note, root \in knownRoots, amount \in TransferAmount,
         recipient \in Recipient :
           \/ Withdraw(note, root, amount, recipient)
           \/ \E registrationRoot \in knownRegistrationRoots :
                  InitiateWithdrawal(note, root, amount, recipient, registrationRoot)
    \/ \E spends \in [Slot -> Spend \cup {NoSpend}], root \in knownRoots,
         recipient \in Recipient : WithdrawMulti(spends, root, recipient)
    \/ \E n \in Nullifiers :
           \/ \E caller \in Address : AttestWithdrawal(caller, n)
           \/ ClaimWithdrawal(n)
    \/ \E caller, newRelayer \in Relayer \cup {ZeroAddr} : SetRelayer(caller, newRelayer)
    \/ Tick

Spec == Init /\ [][Next]_vars

\* Blocks are mined, and claimWithdrawal is open to everybody, so somebody
\* (the recipient, if nobody else) calls it.  The operator owes nothing.
Fairness ==
    /\ WF_vars(Tick)
    /\ \A n \in Nullifiers : WF_vars(ClaimWithdrawal(n))

FairSpec == Spec /\ Fairness

-----------------------------------------------------------------------------
\* Properties

Initiated(n) == pendingWithdrawals[n] # NoWithdrawal

Payout == [recipient : Recipient, amount : Nat]

Withdrawal ==
    [recipient : Recipient \cup {ZeroAddr}, amount : Nat,
     complianceHash : {NoHash} \cup
         {ComplianceHash(note, r, a) : note \in Note, r \in Recipient, a \in TransferAmount},
     deadline : Nat, completed : BOOLEAN]

\* The types of the variables.
TypeOK ==
    /\ balance \in [Address -> Nat]
    /\ leaves \in Seq(Note)
    /\ knownRoots \subseteq Seq(Note)
    /\ announced \in Seq(Nat)
    /\ nullifiers \subseteq Nullifiers
    /\ knownRegistrationRoots \subseteq SUBSET Key
    /\ pendingWithdrawals \in [Nullifiers -> Withdrawal]
    /\ relayer \in Relayer
    /\ now \in Nat
    /\ payouts \in [Nullifiers -> Seq(Payout)]

\* What may still be withdrawn for each leaf: its amount until a payout was
\* made for its nullifier, nothing afterwards.
Outstanding ==
    [i \in DOMAIN leaves |->
        IF payouts[Nullifier(leaves[i])] = <<>> THEN leaves[i].amount ELSE 0]

\* By how much each leaf commits to more than was paid in for it.
Overstated ==
    [i \in DOMAIN leaves |->
        IF leaves[i].amount > announced[i] THEN leaves[i].amount - announced[i] ELSE 0]

\* The pool covers every note that was not yet paid out, whether it is
\* unspent or waits for attestation, but for what depositors committed to
\* beyond what they paid in: withdrawals on the four paths, in any order,
\* take nothing else.  While every depositor commits to what it announces,
\* as the SDK does, the pool is solvent.
Solvent == balance[Pool] + SeqSum(Overstated) >= SeqSum(Outstanding)

\* A nullifier is paid at most once, on whichever of the four paths, and no
\* more than a deposited note with that nullifier is worth.
PaidOnceWithinNote ==
    \A n \in Nullifiers :
        /\ Len(payouts[n]) <= 1
        /\ payouts[n] # <<>> =>
             \E i \in DOMAIN leaves : /\ Nullifier(leaves[i]) = n
                                      /\ payouts[n][1].amount <= leaves[i].amount

\* What is paid for a nullifier initiateWithdrawal accepted is what was
\* proved then, to the recipient named then, and it is paid exactly when the
\* record is completed: withdraw and withdrawMulti never pay it, and the
\* operator's attestation and a claim never both do.
PaidAsInitiated ==
    \A n \in Nullifiers : Initiated(n) =>
        LET pw == pendingWithdrawals[n] IN
        payouts[n] = IF pw.completed
                     THEN <<[recipient |-> pw.recipient, amount |-> pw.amount]>>
                     ELSE <<>>

\* The terms of an initiated withdrawal never change and a completed one is
\* never reopened, although initiateWithdrawal overwrites the whole record.
TermsFrozen ==
    [][\A n \in Nullifiers : Initiated(n) =>
          \/ pendingWithdrawals'[n] = pendingWithdrawals[n]
          \/ /\ ~pendingWithdrawals[n].completed
             /\ pendingWithdrawals'[n] = [pendingWithdrawals[n] EXCEPT !.completed = TRUE]
      ]_vars

\* Every commitment ever inserted stays provable: some known root is the root
\* of a tree that holds it, also after its tree was full and rotated out in
\* the middle of a batch.
LeafStaysProvable ==
    \A i \in DOMAIN leaves : \E root \in knownRoots : InTree(leaves[i], root)

\* A withdrawal the token can be asked to pay.
Payable(pw) == pw.recipient # ZeroAddr /\ pw.amount < U64

\* The pool lacks money for a withdrawal, and no more than depositors
\* committed to beyond what they paid in.
ShortByOverstatement(pw) ==
    balance[Pool] < pw.amount /\ pw.amount <= balance[Pool] + SeqSum(Overstated)

\* Once the window is over, claimWithdrawal does not revert: the record is
\* there, uncompleted, and the pool has the money, whatever the other users
\* withdrew in the meantime.  What it may lack is money nobody paid in.
ExpiredIsClaimable ==
    \A n \in Nullifiers :
        LET pw == pendingWithdrawals[n] IN
        (Payable(pw) /\ Initiated(n) /\ ~pw.completed /\ now >= pw.deadline)
            => ENABLED ClaimWithdrawal(n) \/ ShortByOverstatement(pw)

\* Without any step of the operator, every initiated withdrawal is paid,
\* unless the pool stays short of, or keeps falling short of, money that was
\* committed to and never paid in.
EventuallySettled ==
    \A n \in Nullifiers :
        (Initiated(n) /\ Payable(pendingWithdrawals[n]))
            ~> \/ pendingWithdrawals[n].completed /\ payouts[n] # <<>>
               \/ ShortByOverstatement(pendingWithdrawals[n])
=============================================================================
