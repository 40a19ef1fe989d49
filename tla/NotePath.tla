------------------------------ MODULE NotePath ------------------------------
(***************************************************************************)
(* The way of a note: a deposit for the keys of a payment link, its leaf   *)
(* and its encrypted note on chain, the scan that finds it, the withdrawal *)
(* that the SDK's client prepares from it, await by await, the circuit and *)
(* the contract that accept it, and the operator that verifies it.  The    *)
(* registrations go on meanwhile (Registration): of other users, of other  *)
(* devices with other keys, and of the withdrawal itself.                  *)
(***************************************************************************)
EXTENDS Registration, NoteCrypto

CONSTANTS
  SignaturesOf,   \* the signatures an address's keys were derived from
  FieldOf,        \* addressToField
  Payments,       \* the deposits made, in order: from, to, amount, forOperator
  OperatorKey,    \* the operator's private key
  ScanWindow,     \* how many leaves a scan goes back: 100
  ServedDepth,    \* levels of the sequencer's tree: 32
  PoolDepth,      \* levels of the contract's trees: 20
  TREE_DEPTH,     \* levels of a path in the circuit: 20
  REGISTRATION_DEPTH,  \* levels of the registration tree, here and there: 16
  U64,            \* 2^64
  AddressBound,   \* 2^160
  Flows           \* bound: the withdrawals started

Signatures == UNION {SignaturesOf[a] : a \in Address}

ASSUME NotePathAssumption ==
  /\ \A a \in Address : KeysOf[a] = {Keys(s).npk : s \in SignaturesOf[a]}
  /\ \A a \in Address : FieldOf[a] = Num(FieldOf[a][1]) /\ FieldOf[a][1] \in Nat
  /\ Payments \in Seq([from : Address, to : Signatures, amount : Nat \ {0}, forOperator : BOOLEAN])
  /\ \A a \in Address : FieldOf[a][1] < AddressBound
  /\ {ScanWindow, U64} \subseteq Nat /\ U64 > 0

VARIABLES
  leaves,      \* the pool's leaves, each with the note emitted and its sender
  mirrored,    \* how many the sequencer's tree holds
  scanned,     \* how many notes its scanner and operator have taken in
  pending,     \* initiated withdrawals, with the leaf that they spend
  flow         \* the withdrawals of the client

Lib == INSTANCE CircuitLib
Operator == INSTANCE OperatorCrypto

noteVars == <<leaves, mirrored, scanned, pending, flow>>

Nullifiers == {p.nullifier : p \in pending}
NoFlow == [at |-> "no"]

InitNotes ==
  /\ Init
  /\ leaves = <<>> /\ mirrored = 0 /\ scanned = 0
  /\ pending = {}
  /\ flow = [f \in Flows |-> NoFlow]

(***************************************************************************)
(* LatentClient.deposit to the keys of a payment link, with or without the *)
(* operator's key in the configuration.                                    *)
(***************************************************************************)
Deposit ==
  LET n == Len(leaves)
      p == Payments[n + 1]
      note == [secret |-> Num(n), amount |-> Num(p.amount), blockNumber |-> Num(n + 1),
               depositor |-> FieldOf[p.from]]
      recipient == Keys(p.to)
      ephemeral == 100 + 2 * n
      tag == ViewTag(SharedSecret(ephemeral, recipient.encPubKey))
  IN
  /\ n < Len(Payments)
  /\ leaves' = Append(leaves,
       [commitment |-> ComputeCommitment(note, recipient.npk),
        encryptedNote |-> PackNote(EncryptNote(ephemeral, recipient.encPubKey, note), tag)
          \o IF p.forOperator
             THEN PackOperatorNote(EncryptOperatorNote(ephemeral + 1, PubKey(OperatorKey), note.secret))
             ELSE <<>>,
        from |-> p.from, to |-> p.to, forOperator |-> p.forOperator])
  /\ UNCHANGED <<vars, mirrored, scanned, pending, flow>>

SyncTree ==
  /\ mirrored < Len(leaves)
  /\ mirrored' = Len(leaves)
  /\ UNCHANGED <<vars, leaves, scanned, pending, flow>>

ScanNotes ==
  /\ scanned < Len(leaves)
  /\ scanned' = Len(leaves)
  /\ UNCHANGED <<vars, leaves, mirrored, pending, flow>>

(***************************************************************************)
(* scanMyNotes.  Leaves are numbered from 0.                               *)
(***************************************************************************)
(* GET /notes: both ends included.                                         *)
GetNotes(from, to) == {i \in 0 .. (scanned - 1) : i >= from /\ i <= to}

ScanFrom == IF mirrored > ScanWindow THEN mirrored - ScanWindow ELSE 0

ScanMyNotes(keys) ==
  LET owned == UNION {TryDecryptNote(i, leaves[i + 1].encryptedNote, keys) :
                        i \in GetNotes(ScanFrom, mirrored)}
  IN  IF mirrored = 0 THEN {}
      ELSE {n \in owned : ComputeNullifier(n.note.secret, keys.nsk) \notin Nullifiers}

(***************************************************************************)
(* withdraw: register, both proofs, circuit inputs, submission.            *)
(***************************************************************************)
At(f, place) == flow[f].at = place
Go(f, place) == flow' = [flow EXCEPT ![f].at = place]

StartWithdrawal(f, a, signature) ==
  /\ At(f, "no")
  /\ \E n \in ScanMyNotes(Keys(signature)) : \E amount \in 1 .. n.note.amount[1] :
       flow' = [flow EXCEPT ![f] = [at |-> "register", address |-> a, keys |-> Keys(signature),
                                    owned |-> n, amount |-> amount, root |-> <<>>,
                                    path |-> <<>>, registrationPath |-> <<>>, epoch |-> 0]]
  /\ UNCHANGED <<vars, leaves, mirrored, scanned, pending>>

(* The request is refused with 409, or it is answered when the transaction *)
(* that submits its root is mined or has failed.                           *)
RegisterFirst(f) ==
  /\ At(f, "register")
  /\ IF Refused(flow[f].address, flow[f].keys.npk)
     THEN Go(f, "proofs") /\ UNCHANGED vars
     ELSE /\ Register(flow[f].address, flow[f].keys.npk)
          /\ flow' = [flow EXCEPT ![f] = [@ EXCEPT !.at = "registering", !.root = tree']]
  /\ UNCHANGED <<leaves, mirrored, scanned, pending>>

Registered(f) ==
  /\ At(f, "registering")
  /\ flow[f].root \notin submissions
  /\ flow' = [flow EXCEPT ![f] = [@ EXCEPT !.at = "proofs", !.root = <<>>]]
  /\ UNCHANGED <<vars, leaves, mirrored, scanned, pending>>

(* GET /proof: the tree catches up with the chain for a leaf it does not   *)
(* have; a leaf that it still lacks is answered with 404.                  *)
CaughtUp(index) == IF index >= mirrored THEN Len(leaves) ELSE mirrored

GetProof(index) ==
  LET leafCount == CaughtUp(index)
  IN  IF index < leafCount THEN {[root |-> leafCount, index |-> index + 1]} ELSE {}

(* Both proofs, or the error of the one that was refused.                  *)
FetchProofs(f) ==
  LET paths == GetProof(flow[f].owned.leafIndex)
      registrationPaths == RegistrationProof(flow[f].keys.npk)
  IN
  /\ At(f, "proofs")
  /\ mirrored' = CaughtUp(flow[f].owned.leafIndex)
  /\ IF paths = {} \/ registrationPaths = {}
     THEN Go(f, "failed")
     ELSE \E p \in paths, q \in registrationPaths :
       flow' = [flow EXCEPT ![f] = [@ EXCEPT !.at = "submit", !.path = p, !.registrationPath = q,
                                             !.epoch = restarts]]
  /\ UNCHANGED <<vars, leaves, scanned, pending>>

(* The roots of the sequencer, of the operator and of the contract, whose   *)
(* first tree has room for all payments (bound: no rotation).              *)
Commitments(count) == [i \in 1 .. count |-> leaves[i].commitment]

ServedRoot(count) == [depth |-> ServedDepth, leaves |-> Commitments(count)]

RegistrationTree(root) == [depth |-> REGISTRATION_DEPTH, leaves |-> root]

PoolRoots == {[depth |-> PoolDepth, leaves |-> Commitments(count)] : count \in 1 .. Len(leaves)}

(* The inputs the client puts together for the amount it withdraws; the    *)
(* recipient is its own account.                                           *)
InputsFor(f, hashed) ==
  LET note == flow[f].owned.note
      recipient == FieldOf[flow[f].address]
      served == ServedRoot(flow[f].path.root)
      registered == RegistrationTree(flow[f].registrationPath.root)
  IN
  [secret |-> note.secret, nullifierSecretKey |-> flow[f].keys.nsk,
   nullifierPubKey |-> flow[f].keys.npk,
   merklePath |-> [tree |-> served, index |-> flow[f].path.index],
   noteAmount |-> note.amount, noteBlockNumber |-> note.blockNumber,
   noteDepositor |-> note.depositor, transferAmount |-> Num(flow[f].amount),
   registrationPath |-> [tree |-> registered, index |-> flow[f].registrationPath.index],
   expectedRoot |-> served, nullifier |-> ComputeNullifier(note.secret, flow[f].keys.nsk),
   amount |-> Num(flow[f].amount), recipient |-> recipient,
   complianceHash |-> ComputeComplianceHash(note.depositor, recipient, hashed, note.secret),
   expectedRegistrationRoot |-> registered]

(* (mutant: the amount of the note is hashed, not the amount withdrawn)    *)
InputsOfNote(f) == InputsFor(f, flow[f].owned.note.amount)

WithdrawalInputs(f) == InputsFor(f, Num(flow[f].amount))

(* generateWitness: the inputs under the names of the circuit.             *)
Witness(in) ==
  [secret |-> in.secret, nullifier_secret_key |-> in.nullifierSecretKey,
   nullifier_pub_key |-> in.nullifierPubKey, merkle_path |-> in.merklePath,
   note_amount |-> in.noteAmount, note_block_number |-> in.noteBlockNumber,
   note_depositor |-> in.noteDepositor, transfer_amount |-> in.transferAmount,
   registration_path |-> in.registrationPath, expected_root |-> in.expectedRoot,
   nullifier |-> in.nullifier, amount |-> in.amount, recipient |-> in.recipient,
   compliance_hash |-> in.complianceHash,
   expected_registration_root |-> in.expectedRegistrationRoot]

(* initiateWithdrawal; without a witness there is no proof to submit, and  *)
(* the contract refuses roots it does not know.                            *)
Submit(f) ==
  LET w == Witness(WithdrawalInputs(f)) IN
  /\ At(f, "submit")
  /\ IF /\ Lib!Satisfied(w)
        /\ w.expected_root \in PoolRoots
        /\ w.expected_registration_root \in {RegistrationTree(root) : root \in knownRoots}
        /\ w.nullifier \notin Nullifiers
     THEN /\ pending' = pending \cup {[leafIndex |-> flow[f].owned.leafIndex, nullifier |-> w.nullifier,
                 amount |-> w.amount, recipient |-> w.recipient, complianceHash |-> w.compliance_hash]}
          /\ Go(f, "done")
     ELSE Go(f, "failed") /\ UNCHANGED pending
  /\ UNCHANGED <<vars, leaves, mirrored, scanned>>

(* The sequencer restarts: registrations it was answering fail.            *)
RestartSequencer ==
  /\ Restart
  /\ flow' = [f \in Flows |-> IF At(f, "registering") THEN [flow[f] EXCEPT !.at = "failed"] ELSE flow[f]]
  /\ UNCHANGED <<leaves, mirrored, scanned, pending>>

(* Another device of a user registers keys, a root is mined or is not.     *)
RegistrationStep ==
  /\ \/ \E a \in Address : \E npk \in KeysOf[a] : Register(a, npk)
     \/ \E root \in submissions : Submitted(root) \/ SubmissionFails(root)
  /\ UNCHANGED noteVars

NextNotes ==
  \/ RegistrationStep \/ RestartSequencer
  \/ Deposit \/ SyncTree \/ ScanNotes
  \/ \E f \in Flows :
       \/ \E a \in Address : \E s \in SignaturesOf[a] : StartWithdrawal(f, a, s)
       \/ RegisterFirst(f) \/ Registered(f) \/ FetchProofs(f) \/ Submit(f)

SpecNotes == InitNotes /\ [][NextNotes]_<<vars, noteVars>>

(***************************************************************************)
(* Properties.                                                             *)
(***************************************************************************)
(* A scan finds notes of its own keys only, although view tags collide,    *)
(* with the commitment that is on chain and none that is withdrawn; and    *)
(* once the sequencer has caught up it finds all of the last leaves.  The  *)
(* operator's key, which opens the notes for the operator, opens no other  *)
(* note (POST /operator/decrypt).                                          *)
FoundByRecipientOnly ==
  /\ \A i \in DOMAIN leaves :
       Operator!DecryptCompliance(OperatorKey, ParseEncryptedNote(leaves[i].encryptedNote)) = {}
  /\ \A s \in Signatures :
       LET found == ScanMyNotes(Keys(s)) IN
       /\ \A n \in found :
            /\ leaves[n.leafIndex + 1].to = s
            /\ leaves[n.leafIndex + 1].commitment = n.commitment
            /\ \A p \in pending : p.leafIndex # n.leafIndex
       /\ mirrored = Len(leaves) /\ scanned = Len(leaves) =>
            \A i \in DOMAIN leaves :
              leaves[i].to = s /\ i > Len(leaves) - ScanWindow =>
                (\E n \in found : n.leafIndex = i - 1) \/ (\E p \in pending : p.leafIndex = i - 1)

(* The inputs the client prepares satisfy the circuit: what the depositor  *)
(* hashed and encrypted is what the recipient decrypts and proves, and the *)
(* registration proof is that of its key, however registrations, changes   *)
(* of keys and restarts fell between the answers it has built them from.   *)
(* They do if the sequencer's paths have the length the circuit takes and  *)
(* the amounts compare in 64 bits as they do in full, and only then.       *)
InputsSatisfyCircuit ==
  \A f \in Flows : At(f, "submit") =>
    LET amount == flow[f].amount % U64
        noteAmount == flow[f].owned.note.amount[1] % U64
    IN  Lib!Satisfied(Witness(WithdrawalInputs(f)))
          <=> ServedDepth = TREE_DEPTH /\ amount > 0 /\ amount <= noteAmount

(* The registration root a withdrawal is proved against is known to the    *)
(* contract or on its way there, unless a submission failed or the         *)
(* sequencer was restarted after it served the proof.                      *)
ProofRootArrives ==
  failures = 0 =>
    \A f \in Flows : At(f, "submit") /\ flow[f].epoch = restarts =>
      flow[f].registrationPath.root \in knownRoots \cup submissions

(* verifyCompliance: the leaves whose secret and sender explain p.         *)
VerifiedLeaves(p) ==
  {i \in 0 .. (scanned - 1) :
     \E secret \in Operator!TryDecryptOperatorNote(leaves[i + 1].encryptedNote, OperatorKey) :
       Operator!ComputeComplianceHash(FieldOf[leaves[i + 1].from], p.recipient, p.amount, secret)
         = p.complianceHash}

(* Every withdrawal the contract accepted can be verified by the operator, *)
(* and is attributed to the very deposit that it spends, if that came with *)
(* a note for the operator: the depositor the recipient decrypted is the   *)
(* sender the sequencer read from the transaction.                         *)
OperatorVerifies ==
  \A p \in pending :
    VerifiedLeaves(p) = IF leaves[p.leafIndex + 1].forOperator THEN {p.leafIndex} ELSE {}
=============================================================================
