---------------------------- MODULE TestVectors ----------------------------
(***************************************************************************)
(* The test vectors of the compliance circuit                              *)
(* (scripts/generate_test_vectors.ts --e2e), made with the sequencer's     *)
(* copy of the cryptography and read by the circuit: a circuit with the     *)
(* script's 32 levels accepts each one or refuses it by the very assertion *)
(* it is labelled with; for one of 20 levels, as in lib.nr, they are no    *)
(* inputs.                                                                 *)
(***************************************************************************)
EXTENDS Primitives, TLC

Script == INSTANCE OperatorCrypto WITH ViewTags <- 256
Larger == 2097152   \* than every amount and address of the vectors

Circuit(depth) == INSTANCE CircuitLib WITH
  TREE_DEPTH <- depth, REGISTRATION_DEPTH <- 16, U64 <- Larger, AddressBound <- Larger

(* generateSparseProof, with leaves numbered from 0; a root that was made  *)
(* up belongs to a tree that nobody has.                                   *)
SparsePath(leaf, leafIndex, depth) ==
  [tree |-> [depth |-> depth, leaves |-> [i \in {leafIndex + 1} |-> leaf]], index |-> leafIndex + 1]

MadeUp(root) == [depth |-> 32, leaves |-> <<Num(root)>>]

(* generateProverToml: the inputs of the circuit, with overrides for the   *)
(* scenarios that have to fail.                                            *)
ProverToml(p, overrides) ==
  LET npk == Script!ComputeNpk(p.nsk)
      commitment == Script!ComputeCommitment(p.secret, npk, p.noteAmount, p.blockNumber, p.depositor)
      merkleProof == SparsePath(commitment, p.leafIndex, 32)
      regProof == SparsePath(npk, 0, 16)
  IN
  overrides @@
  [secret |-> p.secret, nullifier_secret_key |-> p.nsk, nullifier_pub_key |-> npk,
   merkle_path |-> merkleProof, note_amount |-> p.noteAmount, note_block_number |-> p.blockNumber,
   note_depositor |-> p.depositor, transfer_amount |-> p.transferAmount,
   registration_path |-> regProof, expected_root |-> merkleProof.tree,
   nullifier |-> Script!ComputeNullifier(p.secret, p.nsk), amount |-> p.transferAmount,
   recipient |-> p.recipient,
   compliance_hash |->
     Script!ComputeComplianceHash(p.depositor, p.recipient, p.transferAmount, p.secret),
   expected_registration_root |-> regProof.tree]

NskBob == Num(12345)
NskAlice == Num(99999)

(* A part of the note of 1000000 is withdrawn.                             *)
Partial ==
  [secret |-> Num(42), nsk |-> NskBob, depositor |-> Num(10), recipient |-> Num(11),
   noteAmount |-> Num(1000000), transferAmount |-> Num(500000), blockNumber |-> Num(12345678),
   leafIndex |-> 0]

Passing ==
  {ProverToml(p, <<>>) : p \in
     {Partial,
      [Partial EXCEPT !.transferAmount = Num(1000000)],
      [Partial EXCEPT !.leafIndex = 7],
      [Partial EXCEPT !.transferAmount = Num(1)],
      [Partial EXCEPT !.recipient = Num(12)]}}

(* By the assertion that has to fail.                                      *)
Failing == [
  Balance |-> {ProverToml([Partial EXCEPT !.transferAmount = Num(1000001)], <<>>)},
  Root |-> {ProverToml(Partial, "expected_root" :> MadeUp(12345))},
  Nullifier |->
    {ProverToml(Partial, "nullifier" :> Script!ComputeNullifier(Num(99999), NskBob))},
  Npk |-> {ProverToml([Partial EXCEPT !.nsk = nsk], "nullifier_pub_key" :> Script!ComputeNpk(NskBob)) :
             nsk \in {Num(77777), NskAlice}},
  Amount |-> {ProverToml(Partial, "amount" :> Num(999999))},
  Compliance |-> {ProverToml(Partial, "compliance_hash" :> Num(12345))},
  Registration |-> {ProverToml(Partial, "expected_registration_root" :> MadeUp(99999))}]

Label == [
  Balance |-> "Insufficient note balance",
  Root |-> "Merkle root mismatch",
  Nullifier |-> "Nullifier mismatch",
  Npk |-> "NPK does not match NSK",
  Amount |-> "Public amount mismatch",
  Compliance |-> "Compliance hash mismatch",
  Registration |-> "NPK not in registration tree"]

(* Each vector meets the fate that the manifest of the vectors announces,   *)
(* and none is refused for another reason than the one it was written for, *)
(* by a circuit of 32 levels.  None has the form of the inputs for 20.     *)
VectorsAsLabelled ==
  /\ \A w \in Passing : Circuit(32)!Satisfied(w) /\ ~Circuit(20)!Fits(w)
  /\ \A kind \in DOMAIN Failing : \A w \in Failing[kind] :
       /\ ~Circuit(32)!Satisfied(w) /\ Circuit(32)!Failed(w)[1].message = Label[kind]
       /\ ~Circuit(20)!Fits(w)

ASSUME VectorsAssumption == VectorsAsLabelled
=============================================================================
