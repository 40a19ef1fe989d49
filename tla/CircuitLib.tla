----------------------------- MODULE CircuitLib -----------------------------
(***************************************************************************)
(* What the circuits compute (circuits/lib/src/lib.nr) and the statement   *)
(* of the compliance circuit (circuits/compliance/src/main.nr).            *)
(***************************************************************************)
EXTENDS Primitives

CONSTANTS
  TREE_DEPTH,           \* levels of a path to a commitment: 20
  REGISTRATION_DEPTH,   \* and of one to a registered key: 16
  U64,                  \* 2^64, what `as u64` takes a field modulo
  AddressBound          \* 2^160

DOMAIN_COMMITMENT == Num(1)
DOMAIN_NULLIFIER == Num(2)
DOMAIN_COMPLIANCE == Num(4)
DOMAIN_NPK == Num(5)

poseidon2_hash_2(a, b) == Permute(<<a, b, Num(0), Num(0)>>)[1]

poseidon2_hash_3(a, b, c) == Permute(<<a, b, c, Num(0)>>)[1]

poseidon2_hash_5(a, b, c, d, e) ==
  LET state == Permute(<<a, b, c, Num(0)>>)
  IN  Permute(<<Plus(state[1], d), Plus(state[2], e), state[3], state[4]>>)[1]

poseidon2_hash_6(a, b, c, d, e, f) ==
  LET state == Permute(<<a, b, c, Num(0)>>)
  IN  Permute(<<Plus(state[1], d), Plus(state[2], e), Plus(state[3], f), state[4]>>)[1]

compute_npk(nsk) == poseidon2_hash_2(nsk, DOMAIN_NPK)

compute_commitment(secret, npk, amount, block_number, depositor) ==
  poseidon2_hash_6(secret, npk, amount, block_number, depositor, DOMAIN_COMMITMENT)

compute_nullifier(secret, nsk) == poseidon2_hash_3(secret, nsk, DOMAIN_NULLIFIER)

compute_compliance_hash(depositor, recipient, amount, secret) ==
  poseidon2_hash_5(depositor, recipient, amount, secret, DOMAIN_COMPLIANCE)

(* The root that a leaf and a path of N siblings lead to.  A path is a      *)
(* place in a tree and the rest of that tree, with as many siblings as the *)
(* tree has levels; a root is its tree, the depth and the leaves.          *)
compute_merkle_root_n(leaf, path, N) ==
  [depth |-> N,
   leaves |-> IF path.index \in DOMAIN path.tree.leaves
              THEN [path.tree.leaves EXCEPT ![path.index] = leaf] ELSE <<leaf>>]

compute_merkle_root(leaf, path) == compute_merkle_root_n(leaf, path, TREE_DEPTH)

(* The types of main: arrays of another length are no inputs at all.       *)
Fits(w) ==
  w.merkle_path.tree.depth = TREE_DEPTH /\ w.registration_path.tree.depth = REGISTRATION_DEPTH

AsU64(x) == x[1] % U64

Constraint(message, holds) == [message |-> message, holds |-> holds]

(* main: what it asserts of private and public inputs w, in order.         *)
Constraints(w) == <<
  Constraint("NPK does not match NSK",
    compute_npk(w.nullifier_secret_key) = w.nullifier_pub_key),
  Constraint("Merkle root mismatch",
    compute_merkle_root(compute_commitment(w.secret, w.nullifier_pub_key, w.note_amount,
                          w.note_block_number, w.note_depositor), w.merkle_path)
      = w.expected_root),
  Constraint("Nullifier mismatch",
    compute_nullifier(w.secret, w.nullifier_secret_key) = w.nullifier),
  Constraint("Transfer amount must be positive", AsU64(w.transfer_amount) > 0),
  Constraint("Public amount mismatch", w.amount = w.transfer_amount),
  Constraint("Insufficient note balance", AsU64(w.transfer_amount) <= AsU64(w.note_amount)),
  Constraint("recipient.to_be_bytes()", w.recipient[1] < AddressBound),
  Constraint("Compliance hash mismatch",
    compute_compliance_hash(w.note_depositor, w.recipient, w.transfer_amount, w.secret)
      = w.compliance_hash),
  Constraint("NPK not in registration tree",
    compute_merkle_root_n(w.nullifier_pub_key, w.registration_path, REGISTRATION_DEPTH)
      = w.expected_registration_root)
  >>

Failed(w) == SelectSeq(Constraints(w), LAMBDA c : ~c.holds)

Satisfied(w) == Fits(w) /\ \A i \in DOMAIN Constraints(w) : Constraints(w)[i].holds
=============================================================================
