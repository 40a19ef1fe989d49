--------------------------- MODULE OperatorCrypto ---------------------------
(***************************************************************************)
(* The sequencer's own copy of the cryptography of notes                   *)
(* (packages/sequencer/src/crypto.ts), apart from that of the SDK, and what *)
(* the operator opens with it (operator.ts).                               *)
(***************************************************************************)
EXTENDS Primitives

CONSTANT ViewTags   \* the number of view tags: 256

DOMAIN_COMMITMENT == Num(1)
DOMAIN_NULLIFIER == Num(2)
DOMAIN_COMPLIANCE == Num(4)
DOMAIN_NPK == Num(5)

-----------------------------------------------------------------------------
Poseidon2Hash2(a, b) == Permute(<<a, b, Num(0), Num(0)>>)[1]

Poseidon2Hash3(a, b, c) == Permute(<<a, b, c, Num(0)>>)[1]

Poseidon2Hash5(a, b, c, d, e) ==
  LET state == Permute(<<a, b, c, Num(0)>>)
  IN  Permute(<<Plus(state[1], d), Plus(state[2], e), state[3], state[4]>>)[1]

Poseidon2Hash6(a, b, c, d, e, f) ==
  LET state == Permute(<<a, b, c, Num(0)>>)
  IN  Permute(<<Plus(state[1], d), Plus(state[2], e), Plus(state[3], f), state[4]>>)[1]

ComputeNpk(nsk) == Poseidon2Hash2(nsk, DOMAIN_NPK)

ComputeCommitment(secret, npk, amount, blockNumber, depositor) ==
  Poseidon2Hash6(secret, npk, amount, blockNumber, depositor, DOMAIN_COMMITMENT)

ComputeNullifier(secret, nsk) == Poseidon2Hash3(secret, nsk, DOMAIN_NULLIFIER)

ComputeComplianceHash(depositor, recipient, amount, secret) ==
  Poseidon2Hash5(depositor, recipient, amount, secret, DOMAIN_COMPLIANCE)

-----------------------------------------------------------------------------
ComputeViewTag(privKey, pubKey) == SumSet(SharedSecret(privKey, pubKey)) % ViewTags

(* In chunks of 32 bytes; what is encrypted is a number of such blocks.    *)
DeriveKeyMaterial(sharedSecret, length) ==
  [i \in 1 .. (length \div 32) |-> Keccak(sharedSecret, i - 1)]

EncodeNoteData(note) == <<note.secret, note.amount, note.blockNumber, note.depositor>>

(* A note for a recipient; the ephemeral key is fresh.                     *)
EncryptNote(ephPrivKey, recipientPubKey, note) ==
  LET keyMaterial == DeriveKeyMaterial(SharedSecret(ephPrivKey, recipientPubKey), 160)
      ciphertext == [i \in 1 .. 4 |-> Xor(keyMaterial[i], EncodeNoteData(note)[i])]
  IN  [ciphertext |-> ciphertext, mac |-> Hmac(keyMaterial[5], ciphertext),
       ephemeralPubKey |-> PubKey(ephPrivKey), viewTag |-> ComputeViewTag(ephPrivKey, recipientPubKey)]

(* The secret alone, for the operator.                                     *)
EncryptOperatorNote(ephPrivKey, operatorPubKey, secret) ==
  LET keyMaterial == DeriveKeyMaterial(SharedSecret(ephPrivKey, operatorPubKey), 64)
      ciphertext == <<Xor(keyMaterial[1], secret)>>
  IN  [ciphertext |-> ciphertext, mac |-> Hmac(keyMaterial[2], ciphertext),
       ephemeralPubKey |-> PubKey(ephPrivKey)]

(* The secret of an operator note, or nothing if the MAC is another.       *)
DecryptOperatorNote(privKey, enc) ==
  LET keyMaterial == DeriveKeyMaterial(SharedSecret(privKey, enc.ephemeralPubKey), 64)
      encKey == keyMaterial[1]
      macKey == keyMaterial[2]
  IN  IF enc.mac # Hmac(macKey, enc.ciphertext) THEN {} ELSE {Xor(encKey, enc.ciphertext[1])}

DecodeNoteData(blocks) ==
  [secret |-> blocks[1], amount |-> blocks[2], blockNumber |-> blocks[3], depositor |-> blocks[4]]

(* A whole note, for a key of the operator.                                *)
DecryptNote(privKey, enc) ==
  LET keyMaterial == DeriveKeyMaterial(SharedSecret(privKey, enc.ephemeralPubKey), 160)
      macKey == keyMaterial[5]
  IN  IF enc.mac # Hmac(macKey, enc.ciphertext)
      THEN {}
      ELSE {DecodeNoteData([i \in 1 .. 4 |-> Xor(keyMaterial[i], enc.ciphertext[i])])}

-----------------------------------------------------------------------------
(* POST /operator/decrypt, with the parts of a note.                       *)
DecryptCompliance(privKey, enc) == DecryptNote(privKey, enc)

(* (mutant: the operator's note is read from the view tag on)              *)
ParseOperatorNoteEarly(bytes) ==
  [ephemeralPubKey |-> Slice(bytes, 193, 226), ciphertext |-> Slice(bytes, 226, 258),
   mac |-> Slice(bytes, 258, 290)]

ParseOperatorNote(bytes) ==
  [ephemeralPubKey |-> Slice(bytes, 194, 227), ciphertext |-> Slice(bytes, 227, 259),
   mac |-> Slice(bytes, 259, 291)]

(* tryDecryptOperatorNote: the secret, or nothing.                         *)
TryDecryptOperatorNote(bytes, privKey) ==
  IF Length(bytes) < 291 THEN {} ELSE DecryptOperatorNote(privKey, ParseOperatorNote(bytes))
=============================================================================
