----------------------------- MODULE NoteCrypto -----------------------------
(***************************************************************************)
(* Notes as the SDK computes with them (packages/sdk/src/core): the hashes *)
(* with their domains, the keys derived from a signature, the encryption   *)
(* of a note for its recipient and of its secret for the operator, and the *)
(* bytes a deposit carries them in.                                        *)
(***************************************************************************)
EXTENDS Primitives

CONSTANT ViewTags   \* the number of view tags: 256

DOMAIN_COMMITMENT == Num(1)
DOMAIN_NULLIFIER == Num(2)
DOMAIN_COMPLIANCE == Num(4)
DOMAIN_NPK == Num(5)

-----------------------------------------------------------------------------
Poseidon2Hash2(a, b) == Permute(<<a, b, Num(0), Num(0)>>)[1]

Poseidon2Hash3(a, b, c) == Permute(<<a, b, c, Num(0)>>)[1]

(* The sponge of rate three: what does not fit is added after a permutation. *)
Poseidon2Hash5(a, b, c, d, e) ==
  LET state == Permute(<<a, b, c, Num(0)>>)
  IN  Permute(<<Plus(state[1], d), Plus(state[2], e), state[3], state[4]>>)[1]

Poseidon2Hash6(a, b, c, d, e, f) ==
  LET state == Permute(<<a, b, c, Num(0)>>)
  IN  Permute(<<Plus(state[1], d), Plus(state[2], e), Plus(state[3], f), state[4]>>)[1]

ComputeNpk(nsk) == Poseidon2Hash2(nsk, DOMAIN_NPK)

ComputeCommitment(note, npk) ==
  Poseidon2Hash6(note.secret, npk, note.amount, note.blockNumber, note.depositor, DOMAIN_COMMITMENT)

ComputeNullifier(secret, nsk) == Poseidon2Hash3(secret, nsk, DOMAIN_NULLIFIER)

ComputeComplianceHash(depositor, recipient, amount, secret) ==
  Poseidon2Hash5(depositor, recipient, amount, secret, DOMAIN_COMPLIANCE)

-----------------------------------------------------------------------------
(* deriveKeys: everything from one signature.                              *)
Keys(signature) ==
  [nsk |-> Num(signature), npk |-> ComputeNpk(Num(signature)),
   encPrivKey |-> signature, encPubKey |-> PubKey(signature)]

ViewTag(shared) == SumSet(shared) % ViewTags

(* Encryption of the blocks: a key block each, and one more for the MAC.   *)
Encrypt(priv, pub, blocks) ==
  LET shared == SharedSecret(priv, pub)
      ciphertext == [i \in DOMAIN blocks |-> Xor(Keccak(shared, i - 1), blocks[i])]
  IN  [ephemeralPubKey |-> PubKey(priv), ciphertext |-> ciphertext,
       mac |-> Hmac(Keccak(shared, Len(blocks)), ciphertext)]

(* (mutant: the MAC is not verified)                                       *)
MacAny(enc, key) == TRUE

MacValid(enc, key) == enc.mac = Hmac(key, enc.ciphertext)

(* The four blocks of a note, or nothing.                                  *)
DecryptNote(priv, enc) ==
  LET shared == SharedSecret(priv, enc.ephemeralPubKey)
  IN  IF MacValid(enc, Keccak(shared, 4))
      THEN {[i \in 1 .. 4 |-> Xor(Keccak(shared, i - 1), enc.ciphertext[i])]}
      ELSE {}

EncodeNoteData(note) == <<note.secret, note.amount, note.blockNumber, note.depositor>>

DecodeNoteData(blocks) ==
  [secret |-> blocks[1], amount |-> blocks[2], blockNumber |-> blocks[3], depositor |-> blocks[4]]

EncryptNote(priv, pub, note) == Encrypt(priv, pub, EncodeNoteData(note))

EncryptOperatorNote(priv, pub, secret) == Encrypt(priv, pub, <<secret>>)

-----------------------------------------------------------------------------
(* The bytes a deposit carries.                                            *)
PackNote(enc, tag) ==
  <<Segment(enc.ephemeralPubKey, 33), Segment(enc.ciphertext, 128), Segment(enc.mac, 32),
    Segment(tag, 1)>>

PackOperatorNote(enc) ==
  <<Segment(enc.ephemeralPubKey, 33), Segment(enc.ciphertext, 32), Segment(enc.mac, 32)>>

ParseEncryptedNote(bytes) ==
  [ephemeralPubKey |-> Slice(bytes, 0, 33), ciphertext |-> Slice(bytes, 33, 161),
   mac |-> Slice(bytes, 161, 193), viewTag |-> Slice(bytes, 193, 194)]

(* tryDecryptNote: the note, or nothing if it is not for these keys.  The  *)
(* commitment is computed from what was decrypted, not compared.           *)
TryDecryptNote(leafIndex, bytes, keys) ==
  LET enc == ParseEncryptedNote(bytes)
  IN  IF ViewTag(SharedSecret(keys.encPrivKey, enc.ephemeralPubKey)) # enc.viewTag
      THEN {}
      ELSE {[leafIndex |-> leafIndex, note |-> DecodeNoteData(blocks),
             commitment |-> ComputeCommitment(DecodeNoteData(blocks), keys.npk)] :
               blocks \in DecryptNote(keys.encPrivKey, enc)}
=============================================================================
