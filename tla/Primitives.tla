----------------------------- MODULE Primitives -----------------------------
(***************************************************************************)
(* What SDK, circuits and operator take from libraries, as terms: field    *)
(* elements are numbers, sums and outputs of the permutation; keys, hashes *)
(* and what is encrypted are terms of what they were computed from.        *)
(* Nothing collides: two terms are equal only if the same steps lead to    *)
(* them, except that a key exchange gives both sides the same secret.      *)
(***************************************************************************)
EXTENDS Integers, Sequences, FiniteSetsExt, SequenceSums

Num(n) == <<n>>

Plus(a, b) == IF b = Num(0) THEN a ELSE <<"plus", a, b>>

(* The Poseidon2 permutation of four field elements.                       *)
Permute(state) == [i \in 1 .. 4 |-> <<"permuted", i, state>>]

PubKey(priv) == <<"pub", priv>>

SharedSecret(priv, pub) == {priv, pub[2]}

(* Of a shared secret and the number of a chunk of the key material.       *)
Keccak(shared, i) == <<shared, i>>

Hmac(key, message) == <<"mac", key, message>>

(* One block of 32 bytes with another.                                     *)
Xor(key, block) ==
  IF Len(block) = 3 /\ block[1] = "xor" /\ block[2] = key THEN block[3] ELSE <<"xor", key, block>>

-----------------------------------------------------------------------------
(* Bytes, as segments of what was put next to each other.                  *)
Segment(value, length) == [value |-> value, length |-> length]

(* Where segment i starts.                                                 *)
Offset(bytes, i) == PartialSums([j \in DOMAIN bytes |-> bytes[j].length], i - 1)[i - 1]

Length(bytes) == Offset(bytes, Len(bytes) + 1)

(* A slice along other bounds gives bytes that mean nothing.               *)
Slice(bytes, from, to) ==
  LET whole == {i \in DOMAIN bytes : Offset(bytes, i) = from /\ Offset(bytes, i + 1) = to}
  IN  IF whole = {} THEN <<"bytes", from, to>> ELSE bytes[CHOOSE i \in whole : TRUE].value
=============================================================================
