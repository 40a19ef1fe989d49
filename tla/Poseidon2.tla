----------------------------- MODULE Poseidon2 -----------------------------
(***************************************************************************)
(* The hash of the contract (contracts/src/Poseidon2.sol) and the one of   *)
(* the operator's tree (packages/sequencer/src/crypto.ts), as numbers.     *)
(* The other modules take one hash for both: TreeProofs says why they      *)
(* may.  The contract computes the layers of the permutation by fewer      *)
(* additions than their matrices have; the sequencer leaves the            *)
(* permutation to bb.js and adds what the sponge absorbs without reducing. *)
(***************************************************************************)
EXTENDS Integers

CONSTANTS P,          \* the order of the field
          D,          \* the diagonal of the internal matrix, less one
          _rc,        \* the constants of a full round
          _rcPartial, \* the constant of a partial round
          Word        \* one more than the largest number in 32 bytes

Lane == 1 .. 4

State == [Lane -> Nat]

Rounds == 64

IsFullRound(r) == r < 4 \/ r >= 60

(* What the theorems assume of the constants: two field elements add up to *)
(* less than a word.                                                       *)
Parameters ==
  /\ P \in Nat \ {0} /\ Word \in Nat /\ 2 * P <= Word
  /\ D \in State
  /\ _rc \in [{r \in 0 .. Rounds - 1 : IsFullRound(r)} -> State]
  /\ _rcPartial \in [{r \in 0 .. Rounds - 1 : ~ IsFullRound(r)} -> Nat]

addmod(a, b) == (a + b) % P

mulmod(a, b) == (a * b) % P

-----------------------------------------------------------------------------
(* The contract.                                                           *)
_sbox(x) ==
  LET x2 == mulmod(x, x)
      x4 == mulmod(x2, x2)
  IN  mulmod(x4, x)

_externalLayer(s) ==
  LET t0 == addmod(s[1], s[2])
      t1 == addmod(s[3], s[4])
      t2 == addmod(mulmod(2, s[2]), t1)
      t3 == addmod(mulmod(2, s[4]), t0)
      t4 == addmod(mulmod(4, t1), t3)
      t5 == addmod(mulmod(4, t0), t2)
  IN  <<addmod(t3, t5), t5, addmod(t2, t4), t4>>

_internalLayer(s) ==
  LET sum == addmod(addmod(s[1], s[2]), addmod(s[3], s[4]))
  IN  [i \in Lane |-> addmod(mulmod(D[i], s[i]), sum)]

_fullRound(s, rc) == _externalLayer([i \in Lane |-> _sbox(addmod(s[i], rc[i]))])

_partialRound(s, rc) == _internalLayer([s EXCEPT ![1] = _sbox(addmod(s[1], rc))])

_round(s, r) == IF IsFullRound(r) THEN _fullRound(s, _rc[r]) ELSE _partialRound(s, _rcPartial[r])

_permute(s) ==
  LET after[r \in 0 .. Rounds] == IF r = 0 THEN _externalLayer(s) ELSE _round(after[r - 1], r - 1)
  IN  after[Rounds]

hash_2(a, b) == _permute(<<a, b, 0, 0>>)[1]

hash_3(a, b, c) == _permute(<<a, b, c, 0>>)[1]

hash_5(a, b, c, d, e) ==
  LET state == _permute(<<a, b, c, 0>>)
  IN  _permute(<<addmod(state[1], d), addmod(state[2], e), state[3], state[4]>>)[1]

hash_6(a, b, c, d, e, f) ==
  LET state == _permute(<<a, b, c, 0>>)
  IN  _permute(<<addmod(state[1], d), addmod(state[2], e), addmod(state[3], f), state[4]>>)[1]

-----------------------------------------------------------------------------
(* The permutation as bb.js and Noir have it: by its matrices.             *)
ExternalMatrix == <<<<5, 7, 1, 3>>, <<4, 6, 1, 1>>, <<1, 3, 5, 7>>, <<1, 1, 4, 6>>>>

InternalMatrix == [i \in Lane |-> [j \in Lane |-> IF i = j THEN D[i] + 1 ELSE 1]]

Times(M, s) ==
  [i \in Lane |-> (M[i][1] * s[1] + M[i][2] * s[2] + M[i][3] * s[3] + M[i][4] * s[4]) % P]

Power5(x) == (x * x * x * x * x) % P

Round(s, r) ==
  IF IsFullRound(r)
  THEN Times(ExternalMatrix, [i \in Lane |-> Power5(s[i] + _rc[r][i])])
  ELSE Times(InternalMatrix, [s EXCEPT ![1] = Power5(s[1] + _rcPartial[r])])

Permutation(s) ==
  LET after[r \in 0 .. Rounds] ==
        IF r = 0 THEN Times(ExternalMatrix, s) ELSE Round(after[r - 1], r - 1)
  IN  after[Rounds]

-----------------------------------------------------------------------------
(* The sequencer.  A number that is no word cannot be passed to bb.js.     *)
poseidon2Permutation(state) ==
  IF \A i \in Lane : state[i] < Word THEN Permutation(state) ELSE [i \in Lane |-> Word]

poseidon2Hash2(a, b) == poseidon2Permutation(<<a, b, 0, 0>>)[1]

poseidon2Hash3(a, b, c) == poseidon2Permutation(<<a, b, c, 0>>)[1]

poseidon2Hash5(a, b, c, d, e) ==
  LET state == poseidon2Permutation(<<a, b, c, 0>>)
  IN  poseidon2Permutation(<<state[1] + d, state[2] + e, state[3], state[4]>>)[1]

poseidon2Hash6(a, b, c, d, e, f) ==
  LET state == poseidon2Permutation(<<a, b, c, 0>>)
  IN  poseidon2Permutation(<<state[1] + d, state[2] + e, state[3] + f, state[4]>>)[1]
=============================================================================
