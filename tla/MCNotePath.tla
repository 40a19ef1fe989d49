----------------------------- MODULE MCNotePath -----------------------------
(* The way of a note for TLC: alice has two pairs of keys (a wallet that    *)
(* did not sign the same twice), bob one; all view tags but two collide;   *)
(* an amount of 5 is 1 modulo U64 = 4.                                     *)
EXTENDS NotePath, TestVectors

CONSTANTS alice, bob

MCAddress == {alice, bob}
MCSignaturesOf == [x \in MCAddress |-> IF x = alice THEN {1, 2} ELSE {3}]
MCKeysOf == [x \in MCAddress |-> {Keys(s).npk : s \in MCSignaturesOf[x]}]
MCNpk == UNION {MCKeysOf[x] : x \in MCAddress}
MCPayments ==
  <<[from |-> bob, to |-> 1, amount |-> 1, forOperator |-> TRUE],
    [from |-> alice, to |-> 3, amount |-> 2, forOperator |-> TRUE],
    [from |-> bob, to |-> 1, amount |-> 5, forOperator |-> FALSE]>>
MCFieldOf == [x \in MCAddress |-> IF x = alice THEN Num(11) ELSE Num(12)]
=============================================================================
