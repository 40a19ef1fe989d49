--------------------------- MODULE MCRegistration ---------------------------
(* Registration for TLC: three addresses, of which two may change their key *)
(* and one may present the key of another.                                  *)
EXTENDS Registration

CONSTANTS alice, bob, carol, a1, a2, b1, b2, c1

MCAddress == {alice, bob, carol}
MCNpk == {a1, a2, b1, b2, c1}
MCKeysOf == [x \in MCAddress |-> CASE x = alice -> {a1, a2, b1} [] x = bob -> {b1, b2} [] OTHER -> {c1}]
=============================================================================
