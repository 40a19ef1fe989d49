--------------------------- MODULE MCPrivacyPool ---------------------------
(***************************************************************************)
(* Small instances of PrivacyPool for TLC.                                 *)
(***************************************************************************)
EXTENDS PrivacyPool

CONSTANTS alice, bob, pool, operator, zero, k1, k2, s1, s2

MCUser == {alice}

\* Two notes that share a nullifier, with different amounts, and one of its
\* own.  Each may be deposited for more or for less than it commits to.
MCNote == {[secret |-> s1, key |-> k1, amount |-> 1, depositor |-> alice],
           [secret |-> s1, key |-> k1, amount |-> 2, depositor |-> alice],
           [secret |-> s2, key |-> k1, amount |-> 2, depositor |-> alice]}
=============================================================================
