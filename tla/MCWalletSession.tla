-------------------------- MODULE MCWalletSession --------------------------
(* WalletSession for TLC.                                                  *)
EXTENDS WalletSession, TLC

(* The accounts differ in nothing.                                         *)
Sym == Permutations(Accounts)
=============================================================================
