------------------------------- MODULE MCAccounts -------------------------------
(* Accounts on its own: two callbacks of one Google sign-in. *)
EXTENDS Accounts, TLC

Alike == Permutations(Requests)
===============================================================================
