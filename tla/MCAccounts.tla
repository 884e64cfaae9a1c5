----------------------------- MODULE MCAccounts -----------------------------
(* One address, one reset link and four secrets: two requests and one failure. *)
EXTENDS Accounts, TLC
Symmetry == Permutations(Secrets) \cup Permutations(Requests)
=============================================================================
