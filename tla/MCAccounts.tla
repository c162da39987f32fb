----------------------------- MODULE MCAccounts -----------------------------
(* Accounts with symmetric ids and requests.                               *)
EXTENDS Accounts, TLC

Symmetry == Permutations(Emails) \cup Permutations(Ids) \cup Permutations(Procs)

=============================================================================
