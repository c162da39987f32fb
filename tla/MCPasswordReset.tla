--------------------------- MODULE MCPasswordReset ---------------------------
(* PasswordReset on small sets of interchangeable values.                   *)
EXTENDS PasswordReset, TLC

Symmetry == Permutations(Users) \cup Permutations(Tokens) \cup
            Permutations(Procs) \cup Permutations(Links)

=============================================================================
