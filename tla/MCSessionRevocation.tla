------------------------- MODULE MCSessionRevocation -------------------------
(* SessionRevocation on small sets of interchangeable values.              *)
EXTENDS SessionRevocation, TLC

Symmetry == Permutations(Users) \cup Permutations(Tokens) \cup Permutations(Procs)

=============================================================================
