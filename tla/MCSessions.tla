----------------------------- MODULE MCSessions -----------------------------
(* SessionsRefinement on small sets.  The refinement is checked as a       *)
(* property of initial states and steps, which permutations preserve.      *)
EXTENDS SessionsRefinement, TLC

Symmetry == Permutations(Users) \cup Permutations(Tokens) \cup Permutations(Procs)

=============================================================================
