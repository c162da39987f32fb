--------------------------- MODULE MCSecondFactor ---------------------------
(* Instance of SecondFactor for TLC. *)
EXTENDS SecondFactor, TLC

Symmetry == Permutations(Secrets) \cup Permutations(Sessions) \cup Permutations(Procs)

=============================================================================
