--------------------------- MODULE MCSingleLogout ---------------------------
(* Instance of SingleLogout for TLC: users, tokens and connections are     *)
(* interchangeable.                                                        *)
EXTENDS SingleLogout, TLC

Symmetry == Permutations(Users) \cup Permutations(Tokens) \cup Permutations(Procs)

=============================================================================
