------------------------------ MODULE MCLinks -------------------------------
(* Links and the public page for TLC. *)
EXTENDS PublicPage, TLC

Symmetry == Permutations(Users) \cup Permutations(Procs) \cup Permutations(Handles)
=============================================================================
