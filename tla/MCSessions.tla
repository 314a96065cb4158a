----------------------------- MODULE MCSessions -----------------------------
(* Sessions for TLC: two accounts, two overlapping requests.                 *)
EXTENDS Sessions, TLC

Symmetry == Permutations(Users) \cup Permutations(Procs)
=============================================================================
