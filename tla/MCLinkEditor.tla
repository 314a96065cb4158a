---------------------------- MODULE MCLinkEditor ----------------------------
(* LinkEditor for TLC: one link at the start, a second can be created.         *)
EXTENDS LinkEditor

Symmetry == Permutations(Calls)
=============================================================================
