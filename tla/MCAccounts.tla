----------------------------- MODULE MCAccounts -----------------------------
(* Accounts for TLC: one HTTP worker and one command-line process over three *)
(* account ids.  The names other than the configured one are interchangeable.*)
EXTENDS Accounts, TLC

Symmetry == Permutations(Names \ {Root})
=============================================================================
