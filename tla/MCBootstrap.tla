---------------------------- MODULE MCBootstrap ----------------------------
(* Two servers and a command line on a new file, or on one of an older       *)
(* release with one or two accounts.                                         *)
EXTENDS Bootstrap
=============================================================================
