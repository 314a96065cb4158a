---------------------------- MODULE MCRateLimit -----------------------------
(* RateLimit for TLC.  Keys do not interact; requests of one key do.         *)
EXTENDS RateLimit
=============================================================================
