----------------------------- MODULE MCAvatars ------------------------------
(* One account, two overlapping requests, three pictures, and the life of    *)
(* the process that serves them.                                             *)
EXTENDS Shutdown
=============================================================================
