----------------------------- MODULE MCCounting -----------------------------
(* Counting and the dashboard for TLC: one visitor, whose page views and     *)
(* clicks on one link are counted by two overlapping beacons (counts of      *)
(* different visitors only meet in the counters), and one dashboard.         *)
EXTENDS Dashboard
=============================================================================
