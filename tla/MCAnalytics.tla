---------------------------- MODULE MCAnalytics ----------------------------
(* Three events, two overlapping runs with batches of two, one failure. *)
EXTENDS Analytics
=============================================================================
