----------------------------- MODULE MCErasure -----------------------------
(* Two accounts, two requests and the daily job. *)
EXTENDS Erasure
=============================================================================
