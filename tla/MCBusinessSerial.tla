-------------------------- MODULE MCBusinessSerial --------------------------
(* One request at a time, the purge job and a visitor beside it, one failure. *)
EXTENDS Cards
AllKindsMC == {"create", "update", "softDelete", "restore", "approve", "flag"}
=============================================================================
