----------------------------- MODULE MCRlsPool -----------------------------
(* Two requests of two tenants, each at any handler, on three connections:   *)
(* one create completes on its own, two of them exhaust the pool with their  *)
(* open transactions and wait on each other.                                 *)
EXTENDS RlsPool
CONSTANTS r1, r2
TenantOfMC == [r \in Requests |-> IF r = r1 THEN "t1" ELSE "t2"]
AllHandlersMC == AllHandlers
=============================================================================
