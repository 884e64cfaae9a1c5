----------------------- MODULE MCBusinessConcurrent -----------------------
(* Two requests and the purge job at work together. *)
EXTENDS BusinessLifecycle, TLC
AllKindsMC == {"create", "update", "softDelete", "restore", "approve", "flag"}
NoFlagMC == AllKindsMC \ {"flag"}
Symmetry == Permutations(BizIds) \cup Permutations(Requests)
=============================================================================
