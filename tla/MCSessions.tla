----------------------------- MODULE MCSessions -----------------------------
(* One account, two requests. *)
EXTENDS Sessions, TLC
AllKindsMC == {"login", "google", "refresh", "logout", "suspend", "activate"}
Symmetry == Permutations(Pairs) \cup Permutations(Requests)
=============================================================================
