---------------------------- MODULE MCReadCache ----------------------------
(* Two tenants ask for the dashboard of one business: two questions, one key. *)
EXTENDS ReadCache, TLC
CONSTANTS i1, i2, q1, q2, k1
KeyOfMC   == [q \in Questions |-> k1]
MatchesMC == q1 :> {i1, i2} @@ q2 :> {i1}
Symmetry  == Permutations(Readers) \cup Permutations(Queries)
=============================================================================
