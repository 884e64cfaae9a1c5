--------------------------- MODULE MCMediaUpload ---------------------------
(* Two uploads, by the owner or by a stranger, to a business that may hold one file. *)
EXTENDS MediaUpload, TLC
CONSTANTS u1, u2, b1
OwnerOfMC == [b \in Businesses |-> u1]
Symmetry == Permutations(Files) \cup Permutations(Requests)
=============================================================================
