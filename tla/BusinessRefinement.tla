------------------------- MODULE BusinessRefinement -------------------------
(***************************************************************************)
(* The promise of Listing, read off the tables of BusinessLifecycle: the   *)
(* state of a listing is its status column while the row is live.          *)
(***************************************************************************)
EXTENDS BusinessLifecycle

ListingState(b) ==
    IF b \in fresh THEN "unborn"
    ELSE IF ~Exists(b) THEN "purged"
    ELSE IF biz[b].deletedAt # Null THEN "deleted"
    ELSE biz[b].status

L == INSTANCE Listing WITH
    Listings <- BizIds, Grace <- Grace, None <- Null, now <- now,
    state <- [b \in BizIds |-> ListingState(b)],
    until <- [b \in BizIds |-> IF Exists(b) THEN biz[b].permanentAt ELSE Null]

\* One request at a time, with the purge at work beside it and failures between
\* any two statements, keeps every listing inside its state machine
\* (BusinessService, purgeExpiredSoftDeletedBusinesses).
ImplementsListing == L!Spec
=============================================================================
