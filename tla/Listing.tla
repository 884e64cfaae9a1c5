------------------------------ MODULE Listing ------------------------------
(***************************************************************************)
(* What BusinessService promises of one listing, without requests, slugs,  *)
(* cards or an audit log: a state machine per business.                    *)
(*                                                                         *)
(*   unborn -> pending -> active <-> flagged        (submit, approve, flag)*)
(*   pending, active, flagged -> deleted            (soft delete)          *)
(*   deleted -> pending          within the grace   (restore)              *)
(*   deleted -> purged           after the grace    (purge)                *)
(***************************************************************************)
EXTENDS Naturals

CONSTANTS Listings, Grace, None

VARIABLES
    state,  \* the state of each listing
    until,  \* the last day a deleted listing can be restored, or None
    now

vars == <<state, until, now>>

OnAir  == {"pending", "active", "flagged"}
States == OnAir \cup {"unborn", "deleted", "purged"}

TypeOK ==
    /\ state \in [Listings -> States]
    /\ until \in [Listings -> Nat \cup {None}]
    /\ now \in Nat

Init ==
    /\ state = [l \in Listings |-> "unborn"]
    /\ until = [l \in Listings |-> None]
    /\ now = 0

Move(l, from, to) ==
    /\ state[l] \in from
    /\ state' = [state EXCEPT ![l] = to]
    /\ UNCHANGED now

Submit(l)  == Move(l, {"unborn"}, "pending") /\ UNCHANGED until
Approve(l) == Move(l, OnAir, "active") /\ UNCHANGED until
Flag(l)    == Move(l, OnAir, "flagged") /\ UNCHANGED until

Delete(l) ==
    /\ Move(l, OnAir, "deleted")
    /\ until' = [until EXCEPT ![l] = now + Grace]

Restore(l) ==
    /\ Move(l, {"deleted"}, "pending")
    /\ now <= until[l]
    /\ until' = [until EXCEPT ![l] = None]

Purge(l) ==
    /\ Move(l, {"deleted"}, "purged")
    /\ now > until[l]
    /\ until' = [until EXCEPT ![l] = None]

Tick == now' = now + 1 /\ UNCHANGED <<state, until>>

Next ==
    \/ \E l \in Listings : \/ Submit(l) \/ Approve(l) \/ Flag(l)
                           \/ Delete(l) \/ Restore(l) \/ Purge(l)
    \/ Tick

Spec == Init /\ [][Next]_vars
=============================================================================
