------------------------------ MODULE Erasure ------------------------------
(***************************************************************************)
(* The deletion of an account on request: requestDeletion and              *)
(* cancelDeletion of UsersService (users/users.service.ts), the admin's    *)
(* deleteUserAccount, suspendUser and activateUser (admin/admin.service.ts)*)
(* and the daily purgeScheduledUserDeletions of CleanupJobsService         *)
(* (common/jobs/cleanup.jobs.ts), which takes the businesses with it.      *)
(*                                                                         *)
(* A request is a chain of actions, one per awaited call that reads or     *)
(* writes shared state.  Mails and audit entries are left out: a step that *)
(* fails after the write changes nothing here.                             *)
(***************************************************************************)
EXTENDS Naturals, FiniteSets

CONSTANTS
    Users,
    Requests,  \* requests that may be in flight together
    Grace,     \* days between request and deletion, 30 in the code
    MaxTime,   \* bound: last day
    Null

Days == 0 .. (MaxTime + Grace)

UserRow == [requested: Days \cup {Null}, scheduled: Days \cup {Null}, suspended: BOOLEAN]
Request == [pc: {"idle", "ask_find", "ask_write", "cancel_find", "cancel_write",
                 "delete_write", "suspend_write"},
            u: Users \cup {Null}]

ASSUME ErasureAssumption ==
    /\ Grace \in Nat /\ MaxTime \in Nat
    /\ Null \notin Users \cup UserRow \cup Nat

VARIABLES
    user,     \* table users: row or Null
    biz,      \* the users whose businesses are still there
    now,
    req,
    job,      \* the purge: what it selected and has still to delete
    elapsed   \* history: the users a scheduled day has passed for

vars == <<user, biz, now, req, job, elapsed>>

Idle    == [pc |-> "idle", u |-> Null]
IdleJob == [on |-> FALSE, todo |-> {}]
NewUser == [requested |-> Null, scheduled |-> Null, suspended |-> FALSE]

Init ==
    /\ user = [u \in Users |-> NewUser]
    /\ biz \in SUBSET Users
    /\ now = 0
    /\ req = [r \in Requests |-> Idle]
    /\ job = IdleJob
    /\ elapsed = {}

Exists(u)   == user[u] # Null
Pending(u)  == Exists(u) /\ user[u].requested # Null
Free(r)     == req[r].pc = "idle"
At(r, pc)   == req[r].pc = pc
Goto(r, pc) == req' = [req EXCEPT ![r].pc = pc]
Finish(r)   == req' = [req EXCEPT ![r] = Idle]
Start(r, pc, u) == req' = [req EXCEPT ![r] = [pc |-> pc, u |-> u]]

\* userRepo.update of a row that may be gone.
Update(u, row) == user' = IF Exists(u) THEN [user EXCEPT ![u] = row] ELSE user

----------------------------------------------------------------------------
(* UsersService, for an account whose access token JwtAccessStrategy accepts *)

Authenticate(r, u, pc) ==
    /\ Free(r) /\ Exists(u) /\ ~user[u].suspended
    /\ Start(r, pc, u)
    /\ UNCHANGED <<user, biz, now, job, elapsed>>

RequestFind(r) ==
    /\ At(r, "ask_find")
    /\ IF Exists(req[r].u) /\ ~Pending(req[r].u) THEN Goto(r, "ask_write") ELSE Finish(r)
    /\ UNCHANGED <<user, biz, now, job, elapsed>>

\* deletion_requested_at and deletion_scheduled_at in one update; the
\* mutation schedules the deletion after twice the grace.
ScheduledTwice(row) == [row EXCEPT !.requested = now, !.scheduled = now + Grace + Grace]
ScheduledRow(row)   == [row EXCEPT !.requested = now, !.scheduled = now + Grace]

RequestWrite(r) ==
    LET u == req[r].u IN
    /\ At(r, "ask_write")
    /\ Update(u, ScheduledRow(user[u]))
    /\ Finish(r)
    /\ UNCHANGED <<biz, now, job, elapsed>>

CancelFind(r) ==
    /\ At(r, "cancel_find")
    /\ IF Pending(req[r].u) THEN Goto(r, "cancel_write") ELSE Finish(r)
    /\ UNCHANGED <<user, biz, now, job, elapsed>>

\* The mutation clears one column of the two.
CancelledHalf(row) == [row EXCEPT !.requested = Null]
CancelledRow(row)  == [row EXCEPT !.requested = Null, !.scheduled = Null]

CancelWrite(r) ==
    LET u == req[r].u IN
    /\ At(r, "cancel_write")
    /\ Update(u, CancelledRow(user[u]))
    /\ Finish(r)
    /\ UNCHANGED <<biz, now, job, elapsed>>

----------------------------------------------------------------------------
(* AdminService *)

AdminFind(r, u, pc) ==
    /\ Free(r) /\ Exists(u)
    /\ Start(r, pc, u)
    /\ UNCHANGED <<user, biz, now, job, elapsed>>

\* deleteUserAccount: whatever was scheduled before is scheduled anew
DeleteWrite(r) ==
    LET u == req[r].u IN
    /\ At(r, "delete_write")
    /\ Update(u, [ScheduledRow(user[u]) EXCEPT !.suspended = TRUE])
    /\ Finish(r)
    /\ UNCHANGED <<biz, now, job, elapsed>>

SuspendWrite(r) ==
    LET u == req[r].u IN
    /\ At(r, "suspend_write")
    /\ Update(u, [user[u] EXCEPT !.suspended = TRUE])
    /\ Finish(r)
    /\ UNCHANGED <<biz, now, job, elapsed>>

\* activateUser: of whatever id, and the schedule stays
Activate(r, u) ==
    /\ Free(r)
    /\ Update(u, [user[u] EXCEPT !.suspended = FALSE])
    /\ UNCHANGED <<biz, now, req, job, elapsed>>

----------------------------------------------------------------------------
(* purgeScheduledUserDeletions *)

Due(u) == Pending(u) /\ user[u].scheduled # Null /\ user[u].scheduled < now

\* What the job selects; the mutations take every pending deletion, and swap the
\* comparison.
SelectPending == {u \in Users : Pending(u)}
SelectInGrace == {u \in Users : Pending(u) /\ ~Due(u)}
Selected      == {u \in Users : Due(u)}

JobStart ==
    /\ ~job.on /\ Selected # {}
    /\ job' = [on |-> TRUE, todo |-> Selected]
    /\ UNCHANGED <<user, biz, now, req, elapsed>>

\* userRepo.delete(user.id): by id alone, the businesses go with the row
JobDelete(u) ==
    /\ job.on /\ u \in job.todo
    /\ user' = [user EXCEPT ![u] = Null]
    /\ biz' = biz \ {u}
    /\ job' = IF job.todo = {u} THEN IdleJob ELSE [job EXCEPT !.todo = @ \ {u}]
    /\ UNCHANGED <<now, req, elapsed>>

\* The process dies, or the database refuses the delete.
JobFail ==
    /\ job.on
    /\ job' = IdleJob
    /\ UNCHANGED <<user, biz, now, req, elapsed>>

Fail(r) ==
    /\ ~Free(r)
    /\ Finish(r)
    /\ UNCHANGED <<user, biz, now, job, elapsed>>

\* Bound: a run of the job and a request end on the day they start.
Tick ==
    /\ now < MaxTime /\ ~job.on /\ \A r \in Requests : Free(r)
    /\ now' = now + 1
    /\ elapsed' = elapsed \cup {u \in Users : Pending(u) /\ user[u].scheduled < now'}
    /\ UNCHANGED <<user, biz, req, job>>

Step(r) ==
    \/ \E u \in Users :
         \/ Authenticate(r, u, "ask_find") \/ Authenticate(r, u, "cancel_find")
         \/ AdminFind(r, u, "delete_write") \/ AdminFind(r, u, "suspend_write")
         \/ Activate(r, u)
    \/ RequestFind(r) \/ RequestWrite(r) \/ CancelFind(r) \/ CancelWrite(r)
    \/ DeleteWrite(r) \/ SuspendWrite(r) \/ Fail(r)

JobStep == JobStart \/ \E u \in Users : JobDelete(u)

Next == (\E r \in Requests : Step(r)) \/ JobStep \/ JobFail \/ Tick
Spec == Init /\ [][Next]_vars

\* The cron comes back every day, and a run that keeps failing succeeds in the end.
FairSpec == Spec /\ WF_vars(JobStart) /\ \A u \in Users : SF_vars(JobDelete(u))

----------------------------------------------------------------------------
(* Properties *)

TypeOK ==
    /\ user \in [Users -> UserRow \cup {Null}]
    /\ biz \subseteq Users
    /\ now \in 0 .. MaxTime
    /\ req \in [Requests -> Request]
    /\ job \in [on: BOOLEAN, todo: SUBSET Users]
    /\ elapsed \subseteq Users

\* An account is erased only when a full grace has run out at least once with
\* the deletion still pending, however requests, cancellations and admins race
\* with a run of the job (purgeScheduledUserDeletions).
ErasedAfterGraceOnly ==
    [][\A u \in Users : Exists(u) /\ user'[u] = Null => u \in elapsed]_vars

\* Both deletion columns are set or neither, and the day is never closer than
\* the grace: no order of updates leaves an account that is pending for ever or
\* erased early (requestDeletion, cancelDeletion, deleteUserAccount).
ScheduleWhole ==
    \A u \in Users : Exists(u) =>
        IF Pending(u) THEN user[u].scheduled = user[u].requested + Grace
                      ELSE user[u].scheduled = Null

\* A deletion that stays due is carried out, even when runs of the job die
\* half-way (purgeScheduledUserDeletions).
DueIsErased == \A u \in Users : Due(u) ~> ~Due(u)
=============================================================================
