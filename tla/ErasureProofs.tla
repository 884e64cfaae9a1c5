--------------------------- MODULE ErasureProofs ---------------------------
(***************************************************************************)
(* What Erasure promises for any users, requests, grace and number of      *)
(* days: both deletion columns change together, and no account is erased   *)
(* without a grace that has run out.                                       *)
(***************************************************************************)
EXTENDS Erasure, TLAPS

\* A request past its check holds the account it is about.
Holds(r) == ~Free(r) => req[r].u \in Users

\* A day that has passed has been noticed, and what the job holds had one.
DueNoticed == \A u \in Users : Due(u) => u \in elapsed

IInv ==
    /\ TypeOK
    /\ \A r \in Requests : Holds(r)
    /\ ScheduleWhole
    /\ DueNoticed
    /\ job.todo \subseteq elapsed

\* A row as the table may hold it on this day: whole, and not due when written.
Sound(row) ==
    IF row.requested # Null THEN row.scheduled = row.requested + Grace
                            ELSE row.scheduled = Null

----------------------------------------------------------------------------
LEMMA ScheduledRowOK ==
    ASSUME IInv, NEW row \in UserRow
    PROVE  /\ ScheduledRow(row) \in UserRow
           /\ ScheduledRow(row).requested = now /\ ScheduledRow(row).scheduled = now + Grace
           /\ ScheduledRow(row).suspended = row.suspended
           /\ now \in Nat /\ now # Null
  <1>1. now \in Nat /\ now # Null /\ now \in Days /\ now + Grace \in Days
    BY ErasureAssumption DEF IInv, TypeOK, Days
  <1> DEFINE day == now + Grace
             new == [row EXCEPT !.requested = now, !.scheduled = day]
  <1> HIDE DEF day
  <1>2. day \in Days
    BY <1>1 DEF day
  <1>3. /\ new \in UserRow
        /\ new.requested = now /\ new.scheduled = day /\ new.suspended = row.suspended
    BY <1>1, <1>2 DEF UserRow
  <1>4. ScheduledRow(row) = new
    BY DEF ScheduledRow, day
  <1> HIDE DEF new
  <1> QED BY <1>1, <1>3, <1>4 DEF day

\* A write of one row keeps the invariant when the row is whole and due no earlier
\* than the one it replaces.
LEMMA WriteInv ==
    ASSUME IInv, NEW u \in Users, NEW row,
           Exists(u) => /\ row \in UserRow /\ Sound(row)
                        /\ row.requested # Null => \/ row.scheduled >= now
                                                   \/ /\ row.requested = user[u].requested
                                                      /\ row.scheduled = user[u].scheduled,
           Update(u, row), UNCHANGED <<biz, now, job, elapsed>>
    PROVE  /\ user' \in [Users -> UserRow \cup {Null}]
           /\ ScheduleWhole' /\ DueNoticed'
  <1>1. CASE ~Exists(u)
    BY <1>1 DEF Update, IInv, TypeOK, ScheduleWhole, DueNoticed, Due, Pending, Exists
  <1>2. CASE Exists(u)
    <2>1. user' = [user EXCEPT ![u] = row] /\ row \in UserRow /\ row # Null
      BY <1>2, ErasureAssumption DEF Update
    <2>2. user' \in [Users -> UserRow \cup {Null}]
      BY <2>1 DEF IInv, TypeOK
    <2>3. ASSUME NEW v \in Users
          PROVE  /\ Exists(v)' => IF Pending(v)'
                                    THEN user'[v].scheduled = user'[v].requested + Grace
                                    ELSE user'[v].scheduled = Null
                 /\ Due(v)' => v \in elapsed'
      <3>1. CASE v # u
        <4>1. user'[v] = user[v]
          BY <2>1, <3>1 DEF IInv, TypeOK
        <4> QED BY <4>1 DEF IInv, ScheduleWhole, DueNoticed, Due, Pending, Exists
      <3>2. CASE v = u
        <4>1. user'[v] = row
          BY <2>1, <3>2 DEF IInv, TypeOK
        <4>2. Sound(row)
          BY <1>2
        <4>3. Due(v)' => Due(v)
          <5> SUFFICES ASSUME Due(v)' PROVE Due(v)
            OBVIOUS
          <5>1. row.requested # Null /\ row.scheduled # Null /\ row.scheduled < now
            BY <4>1 DEF Due, Pending
          <5>2. now \in Nat /\ row.scheduled \in Nat
            BY <2>1, <5>1, ErasureAssumption DEF IInv, TypeOK, UserRow, Days
          <5> QED BY <1>2, <3>2, <5>1, <5>2 DEF Due, Pending, Exists
        <4> QED BY <4>1, <4>2, <4>3 DEF Sound, Pending, Exists, IInv, DueNoticed
      <3> QED BY <3>1, <3>2
    <2> QED BY <2>2, <2>3 DEF ScheduleWhole, DueNoticed
  <1> QED BY <1>1, <1>2

\* The rest of the invariant, when a request does no more than move on or end.
LEMMA RequestInv ==
    ASSUME IInv, NEW r \in Requests, NEW q \in Request, q.pc # "idle" => q.u \in Users,
           req' = [req EXCEPT ![r] = q], UNCHANGED <<biz, now, job, elapsed>>,
           user' \in [Users -> UserRow \cup {Null}], ScheduleWhole', DueNoticed'
    PROVE  IInv'
  BY DEF IInv, TypeOK, Holds, Free

LEMMA IdleOK == Idle \in Request /\ Idle.pc = "idle"
  BY DEF Idle, Request

LEMMA ReadOnly ==
    ASSUME IInv, NEW r \in Requests, NEW q \in Request, q.pc # "idle" => q.u \in Users,
           req' = [req EXCEPT ![r] = q], UNCHANGED <<user, biz, now, job, elapsed>>
    PROVE  IInv'
  BY RequestInv DEF IInv, TypeOK, ScheduleWhole, DueNoticed, Due, Pending, Exists

----------------------------------------------------------------------------
LEMMA InitInv == Init => IInv
  BY ErasureAssumption
  DEF Init, IInv, TypeOK, Holds, Free, Idle, IdleJob, NewUser, ScheduleWhole, DueNoticed,
      Due, Pending, Exists, UserRow, Request, Days

LEMMA StartInv ==
    ASSUME IInv, NEW r \in Requests, NEW u \in Users,
           \/ \E pc \in {"ask_find", "cancel_find"} : Authenticate(r, u, pc)
           \/ \E pc \in {"delete_write", "suspend_write"} : AdminFind(r, u, pc)
    PROVE  IInv'
  <1>1. PICK pc \in {"ask_find", "cancel_find", "delete_write", "suspend_write"} :
           /\ req' = [req EXCEPT ![r] = [pc |-> pc, u |-> u]]
           /\ UNCHANGED <<user, biz, now, job, elapsed>>
    BY DEF Authenticate, AdminFind, Start
  <1>2. [pc |-> pc, u |-> u] \in Request
    BY DEF Request
  <1> QED BY <1>1, <1>2, ReadOnly

LEMMA FindInv ==
    ASSUME IInv, NEW r \in Requests, RequestFind(r) \/ CancelFind(r) \/ Fail(r)
    PROVE  IInv'
  <1>1. PICK q : /\ q = Idle \/ q = [req[r] EXCEPT !.pc = "ask_write"]
                             \/ q = [req[r] EXCEPT !.pc = "cancel_write"]
                 /\ req' = [req EXCEPT ![r] = q]
                 /\ ~Free(r)
                 /\ UNCHANGED <<user, biz, now, job, elapsed>>
    <2>1. ~Free(r)
      BY DEF RequestFind, CancelFind, Fail, At, Free
    <2>2. CASE Finish(r)
      BY <2>1, <2>2 DEF RequestFind, CancelFind, Fail, Finish
    <2>3. CASE Goto(r, "ask_write") \/ Goto(r, "cancel_write")
      BY <2>1, <2>3 DEF RequestFind, CancelFind, Fail, Goto
    <2> QED BY <2>2, <2>3 DEF RequestFind, CancelFind, Fail
  <1>2. req[r] \in Request /\ req[r].u \in Users
    BY <1>1 DEF IInv, TypeOK, Holds
  <1>3. q \in Request /\ (q.pc # "idle" => q.u \in Users)
    BY <1>1, <1>2 DEF Request, Idle
  <1> QED BY <1>1, <1>3, ReadOnly

LEMMA RowWriteInv ==
    ASSUME IInv, NEW r \in Requests,
           RequestWrite(r) \/ CancelWrite(r) \/ DeleteWrite(r) \/ SuspendWrite(r)
    PROVE  IInv'
  <1> DEFINE u == req[r].u
  <1>1. u \in Users
    BY DEF IInv, Holds, Free, At, RequestWrite, CancelWrite, DeleteWrite, SuspendWrite
  <1>2. req' = [req EXCEPT ![r] = Idle] /\ UNCHANGED <<biz, now, job, elapsed>>
    BY DEF RequestWrite, CancelWrite, DeleteWrite, SuspendWrite, Finish
  <1>3. Exists(u) => user[u] \in UserRow
    BY <1>1 DEF IInv, TypeOK, Exists
  <1>4. Exists(u) => Sound(user[u])
    BY <1>1 DEF IInv, ScheduleWhole, Sound, Pending
  <1> SUFFICES user' \in [Users -> UserRow \cup {Null}] /\ ScheduleWhole' /\ DueNoticed'
    BY <1>2, IdleOK, RequestInv
  <1> HIDE DEF u
  <1>5. CASE RequestWrite(r)
    <2>1. Exists(u) => /\ ScheduledRow(user[u]) \in UserRow /\ Sound(ScheduledRow(user[u]))
                       /\ ScheduledRow(user[u]).scheduled >= now
      BY <1>3, ScheduledRowOK, ErasureAssumption DEF Sound
    <2>2. Update(u, ScheduledRow(user[u]))
      BY <1>5 DEF RequestWrite, u
    <2> QED BY <1>1, <1>2, <2>1, <2>2, WriteInv
  <1>6. CASE CancelWrite(r)
    <2>1. Exists(u) => /\ CancelledRow(user[u]) \in UserRow /\ Sound(CancelledRow(user[u]))
                       /\ CancelledRow(user[u]).requested = Null
      BY <1>3 DEF CancelledRow, Sound, UserRow
    <2>2. Update(u, CancelledRow(user[u]))
      BY <1>6 DEF CancelWrite, u
    <2> QED BY <1>1, <1>2, <2>1, <2>2, WriteInv
  <1>7. CASE DeleteWrite(r)
    <2> DEFINE row == [ScheduledRow(user[u]) EXCEPT !.suspended = TRUE]
    <2>1. Exists(u) => /\ row \in UserRow
                       /\ row.requested = now /\ row.scheduled = now + Grace /\ now # Null
                       /\ now \in Nat
      BY <1>3, ScheduledRowOK DEF UserRow
    <2>2. Exists(u) => Sound(row) /\ row.scheduled >= now
      BY <2>1, ErasureAssumption DEF Sound
    <2>3. Update(u, row)
      BY <1>7 DEF DeleteWrite, u
    <2> HIDE DEF row
    <2> QED BY <1>1, <1>2, <2>1, <2>2, <2>3, WriteInv
  <1>8. CASE SuspendWrite(r)
    <2> DEFINE row == [user[u] EXCEPT !.suspended = TRUE]
    <2>1. Exists(u) => /\ row \in UserRow
                       /\ row.requested = user[u].requested
                       /\ row.scheduled = user[u].scheduled
      BY <1>3 DEF UserRow
    <2>2. Exists(u) => Sound(row)
      BY <2>1, <1>4 DEF Sound
    <2>3. Update(u, row)
      BY <1>8 DEF SuspendWrite, u
    <2> HIDE DEF row
    <2> QED BY <1>1, <1>2, <2>1, <2>2, <2>3, WriteInv
  <1> QED BY <1>5, <1>6, <1>7, <1>8

LEMMA ActivateInv ==
    ASSUME IInv, NEW r \in Requests, NEW u \in Users, Activate(r, u)
    PROVE  IInv'
  <1> DEFINE row == [user[u] EXCEPT !.suspended = FALSE]
  <1>1. Exists(u) => user[u] \in UserRow /\ Sound(user[u])
    BY DEF IInv, TypeOK, Exists, ScheduleWhole, Sound, Pending
  <1>2. Exists(u) => /\ row \in UserRow
                     /\ row.requested = user[u].requested
                     /\ row.scheduled = user[u].scheduled
    BY <1>1 DEF UserRow
  <1>3. Exists(u) => Sound(row)
    BY <1>1, <1>2 DEF Sound
  <1>4. Update(u, row) /\ UNCHANGED <<biz, now, req, job, elapsed>>
    BY DEF Activate
  <1> HIDE DEF row
  <1>5. user' \in [Users -> UserRow \cup {Null}] /\ ScheduleWhole' /\ DueNoticed'
    BY <1>2, <1>3, <1>4, WriteInv
  <1> QED BY <1>4, <1>5 DEF IInv, TypeOK, Holds, Free

LEMMA JobInv ==
    ASSUME IInv, JobStart \/ (\E u \in Users : JobDelete(u)) \/ JobFail
    PROVE  IInv'
  <1>1. CASE JobStart
    <2>1. Selected \subseteq elapsed /\ Selected \subseteq Users
      BY DEF IInv, DueNoticed, Selected
    <2> QED BY <1>1, <2>1 DEF JobStart, IInv, TypeOK, Holds, Free, ScheduleWhole, DueNoticed,
                              Due, Pending, Exists
  <1>2. ASSUME NEW u \in Users, JobDelete(u) PROVE IInv'
    <2>1. TypeOK'
      BY <1>2 DEF JobDelete, IdleJob, IInv, TypeOK
    <2>2. job'.todo \subseteq elapsed'
      BY <1>2 DEF JobDelete, IdleJob, IInv, TypeOK
    <2>3. ASSUME NEW v \in Users PROVE user'[v] = Null \/ user'[v] = user[v]
      BY <1>2 DEF JobDelete, IInv, TypeOK
    <2>4. ScheduleWhole' /\ DueNoticed'
      BY <1>2, <2>3 DEF JobDelete, IInv, ScheduleWhole, DueNoticed, Due, Pending, Exists
    <2> QED BY <1>2, <2>1, <2>2, <2>4 DEF JobDelete, IInv, Holds, Free
  <1>3. CASE JobFail
    BY <1>3 DEF JobFail, IdleJob, IInv, TypeOK, Holds, Free, ScheduleWhole, DueNoticed,
                Due, Pending, Exists
  <1> QED BY <1>1, <1>2, <1>3

LEMMA TickInv == ASSUME IInv, Tick PROVE IInv'
  <1>1. TypeOK'
    BY ErasureAssumption DEF Tick, IInv, TypeOK
  <1>2. DueNoticed'
    BY DEF Tick, IInv, DueNoticed, Due, Pending, Exists
  <1>3. ScheduleWhole' /\ job'.todo \subseteq elapsed' /\ \A r \in Requests : Holds(r)'
    BY DEF Tick, IInv, ScheduleWhole, Pending, Exists, Holds, Free
  <1> QED BY <1>1, <1>2, <1>3 DEF IInv

LEMMA NextInv == IInv /\ [Next]_vars => IInv'
  <1> SUFFICES ASSUME IInv, [Next]_vars PROVE IInv'
    OBVIOUS
  <1>1. ASSUME NEW r \in Requests, Step(r) PROVE IInv'
    BY <1>1, StartInv, FindInv, RowWriteInv, ActivateInv DEF Step
  <1>2. CASE JobStep \/ JobFail
    BY <1>2, JobInv DEF JobStep
  <1>3. CASE Tick
    BY <1>3, TickInv
  <1>4. CASE UNCHANGED vars
    BY <1>4 DEF vars, IInv, TypeOK, Holds, Free, ScheduleWhole, DueNoticed, Due, Pending, Exists
  <1> QED BY <1>1, <1>2, <1>3, <1>4 DEF Next

LEMMA Invariant == Spec => []IInv
  BY InitInv, NextInv, PTL DEF Spec

----------------------------------------------------------------------------
\* Every reachable state is well typed.
THEOREM TypeCorrect == Spec => []TypeOK
  <1>1. IInv => TypeOK
    BY DEF IInv
  <1> QED BY <1>1, Invariant, PTL

\* The deletion columns of an account are set together, a grace apart, and
\* cleared together, for any number of requests of users and admins in flight.
THEOREM SchedulesAreWhole == Spec => []ScheduleWhole
  <1>1. IInv => ScheduleWhole
    BY DEF IInv
  <1> QED BY <1>1, Invariant, PTL

\* A row leaves the table only through the job, which holds no account but those
\* whose scheduled day has passed with the deletion pending.
LEMMA ErasureStep ==
    ASSUME IInv, [Next]_vars, NEW u \in Users, Exists(u), user'[u] = Null
    PROVE  u \in elapsed
  <1>1. ASSUME NEW r \in Requests, NEW v, NEW row, Update(v, row), Exists(v) => row \in UserRow
        PROVE  FALSE
    <2>1. user'[u] = user[u] \/ (v = u /\ user'[u] = row)
      BY <1>1 DEF Update, IInv, TypeOK
    <2> QED BY <1>1, <2>1, ErasureAssumption DEF Exists
  <1>2. ASSUME NEW r \in Requests, Step(r) PROVE FALSE
    <2>1. PICK v, row : Update(v, row) /\ (Exists(v) => row \in UserRow)
      <3>1. ASSUME NEW v PROVE Exists(v) /\ v \in Users => user[v] \in UserRow
        BY DEF IInv, TypeOK, Exists
      <3>2. ~Free(r) => req[r].u \in Users
        BY DEF IInv, Holds
      <3>3. \A row \in UserRow : [row EXCEPT !.suspended = TRUE] \in UserRow
                                 /\ [row EXCEPT !.suspended = FALSE] \in UserRow
                                 /\ CancelledRow(row) \in UserRow
                                 /\ [ScheduledRow(row) EXCEPT !.suspended = TRUE] \in UserRow
        BY ScheduledRowOK DEF CancelledRow, UserRow
      <3>4. UNCHANGED user \/ RequestWrite(r) \/ CancelWrite(r) \/ DeleteWrite(r)
              \/ SuspendWrite(r) \/ \E v \in Users : Activate(r, v)
        BY <1>2 DEF Step, Authenticate, AdminFind, RequestFind, CancelFind, Fail
      <3>5. ~UNCHANGED user
        BY DEF Exists
      <3>6. CASE RequestWrite(r)
        BY <3>1, <3>2, <3>6, ScheduledRowOK DEF RequestWrite, At, Free
      <3>7. CASE CancelWrite(r)
        BY <3>1, <3>2, <3>3, <3>7 DEF CancelWrite, At, Free
      <3>8. CASE DeleteWrite(r)
        BY <3>1, <3>2, <3>3, <3>8 DEF DeleteWrite, At, Free
      <3>9. CASE SuspendWrite(r)
        BY <3>1, <3>2, <3>3, <3>9 DEF SuspendWrite, At, Free
      <3>10. CASE \E v \in Users : Activate(r, v)
        BY <3>1, <3>3, <3>10 DEF Activate
      <3> QED BY <3>4, <3>5, <3>6, <3>7, <3>8, <3>9, <3>10
    <2> QED BY <1>1, <2>1
  <1>3. ASSUME NEW v \in Users, JobDelete(v) PROVE u \in elapsed
    <2>1. v = u
      BY <1>3 DEF JobDelete, IInv, TypeOK, Exists
    <2> QED BY <1>3, <2>1 DEF JobDelete, IInv
  <1>4. CASE JobStart \/ JobFail \/ Tick \/ UNCHANGED vars
    BY <1>4 DEF JobStart, JobFail, Tick, vars, Exists
  <1> QED BY <1>2, <1>3, <1>4 DEF Next, JobStep

\* No account is erased before a grace has run out with its deletion pending,
\* whatever requests, cancellations and runs of the job overlap.
THEOREM ErasedOnlyAfterGrace == Spec => ErasedAfterGraceOnly
  <1>1. IInv /\ [Next]_vars =>
          [\A u \in Users : Exists(u) /\ user'[u] = Null => u \in elapsed]_vars
    BY ErasureStep
  <1> QED BY <1>1, Invariant, PTL DEF Spec, ErasedAfterGraceOnly
=============================================================================
