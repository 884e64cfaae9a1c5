----------------------------- MODULE Analytics -----------------------------
(***************************************************************************)
(* The way of an event of AnalyticsService (analytics/analytics.service.ts)*)
(* from track through the Redis list queue:analytics_events and the hourly *)
(* flushEventQueue into the table analytics_events, partitioned by month.  *)
(* The purge of a business takes its rows along by ON DELETE CASCADE.      *)
(*                                                                         *)
(* Of an event only its business, its month and whether the table can take *)
(* it matter.  The day counters that track increments as well are read     *)
(* nowhere and left out; the dashboard is in ReadCache.                    *)
(***************************************************************************)
EXTENDS Naturals, Sequences, FiniteSets

CONSTANTS
    Events,      \* bound: the events that get tracked
    Businesses,
    Runs,        \* runs of flushEventQueue that may overlap, in one process or several
    BatchSize,   \* 1000 in the code
    MaxMonth,    \* bound: last month
    MaxFails,    \* bound: calls that fail, and crashes
    Null

\* ok is FALSE when the row breaks a constraint from the start: a tenant_id that
\* is no uuid (AnalyticsController.track passes "public"), a business_id that no
\* business ever had (a visitor may send any string), a referrer of over 200.
Months == 0 .. MaxMonth
Event  == [b: Businesses, ok: BOOLEAN, month: Months]
Parts   == Months \cup {MaxMonth + 1, Null}  \* Null is analytics_events_default
Run     == [pc: {"off", "pop", "insert"}, batch: Seq(Events)]

ASSUME AnalyticsAssumption ==
    /\ BatchSize \in Nat \ {0} /\ MaxMonth \in Nat /\ MaxFails \in Nat
    /\ IsFiniteSet(Events)
    /\ Null \notin Event \cup Nat

VARIABLES
    biz,    \* the businesses that still have a row
    event,  \* what was tracked: Events -> Event or Null
    queue,  \* queue:analytics_events
    table,  \* analytics_events: for each event the partitions its rows went to
    parts,  \* the months that have a partition
    ran,    \* history: the months in which the partition job got through
    month,
    run,
    fails

vars == <<biz, event, queue, table, parts, ran, month, run, fails>>

Off == [pc |-> "off", batch |-> <<>>]

Init ==
    /\ biz = Businesses
    /\ event = [e \in Events |-> Null]
    /\ queue = <<>>
    /\ table = [e \in Events |-> <<>>]
    /\ parts = {}
    /\ ran = {}
    /\ month = 0
    /\ run = [r \in Runs |-> Off]
    /\ fails = 0

Tracked(e) == event[e] # Null
At(r, pc)  == run[r].pc = pc

----------------------------------------------------------------------------
(* AnalyticsService.track: three commands on one connection, in one go.  One *)
(* that fails is answered with an error and counts as not tracked.           *)

Track(e, b, ok) ==
    /\ ~Tracked(e)
    /\ event' = [event EXCEPT ![e] = [b |-> b, ok |-> ok, month |-> month]]
    /\ queue' = Append(queue, e)
    /\ UNCHANGED <<biz, table, parts, ran, month, run, fails>>

----------------------------------------------------------------------------
(* AnalyticsService.flushEventQueue *)

\* The cron fires every hour, whatever the run before is doing; the mutation
\* waits for a batch to be full.
FlushStartFull(r) ==
    /\ At(r, "off") /\ Len(queue) >= BatchSize
    /\ run' = [run EXCEPT ![r].pc = "pop"]
    /\ UNCHANGED <<biz, event, queue, table, parts, ran, month, fails>>
FlushStart(r) ==
    /\ At(r, "off")
    /\ run' = [run EXCEPT ![r].pc = "pop"]
    /\ UNCHANGED <<biz, event, queue, table, parts, ran, month, fails>>

\* The loop has room for one more; the mutation counts one too far.
HasRoomOffByOne(r) == Len(run[r].batch) <= BatchSize
HasRoom(r)         == Len(run[r].batch) < BatchSize

\* What LPOP leaves; the mutation reads the head and leaves it there.
RestPeeked == queue
Rest       == Tail(queue)

Pop(r) ==
    /\ At(r, "pop") /\ HasRoom(r) /\ queue # <<>>
    /\ run' = [run EXCEPT ![r].batch = Append(@, Head(queue))]
    /\ queue' = Rest
    /\ UNCHANGED <<biz, event, table, parts, ran, month, fails>>

PopEnd(r) ==
    /\ At(r, "pop") /\ (HasRoom(r) => queue = <<>>)
    /\ run' = [run EXCEPT ![r].pc = IF run[r].batch = <<>> THEN "off" ELSE "insert"]
    /\ UNCHANGED <<biz, event, queue, table, parts, ran, month, fails>>

InBatch(r)    == {run[r].batch[i] : i \in DOMAIN run[r].batch}
Acceptable(e) == event[e].ok /\ event[e].b \in biz

\* The partition the row of e goes to.
PartOf(e) == IF event[e].month \in parts THEN event[e].month ELSE Null

Insert(r) ==
    /\ At(r, "insert") /\ \A e \in InBatch(r) : Acceptable(e)
    /\ table' = [e \in Events |->
                    IF e \in InBatch(r) THEN Append(table[e], PartOf(e)) ELSE table[e]]
    /\ run' = [run EXCEPT ![r] = Off]
    /\ UNCHANGED <<biz, event, queue, parts, ran, month, fails>>

\* One bad row and the statement fails as a whole: the batch is gone.
Refused(r) ==
    /\ At(r, "insert") /\ \E e \in InBatch(r) : ~Acceptable(e)
    /\ run' = [run EXCEPT ![r] = Off]
    /\ UNCHANGED <<biz, event, queue, table, parts, ran, month, fails>>

\* A call fails, or the process dies: so is what was popped.
Fail(r) ==
    /\ ~At(r, "off") /\ fails < MaxFails
    /\ fails' = fails + 1
    /\ run' = [run EXCEPT ![r] = Off]
    /\ UNCHANGED <<biz, event, queue, table, parts, ran, month>>

----------------------------------------------------------------------------
(* createNextMonthPartition, and createNextAnalyticsPartition of the jobs:   *)
(* CREATE TABLE IF NOT EXISTS, on the 20th.                                  *)

\* The month a partition is made for; the mutations go on by none, and by two.
PartitionMonthSame == month
PartitionMonthNext == month + 2
PartitionMonth     == month + 1

InPart(p) == {e \in Events : \E i \in DOMAIN table[e] : table[e][i] = p}

\* PostgreSQL refuses a partition whose rows lie in the default one already,
\* and the job swallows the error.
CreatePartition ==
    /\ parts' = IF \E e \in InPart(Null) : event[e].month = PartitionMonth
                  THEN parts ELSE parts \cup {PartitionMonth}
    /\ ran' = ran \cup {month}
    /\ UNCHANGED <<biz, event, queue, table, month, run, fails>>

----------------------------------------------------------------------------
Purge(b) ==
    /\ b \in biz
    /\ biz' = biz \ {b}
    /\ table' = [e \in Events |-> IF Tracked(e) /\ event[e].b = b THEN <<>> ELSE table[e]]
    /\ UNCHANGED <<event, queue, parts, ran, month, run, fails>>

\* The month ends, with or without the job having run in it.
Tick ==
    /\ month < MaxMonth
    /\ month' = month + 1
    /\ UNCHANGED <<biz, event, queue, table, parts, ran, run, fails>>

FlushStep(r) == Pop(r) \/ PopEnd(r) \/ Insert(r) \/ Refused(r)

Next ==
    \/ \E e \in Events, b \in Businesses, ok \in BOOLEAN : Track(e, b, ok)
    \/ \E r \in Runs : FlushStart(r) \/ FlushStep(r) \/ Fail(r)
    \/ CreatePartition
    \/ \E b \in Businesses : Purge(b)
    \/ Tick

Spec     == Init /\ [][Next]_vars
FairSpec == Spec /\ \A r \in Runs : WF_vars(FlushStart(r)) /\ WF_vars(FlushStep(r))

----------------------------------------------------------------------------
(* Properties *)

TypeOK ==
    /\ biz \subseteq Businesses
    /\ event \in [Events -> Event \cup {Null}]
    /\ queue \in Seq(Events)
    /\ table \in [Events -> Seq(Parts)]
    /\ parts \subseteq Parts \ {Null}
    /\ ran \subseteq Months
    /\ month \in Months
    /\ run \in [Runs -> Run]
    /\ fails \in 0 .. MaxFails

\* How often an event is still to be stored, about to be stored, or stored.
Times(e, s)  == Cardinality({i \in DOMAIN s : s[i] = e})
Carrying(e)  == {r \in Runs : e \in InBatch(r)}
Copies(e)    == Times(e, queue) + Cardinality(Carrying(e)) + Len(table[e])

\* No event is counted twice, although runs overlap and die: it waits in the
\* queue, is carried by one run, or has one row (track, flushEventQueue).
StoredAtMostOnce == \A e \in Events : Copies(e) <= 1

\* Lost(e): the table would take the event, and it is nowhere any more.
Lost     == {e \in Events : Tracked(e) /\ Acceptable(e) /\ Copies(e) = 0}
Spoilers == {e \in Events : Tracked(e) /\ ~Acceptable(e) /\ Copies(e) = 0}

\* A crash costs one batch at most, and so does an event that the table refuses,
\* by which time it is gone itself: nothing else loses events (flushEventQueue).
LossBounded ==
    Cardinality(Lost) <= BatchSize * fails + (BatchSize - 1) * Cardinality(Spoilers)

\* Rows land in the default partition only when the job did not get through in
\* the month before: it always comes before the first of its rows, which would
\* make PostgreSQL refuse it (createNextMonthPartition).
DefaultOnlyAfterMiss ==
    \A e \in InPart(Null) : event[e].month = 0 \/ event[e].month - 1 \notin ran

\* Whatever waits in the queue leaves it in the end ("persist to PostgreSQL in
\* batches every hour", track).
QueueDrains == \A e \in Events : Times(e, queue) > 0 ~> Times(e, queue) = 0
=============================================================================
