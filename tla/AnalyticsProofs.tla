-------------------------- MODULE AnalyticsProofs --------------------------
(***************************************************************************)
(* What Analytics promises for any events, businesses, runs, batch size,   *)
(* months and failures.                                                    *)
(***************************************************************************)
EXTENDS Analytics, SequenceTheorems, FiniteSetTheorems, TLAPS

Elems(s)    == {s[i] : i \in DOMAIN s}
Distinct(s) == \A i, j \in DOMAIN s : s[i] = s[j] => i = j

InQueue    == Elems(queue)
Carried(e) == \E r \in Runs : e \in InBatch(r)
Stored(e)  == table[e] # <<>>

\* An event is in one place at most, and only once it has been tracked.
OnePlace(e) ==
    /\ e \in InQueue \/ Carried(e) \/ Stored(e) => Tracked(e)
    /\ e \in InQueue => ~Carried(e) /\ ~Stored(e)
    /\ \A r \in Runs : e \in InBatch(r) => /\ ~Stored(e)
                                           /\ \A s \in Runs \ {r} : e \notin InBatch(s)
    /\ Len(table[e]) <= 1

QueueDistinct == Distinct(queue)
BatchesFit    == \A r \in Runs : Len(run[r].batch) <= BatchSize

\* No event is of a month to come, and the job has made what it got through for.
TrackedByNow  == \A e \in Events : Tracked(e) => event[e].month <= month
PartitionMade == \A m \in ran : m + 1 \in parts

IInv ==
    /\ TypeOK
    /\ \A e \in Events : OnePlace(e)
    /\ QueueDistinct
    /\ BatchesFit
    /\ TrackedByNow
    /\ PartitionMade
    /\ DefaultOnlyAfterMiss

----------------------------------------------------------------------------
(* Sequences *)

\* What LPOP takes from a list without repetitions, and what it leaves.
LEMMA TailOK ==
    ASSUME NEW S, NEW s \in Seq(S), s # <<>>, Distinct(s)
    PROVE  /\ Tail(s) \in Seq(S) /\ Head(s) \in S
           /\ Elems(s) = Elems(Tail(s)) \cup {Head(s)}
           /\ Head(s) \notin Elems(Tail(s))
           /\ Distinct(Tail(s))
  <1> DEFINE n == Len(s)
             t == Tail(s)
  <1>1. /\ n \in Nat \ {0} /\ t \in Seq(S) /\ Len(t) = n - 1 /\ Head(s) = s[1] /\ Head(s) \in S
        /\ DOMAIN s = 1 .. n /\ DOMAIN t = 1 .. n - 1
        /\ \A i \in 1 .. n - 1 : t[i] = s[i + 1]
    OBVIOUS
  <1> HIDE DEF n, t
  <1>2. \A i \in DOMAIN t : i + 1 \in DOMAIN s /\ t[i] = s[i + 1] /\ i + 1 # 1
    BY <1>1
  <1>3. \A i \in DOMAIN s : i = 1 \/ (i - 1 \in DOMAIN t /\ s[i] = t[i - 1])
    BY <1>1
  <1>4. Elems(s) = Elems(t) \cup {s[1]}
    <2>1. \A x \in Elems(s) : x \in Elems(t) \cup {s[1]}
      BY <1>3 DEF Elems
    <2>2. s[1] \in Elems(s)
      BY <1>1 DEF Elems
    <2>3. \A x \in Elems(t) : x \in Elems(s)
      BY <1>2 DEF Elems
    <2> QED BY <2>1, <2>2, <2>3
  <1>5. s[1] \notin Elems(t)
    BY <1>1, <1>2 DEF Elems, Distinct
  <1>6. Distinct(t)
    BY <1>1, <1>2 DEF Distinct
  <1> QED BY <1>1, <1>4, <1>5, <1>6 DEF t

LEMMA AppendOK ==
    ASSUME NEW S, NEW s \in Seq(S), NEW e \in S
    PROVE  LET t == Append(s, e) IN
           /\ t \in Seq(S) /\ Len(t) = Len(s) + 1 /\ Len(s) \in Nat
           /\ Elems(t) = Elems(s) \cup {e}
           /\ e \notin Elems(s) /\ Distinct(s) => Distinct(t)
  <1> DEFINE n == Len(s)
             t == Append(s, e)
  <1>1. /\ n \in Nat /\ t \in Seq(S) /\ Len(t) = n + 1
        /\ DOMAIN s = 1 .. n /\ DOMAIN t = 1 .. n + 1
        /\ t[n + 1] = e /\ \A i \in 1 .. n : t[i] = s[i]
    BY AppendProperties
  <1> HIDE DEF n, t
  <1>2. \A i \in DOMAIN t : t[i] = IF i \in DOMAIN s THEN s[i] ELSE e
    BY <1>1
  <1>3. Elems(t) = Elems(s) \cup {e}
    <2>1. DOMAIN s \subseteq DOMAIN t /\ n + 1 \in DOMAIN t /\ n + 1 \notin DOMAIN s
      BY <1>1
    <2>2. \A x \in Elems(t) : x \in Elems(s) \cup {e}
      BY <1>2 DEF Elems
    <2>3. \A x \in Elems(s) \cup {e} : x \in Elems(t)
      BY <1>2, <2>1 DEF Elems
    <2> QED BY <2>2, <2>3
  <1>4. ASSUME e \notin Elems(s), Distinct(s),
               NEW i \in DOMAIN t, NEW j \in DOMAIN t, t[i] = t[j]
        PROVE  i = j
    BY <1>1, <1>2, <1>4 DEF Elems, Distinct
  <1> QED BY <1>1, <1>3, <1>4 DEF n, t, Distinct

\* No more elements than entries.
LEMMA CountEntries ==
    ASSUME NEW S, NEW s \in Seq(S)
    PROVE  IsFiniteSet(Elems(s)) /\ Cardinality(Elems(s)) <= Len(s)
  <1> DEFINE T == Elems(s)
             n == Len(s)
  <1>1. n \in Nat /\ s \in [1 .. n -> T] /\ DOMAIN s = 1 .. n
    BY LenProperties DEF Elems
  <1>2. s \in Surjection(1 .. n, T)
    BY <1>1 DEF Surjection, Elems
  <1> HIDE DEF T, n
  <1>3. IsFiniteSet(1 .. n) /\ Cardinality(1 .. n) = n
    <2>1. 1 \in Int /\ n \in Int /\ n >= 0
      BY <1>1
    <2>2. IsFiniteSet(1 .. n) /\ Cardinality(1 .. n) = IF 1 > n THEN 0 ELSE n - 1 + 1
      BY <2>1, FS_Interval
    <2> QED BY <2>1, <2>2
  <1>4. IsFiniteSet(T) /\ Cardinality(T) <= Cardinality(1 .. n)
    BY <1>2, <1>3, FS_Surjection
  <1> QED BY <1>3, <1>4 DEF T, n

----------------------------------------------------------------------------
(* The steps *)

LEMMA EmptySeqOK == /\ \A S : <<>> \in Seq(S)
                    /\ Elems(<<>>) = {} /\ Distinct(<<>>) /\ Len(<<>>) = 0
  BY DEF Elems, Distinct

\* The set of the model is the set the lemmas are about.
LEMMA Batches == \A r \in Runs : InBatch(r) = Elems(run[r].batch)
  BY DEF InBatch, Elems

LEMMA InitInv == Init => IInv
  <1> SUFFICES ASSUME Init PROVE IInv
    OBVIOUS
  <1>1. TypeOK
    BY AnalyticsAssumption DEF Init, TypeOK, Off, Run, Months
  <1>2. InQueue = {} /\ \A r \in Runs : InBatch(r) = {}
    BY EmptySeqOK, Batches DEF Init, InQueue, Off
  <1>3. \A e \in Events : OnePlace(e)
    BY <1>2 DEF Init, OnePlace, Carried, Stored
  <1>4. BatchesFit
    BY AnalyticsAssumption DEF Init, BatchesFit, Off
  <1>5. DefaultOnlyAfterMiss
    BY DEF Init, DefaultOnlyAfterMiss, InPart
  <1> QED BY <1>1, <1>3, <1>4, <1>5, EmptySeqOK
          DEF Init, IInv, QueueDistinct, TrackedByNow, Tracked, PartitionMade

LEMMA TrackInv ==
    ASSUME IInv, NEW e \in Events, NEW b \in Businesses, NEW ok \in BOOLEAN, Track(e, b, ok)
    PROVE  IInv'
  <1>1. /\ ~Tracked(e) /\ queue' = Append(queue, e)
        /\ event' = [event EXCEPT ![e] = [b |-> b, ok |-> ok, month |-> month]]
        /\ UNCHANGED <<biz, table, parts, ran, month, run, fails>>
    BY DEF Track
  <1>2. e \notin InQueue /\ ~Carried(e) /\ ~Stored(e)
    BY <1>1 DEF IInv, OnePlace
  <1>3. queue' \in Seq(Events) /\ InQueue' = InQueue \cup {e} /\ QueueDistinct'
    <2>1. queue \in Seq(Events)
      BY DEF IInv, TypeOK
    <2> QED BY <1>1, <1>2, <2>1, AppendOK DEF InQueue, IInv, QueueDistinct
  <1>4. \A r \in Runs : InBatch(r)' = InBatch(r)
    BY <1>1 DEF InBatch
  <1>5. [b |-> b, ok |-> ok, month |-> month] \in Event
    BY DEF Event, IInv, TypeOK
  <1>6. /\ event' \in [Events -> Event \cup {Null}]
        /\ \A f \in Events \ {e} : event'[f] = event[f]
        /\ event'[e].month = month /\ event'[e] # Null
    BY <1>1, <1>5, AnalyticsAssumption DEF IInv, TypeOK
  <1>7. \A f \in Events : OnePlace(f)'
    BY <1>1, <1>2, <1>3, <1>4, <1>6 DEF IInv, OnePlace, Carried, Stored, Tracked
  <1>8. TrackedByNow'
    BY <1>1, <1>6 DEF IInv, TypeOK, Months, TrackedByNow, Tracked
  <1>9. DefaultOnlyAfterMiss'
    <2>1. InPart(Null)' = InPart(Null)
      BY <1>1 DEF InPart
    <2>2. e \notin InPart(Null)
      BY <1>2 DEF InPart, Stored
    <2> QED BY <1>1, <1>6, <2>1, <2>2 DEF IInv, DefaultOnlyAfterMiss, InPart
  <1>10. TypeOK'
    BY <1>1, <1>3, <1>6 DEF IInv, TypeOK
  <1> QED BY <1>1, <1>3, <1>7, <1>8, <1>9, <1>10 DEF IInv, BatchesFit, PartitionMade

\* The batches stay apart when one of them is put down, whatever becomes of the table.
LEMMA PutDownInv ==
    ASSUME IInv, NEW r \in Runs, run' = [run EXCEPT ![r] = Off],
           UNCHANGED <<biz, event, queue, parts, ran, month>>,
           fails' \in 0 .. MaxFails, table' \in [Events -> Seq(Parts)],
           \A e \in Events : \/ table'[e] = table[e]
                             \/ e \in InBatch(r) /\ table'[e] = Append(table[e], PartOf(e))
    PROVE  IInv'
  <1>1. /\ run' \in [Runs -> Run] /\ Off \in Run /\ Off.batch = <<>>
        /\ \A s \in Runs : run'[s] = IF s = r THEN Off ELSE run[s]
    BY DEF IInv, TypeOK, Off, Run
  <1>2. InBatch(r)' = {} /\ \A s \in Runs \ {r} : InBatch(s)' = InBatch(s)
    BY <1>1 DEF InBatch
  <1>3. InQueue' = InQueue /\ \A e \in Events : Tracked(e)' = Tracked(e)
    BY DEF InQueue, Tracked
  <1>4. ASSUME NEW e \in Events
        PROVE  /\ OnePlace(e)'
               /\ e \in InPart(Null)' => event[e].month = 0 \/ event[e].month - 1 \notin ran
    <2>1. OnePlace(e) /\ table[e] \in Seq(Parts)
      BY DEF IInv, TypeOK
    <2>2. CASE table'[e] = table[e]
      <3>1. OnePlace(e)'
        BY <1>2, <1>3, <2>1, <2>2 DEF OnePlace, Carried, Stored
      <3> QED BY <2>2, <3>1 DEF IInv, DefaultOnlyAfterMiss, InPart
    <2>3. CASE e \in InBatch(r) /\ table'[e] = Append(table[e], PartOf(e))
      <3>1. table[e] = <<>> /\ Tracked(e) /\ e \notin InQueue
            /\ \A s \in Runs \ {r} : e \notin InBatch(s)
        BY <2>1, <2>3 DEF OnePlace, Carried, Stored
      <3>2. table'[e] = <<PartOf(e)>>
        BY <2>3, <3>1
      <3>3. ~Carried(e)'
        BY <1>2, <3>1 DEF Carried
      <3>4. OnePlace(e)'
        BY <1>2, <1>3, <3>1, <3>2, <3>3 DEF OnePlace, Stored
      <3>5. PartOf(e) = Null => event[e].month = 0 \/ event[e].month - 1 \notin ran
        <4> SUFFICES ASSUME PartOf(e) = Null, event[e].month # 0, event[e].month - 1 \in ran
                     PROVE  FALSE
          OBVIOUS
        <4>1. event[e].month \in Nat
          BY <3>1 DEF IInv, TypeOK, Tracked, Event, Months
        <4>2. event[e].month \notin parts
          BY <4>1, AnalyticsAssumption DEF PartOf
        <4>3. event[e].month - 1 + 1 \in parts
          BY DEF IInv, PartitionMade
        <4> QED BY <4>1, <4>2, <4>3
      <3> QED BY <3>2, <3>4, <3>5 DEF InPart
    <2> QED BY <2>2, <2>3
  <1>5. DefaultOnlyAfterMiss'
    <2>1. \A e \in InPart(Null)' : e \in Events
      BY DEF InPart
    <2> QED BY <1>4, <2>1 DEF DefaultOnlyAfterMiss
  <1>6. BatchesFit'
    BY <1>1, AnalyticsAssumption DEF IInv, BatchesFit
  <1>7. TypeOK'
    BY <1>1 DEF IInv, TypeOK
  <1> QED BY <1>3, <1>4, <1>5, <1>6, <1>7
          DEF IInv, QueueDistinct, TrackedByNow, PartitionMade

LEMMA EndInv ==
    ASSUME IInv, NEW r \in Runs, Insert(r) \/ Refused(r) \/ Fail(r)
    PROVE  IInv'
  <1>1. run' = [run EXCEPT ![r] = Off] /\ UNCHANGED <<biz, event, queue, parts, ran, month>>
    BY DEF Insert, Refused, Fail
  <1>2. fails' \in 0 .. MaxFails
    BY AnalyticsAssumption DEF Insert, Refused, Fail, IInv, TypeOK
  <1>3. CASE table' = table
    <2>1. table' \in [Events -> Seq(Parts)]
      BY <1>3 DEF IInv, TypeOK
    <2> QED BY <1>1, <1>2, <1>3, <2>1, PutDownInv
  <1>4. CASE Insert(r)
    <2>1. table' = [e \in Events |->
                      IF e \in InBatch(r) THEN Append(table[e], PartOf(e)) ELSE table[e]]
      BY <1>4 DEF Insert
    <2>2. \A e \in Events : PartOf(e) \in Parts /\ table[e] \in Seq(Parts)
      BY DEF PartOf, Parts, IInv, TypeOK
    <2>3. \A e \in Events : Append(table[e], PartOf(e)) \in Seq(Parts)
      BY <2>2, AppendProperties
    <2>4. table' \in [Events -> Seq(Parts)]
      BY <2>1, <2>2, <2>3
    <2>5. \A e \in Events : \/ table'[e] = table[e]
                            \/ e \in InBatch(r) /\ table'[e] = Append(table[e], PartOf(e))
      BY <2>1
    <2> QED BY <1>1, <1>2, <2>4, <2>5, PutDownInv
  <1> QED BY <1>3, <1>4 DEF Insert, Refused, Fail

LEMMA PopInv ==
    ASSUME IInv, NEW r \in Runs, Pop(r)
    PROVE  IInv'
  <1> DEFINE e == Head(queue)
             b == run[r].batch
  <1>1. /\ queue # <<>> /\ queue' = Tail(queue) /\ Len(b) < BatchSize
        /\ run' = [run EXCEPT ![r].batch = Append(b, e)]
        /\ UNCHANGED <<biz, event, table, parts, ran, month, fails>>
    BY DEF Pop, Rest, HasRoom
  <1>2. queue \in Seq(Events) /\ b \in Seq(Events) /\ run \in [Runs -> Run]
    BY DEF IInv, TypeOK, Run
  <1>3. /\ queue' \in Seq(Events) /\ e \in Events /\ e \in InQueue
        /\ InQueue = InQueue' \cup {e} /\ e \notin InQueue' /\ QueueDistinct'
    <2>1. Distinct(queue)
      BY DEF IInv, QueueDistinct
    <2> QED BY <1>1, <1>2, <2>1, TailOK DEF InQueue, QueueDistinct
  <1>4. ~Carried(e) /\ ~Stored(e) /\ Tracked(e)
    BY <1>3 DEF IInv, OnePlace
  <1> DEFINE new == Append(b, e)
  <1>5. /\ new \in Seq(Events) /\ Len(new) = Len(b) + 1 /\ Len(b) \in Nat
        /\ Elems(new) = InBatch(r) \cup {e}
    <2>1. InBatch(r) = Elems(b)
      BY Batches
    <2> HIDE DEF e, b
    <2> QED BY <1>2, <1>3, <2>1, AppendOK
  <1>6. run' = [run EXCEPT ![r].batch = new]
    BY <1>1
  <1> HIDE DEF e, new
  <1>7. /\ run' \in [Runs -> Run] /\ run'[r].batch = new
        /\ \A s \in Runs \ {r} : run'[s] = run[s]
    <2>1. /\ new \in Seq(Events)
          /\ run \in [Runs -> [pc: {"off", "pop", "insert"}, batch: Seq(Events)]]
      BY <1>2, <1>5 DEF Run
    <2>2. run[r] \in [pc: {"off", "pop", "insert"}, batch: Seq(Events)]
      BY <2>1
    <2>3. [run[r] EXCEPT !.batch = new] \in Run /\ [run[r] EXCEPT !.batch = new].batch = new
      BY <2>1, <2>2 DEF Run
    <2> QED BY <1>2, <1>6, <2>3
  <1>8. InBatch(r)' = InBatch(r) \cup {e} /\ \A s \in Runs \ {r} : InBatch(s)' = InBatch(s)
    <2>1. \A s \in Runs : InBatch(s)' = Elems(run'[s].batch)
      BY DEF InBatch, Elems
    <2>2. \A s \in Runs \ {r} : InBatch(s)' = InBatch(s)
      BY <1>7 DEF InBatch
    <2> QED BY <1>5, <1>7, <2>1, <2>2
  <1>9. ASSUME NEW f \in Events
        PROVE  OnePlace(f)'
    <2>1. OnePlace(f) /\ Tracked(f)' = Tracked(f) /\ Stored(f)' = Stored(f) /\ table' = table
      BY <1>1 DEF IInv, Tracked, Stored
    <2>2. CASE f = e
      BY <1>3, <1>4, <1>8, <2>1, <2>2 DEF OnePlace, Carried
    <2>3. CASE f # e
      BY <1>3, <1>8, <2>1, <2>3 DEF OnePlace, Carried
    <2> QED BY <2>2, <2>3
  <1>10. BatchesFit'
    BY <1>1, <1>5, <1>7, AnalyticsAssumption DEF IInv, BatchesFit
  <1>11. TypeOK'
    BY <1>1, <1>3, <1>7 DEF IInv, TypeOK
  <1>12. TrackedByNow' /\ PartitionMade' /\ DefaultOnlyAfterMiss'
    BY <1>1 DEF IInv, TrackedByNow, Tracked, PartitionMade, DefaultOnlyAfterMiss, InPart
  <1> QED BY <1>3, <1>9, <1>10, <1>11, <1>12 DEF IInv

LEMMA MoveInv ==
    ASSUME IInv, NEW r \in Runs, FlushStart(r) \/ PopEnd(r)
    PROVE  IInv'
  <1>1. PICK pc \in {"off", "pop", "insert"} :
          run' = [run EXCEPT ![r].pc = pc]
    BY DEF FlushStart, PopEnd
  <1>2. UNCHANGED <<biz, event, queue, table, parts, ran, month, fails>>
    BY DEF FlushStart, PopEnd
  <1>3. run' \in [Runs -> Run] /\ \A s \in Runs : run'[s].batch = run[s].batch
    BY <1>1 DEF IInv, TypeOK, Run
  <1>4. \A s \in Runs : InBatch(s)' = InBatch(s)
    BY <1>3 DEF InBatch
  <1>5. \A e \in Events : OnePlace(e)'
    BY <1>2, <1>4 DEF IInv, OnePlace, InQueue, Carried, Stored, Tracked
  <1>6. QueueDistinct' /\ BatchesFit' /\ TrackedByNow' /\ PartitionMade' /\ DefaultOnlyAfterMiss'
    BY <1>2, <1>3 DEF IInv, QueueDistinct, BatchesFit, TrackedByNow, Tracked, PartitionMade,
                      DefaultOnlyAfterMiss, InPart
  <1>7. TypeOK'
    BY <1>2, <1>3 DEF IInv, TypeOK
  <1> QED BY <1>5, <1>6, <1>7 DEF IInv

\* The job always gets through: no event is of the month it makes the partition for.
LEMMA PartitionInv ==
    ASSUME IInv, CreatePartition
    PROVE  IInv'
  <1>1. UNCHANGED <<biz, event, queue, table, month, run, fails>> /\ ran' = ran \cup {month}
    BY DEF CreatePartition
  <1>2. month \in Nat /\ month \in Months /\ month + 1 \in Parts \ {Null}
    BY AnalyticsAssumption DEF IInv, TypeOK, Months, Parts
  <1>3. \A e \in InPart(Null) : e \in Events /\ Tracked(e)
    BY DEF InPart, IInv, OnePlace, Stored
  <1>4. \A e \in InPart(Null) : event[e].month \in Nat /\ event[e].month <= month
    BY <1>3 DEF IInv, TypeOK, Tracked, TrackedByNow, Event, Months
  <1>5. parts' = parts \cup {month + 1}
    BY <1>2, <1>4 DEF CreatePartition, PartitionMonth
  <1>6. TypeOK'
    BY <1>1, <1>2, <1>5 DEF IInv, TypeOK
  <1>7. \A e \in Events : OnePlace(e)'
    BY <1>1 DEF IInv, OnePlace, InQueue, Carried, Stored, Tracked, InBatch
  <1>8. PartitionMade'
    BY <1>1, <1>5 DEF IInv, PartitionMade
  <1>9. DefaultOnlyAfterMiss'
    <2>1. InPart(Null)' = InPart(Null)
      BY <1>1 DEF InPart
    <2>2. \A e \in InPart(Null) : event[e].month - 1 # month
      BY <1>2, <1>4
    <2> QED BY <1>1, <2>1, <2>2 DEF IInv, DefaultOnlyAfterMiss
  <1> QED BY <1>1, <1>6, <1>7, <1>8, <1>9
          DEF IInv, QueueDistinct, BatchesFit, TrackedByNow, Tracked

LEMMA PurgeInv ==
    ASSUME IInv, NEW b \in Businesses, Purge(b)
    PROVE  IInv'
  <1>1. UNCHANGED <<event, queue, parts, ran, month, run, fails>> /\ biz' \subseteq biz
        /\ table' = [e \in Events |-> IF Tracked(e) /\ event[e].b = b THEN <<>> ELSE table[e]]
    BY DEF Purge
  <1>2. \A e \in Events : table'[e] = table[e] \/ table'[e] = <<>>
    BY <1>1
  <1>3. TypeOK'
    BY <1>1 DEF IInv, TypeOK
  <1>4. \A e \in Events : OnePlace(e)'
    BY <1>1, <1>2, EmptySeqOK DEF IInv, OnePlace, InQueue, Carried, Stored, Tracked, InBatch
  <1>5. DefaultOnlyAfterMiss'
    <2>1. InPart(Null)' \subseteq InPart(Null)
      BY <1>2 DEF InPart
    <2> QED BY <1>1, <2>1 DEF IInv, DefaultOnlyAfterMiss
  <1> QED BY <1>1, <1>3, <1>4, <1>5
          DEF IInv, QueueDistinct, BatchesFit, TrackedByNow, Tracked, PartitionMade

LEMMA TickInv ==
    ASSUME IInv, Tick
    PROVE  IInv'
  <1>1. UNCHANGED <<biz, event, queue, table, parts, ran, run, fails>> /\ month' = month + 1
        /\ month < MaxMonth
    BY DEF Tick
  <1>2. TypeOK'
    BY <1>1, AnalyticsAssumption DEF IInv, TypeOK, Months
  <1>3. TrackedByNow'
    BY <1>1 DEF IInv, TypeOK, TrackedByNow, Tracked, Event, Months
  <1>4. \A e \in Events : OnePlace(e)'
    BY <1>1 DEF IInv, OnePlace, InQueue, Carried, Stored, Tracked, InBatch
  <1> QED BY <1>1, <1>2, <1>3, <1>4
          DEF IInv, QueueDistinct, BatchesFit, PartitionMade, DefaultOnlyAfterMiss, InPart

LEMMA StutterInv ==
    ASSUME IInv, UNCHANGED vars
    PROVE  IInv'
  <1>1. \A e \in Events : OnePlace(e)'
    BY DEF vars, IInv, OnePlace, InQueue, Carried, Stored, Tracked, InBatch
  <1>2. TypeOK'
    BY DEF vars, IInv, TypeOK
  <1> QED BY <1>1, <1>2
          DEF vars, IInv, QueueDistinct, BatchesFit, TrackedByNow, Tracked, PartitionMade,
              DefaultOnlyAfterMiss, InPart

LEMMA NextInv == IInv /\ [Next]_vars => IInv'
  BY TrackInv, EndInv, PopInv, MoveInv, PartitionInv, PurgeInv, TickInv, StutterInv
  DEF Next, FlushStep

LEMMA SpecInv == Spec => []IInv
  BY InitInv, NextInv, PTL DEF Spec

----------------------------------------------------------------------------
(* Counting *)

Gone(e) == e \notin InQueue /\ ~Carried(e) /\ ~Stored(e)

LEMMA TimesOnce ==
    ASSUME NEW e, NEW s, Distinct(s)
    PROVE  Times(e, s) = IF e \in Elems(s) THEN 1 ELSE 0
  <1> DEFINE T == {i \in DOMAIN s : s[i] = e}
  <1>1. CASE e \in Elems(s)
    <2>1. PICK i \in DOMAIN s : s[i] = e
      BY <1>1 DEF Elems
    <2>2. T = {i}
      BY <2>1 DEF Distinct
    <2> QED BY <1>1, <2>2, FS_Singleton DEF Times
  <1>2. CASE e \notin Elems(s)
    <2>1. T = {}
      BY <1>2 DEF Elems
    <2> QED BY <1>2, <2>1, FS_EmptySet DEF Times
  <1> QED BY <1>1, <1>2

LEMMA CopiesOK ==
    ASSUME IInv, NEW e \in Events
    PROVE  Copies(e) \in {0, 1} /\ (Copies(e) = 0 <=> Gone(e))
  <1>1. Times(e, queue) = IF e \in InQueue THEN 1 ELSE 0
    BY TimesOnce DEF IInv, QueueDistinct, InQueue
  <1>2. OnePlace(e)
    BY DEF IInv
  <1>3. Cardinality(Carrying(e)) = IF Carried(e) THEN 1 ELSE 0
    <2>1. CASE Carried(e)
      <3>1. PICK r \in Runs : e \in InBatch(r)
        BY <2>1 DEF Carried
      <3>2. Carrying(e) = {r}
        BY <1>2, <3>1 DEF OnePlace, Carrying
      <3> QED BY <2>1, <3>2, FS_Singleton
    <2>2. CASE ~Carried(e)
      <3>1. Carrying(e) = {}
        BY <2>2 DEF Carried, Carrying
      <3> QED BY <2>2, <3>1, FS_EmptySet
    <2> QED BY <2>1, <2>2
  <1>4. Len(table[e]) = IF Stored(e) THEN 1 ELSE 0
    <2>1. table[e] \in Seq(Parts) /\ Len(table[e]) <= 1
      BY <1>2 DEF IInv, TypeOK, OnePlace
    <2>2. Len(table[e]) \in Nat /\ (Len(table[e]) = 0 <=> table[e] = <<>>)
      BY <2>1
    <2> QED BY <2>1, <2>2 DEF Stored
  <1>5. /\ ~(e \in InQueue /\ Carried(e)) /\ ~(e \in InQueue /\ Stored(e))
        /\ ~(Carried(e) /\ Stored(e))
    BY <1>2 DEF OnePlace, Carried
  <1> QED BY <1>1, <1>3, <1>4, <1>5 DEF Copies, Gone

\* What is lost is nowhere, and so are the events that lost it.
GoneIsLost ==
    /\ Lost = {e \in Events : Tracked(e) /\ Acceptable(e) /\ Gone(e)}
    /\ Spoilers = {e \in Events : Tracked(e) /\ ~Acceptable(e) /\ Gone(e)}

LEMMA LostIs == IInv => GoneIsLost
  BY CopiesOK DEF GoneIsLost, Lost, Spoilers

LEMMA LostIsNext == IInv' => GoneIsLost'
  BY LostIs, PTL

LEMMA FewEvents ==
    ASSUME NEW S \in SUBSET Events, NEW T \in SUBSET S
    PROVE  /\ IsFiniteSet(S) /\ Cardinality(S) \in Nat
           /\ IsFiniteSet(T) /\ Cardinality(T) \in Nat
           /\ Cardinality(T) <= Cardinality(S)
  <1>1. IsFiniteSet(S) /\ IsFiniteSet(T) /\ Cardinality(T) <= Cardinality(S)
    BY FS_Subset, AnalyticsAssumption
  <1> QED BY <1>1, FS_CardinalityType

LEMMA LossCounts ==
    /\ Cardinality(Lost) \in Nat /\ Cardinality(Lost') \in Nat
    /\ Cardinality(Spoilers) \in Nat /\ Cardinality(Spoilers') \in Nat
  <1>1. /\ Lost \in SUBSET Events /\ Lost' \in SUBSET Events
        /\ Spoilers \in SUBSET Events /\ Spoilers' \in SUBSET Events
    BY DEF Lost, Spoilers
  <1>2. \A S \in SUBSET Events : Cardinality(S) \in Nat
    BY FewEvents
  <1> QED BY <1>1, <1>2

LEMMA TimesMono ==
    ASSUME NEW a \in Nat, NEW x \in Nat, NEW y \in Nat, x <= y
    PROVE  a * x \in Nat /\ a * x <= a * y
  <1>1. PICK d \in Nat : y = x + d
    <2>1. y - x \in Nat /\ y = x + (y - x)
      OBVIOUS
    <2> QED BY <2>1
  <1>2. a * x \in Nat /\ a * d \in Nat /\ a * y = a * x + a * d
    BY <1>1
  <1> QED BY <1>2

\* What may be added to the loss without breaking its bound.
LEMMA LossStep ==
    ASSUME IInv, LossBounded, NEW c \in 0 .. 1, NEW d \in 0 .. 1,
           fails' = fails + c, Cardinality(Spoilers') >= Cardinality(Spoilers) + d,
           Cardinality(Lost') <= Cardinality(Lost) + BatchSize * c + (BatchSize - 1) * d
    PROVE  LossBounded'
  <1> DEFINE m == Cardinality(Spoilers)
             l == Cardinality(Lost)
             n == Cardinality(Spoilers')
             k == Cardinality(Lost')
  <1>1. /\ BatchSize \in Nat \ {0} /\ fails \in Nat
        /\ m \in Nat /\ l \in Nat /\ n \in Nat /\ k \in Nat
    BY LossCounts, AnalyticsAssumption DEF IInv, TypeOK
  <1>2. LossBounded' <=> k <= BatchSize * fails' + (BatchSize - 1) * n
    BY DEF LossBounded
  <1>3. l <= BatchSize * fails + (BatchSize - 1) * m
    BY DEF LossBounded
  <1>4. n >= m + d /\ k <= l + BatchSize * c + (BatchSize - 1) * d
    OBVIOUS
  <1> HIDE DEF m, l, n, k
  <1>5. (BatchSize - 1) * (m + d) <= (BatchSize - 1) * n
    BY <1>1, <1>4, TimesMono
  <1>6. /\ (BatchSize - 1) * (m + d) = (BatchSize - 1) * m + (BatchSize - 1) * d
        /\ BatchSize * (fails + c) = BatchSize * fails + BatchSize * c
    BY <1>1
  <1>7. /\ (BatchSize - 1) * m \in Nat /\ (BatchSize - 1) * d \in Nat
        /\ (BatchSize - 1) * n \in Nat
        /\ BatchSize * fails \in Nat /\ BatchSize * c \in Nat
    BY <1>1, TimesMono
  <1>8. k <= BatchSize * (fails + c) + (BatchSize - 1) * n
    BY <1>1, <1>3, <1>4, <1>5, <1>6, <1>7
  <1> QED BY <1>2, <1>8

\* Steps that lose nothing.
LEMMA NoLoss ==
    ASSUME IInv, LossBounded, fails' = fails,
           Lost' \subseteq Lost, Spoilers \subseteq Spoilers'
    PROVE  LossBounded'
  <1>1. Lost \subseteq Events /\ Spoilers' \subseteq Events
    BY DEF Lost, Spoilers
  <1>2. Cardinality(Lost') <= Cardinality(Lost) /\ Cardinality(Spoilers) <= Cardinality(Spoilers')
    BY <1>1, FewEvents
  <1>3. BatchSize \in Nat \ {0} /\ fails \in Nat
    BY AnalyticsAssumption DEF IInv, TypeOK
  <1>4. BatchSize * 0 = 0 /\ (BatchSize - 1) * 0 = 0
    BY <1>3
  <1> QED BY <1>2, <1>3, <1>4, LossCounts, LossStep

\* What is gone stays gone when nothing else changes than where an event waits.
LEMMA NoLossWhere ==
    ASSUME IInv, IInv', LossBounded, fails' = fails, biz' \subseteq biz,
           \A e \in Events : Tracked(e) => event'[e] = event[e],
           \A e \in Events : Tracked(e) /\ Gone(e) => Gone(e)',
           \A e \in Events : Tracked(e)' /\ Acceptable(e)' /\ Gone(e)' => Tracked(e) /\ Gone(e)
    PROVE  LossBounded'
  <1>1. GoneIsLost /\ GoneIsLost'
    BY LostIs, LostIsNext
  <1>2. \A e \in Events : Tracked(e) => Tracked(e)' /\ (Acceptable(e)' => Acceptable(e))
    BY DEF Tracked, Acceptable
  <1>3. Lost' \subseteq Lost
    BY <1>1, <1>2 DEF GoneIsLost
  <1>4. Spoilers \subseteq Spoilers'
    BY <1>1, <1>2 DEF GoneIsLost
  <1> QED BY <1>3, <1>4, NoLoss

LEMMA TrackLoss ==
    ASSUME IInv, IInv', LossBounded,
           NEW e \in Events, NEW b \in Businesses, NEW ok \in BOOLEAN, Track(e, b, ok)
    PROVE  LossBounded'
  <1>1. /\ ~Tracked(e) /\ queue' = Append(queue, e)
        /\ event' = [event EXCEPT ![e] = [b |-> b, ok |-> ok, month |-> month]]
        /\ UNCHANGED <<biz, table, parts, ran, month, run, fails>>
    BY DEF Track
  <1>2. queue \in Seq(Events) /\ event \in [Events -> Event \cup {Null}]
    BY DEF IInv, TypeOK
  <1>3. InQueue' = InQueue \cup {e}
    BY <1>1, <1>2, AppendOK DEF InQueue
  <1>4. \A f \in Events \ {e} : event'[f] = event[f] /\ (f \in InQueue' <=> f \in InQueue)
    BY <1>1, <1>2, <1>3
  <1>5. \A f \in Events : Carried(f)' = Carried(f) /\ Stored(f)' = Stored(f)
    BY <1>1 DEF Carried, Stored, InBatch
  <1>6. ~Gone(e)'
    BY <1>3 DEF Gone
  <1>7. \A f \in Events \ {e} : Gone(f)' = Gone(f) /\ Tracked(f)' = Tracked(f)
    BY <1>4, <1>5 DEF Gone, Tracked
  <1> QED BY <1>1, <1>4, <1>6, <1>7, NoLossWhere

LEMMA PopLoss ==
    ASSUME IInv, IInv', LossBounded, NEW r \in Runs, Pop(r)
    PROVE  LossBounded'
  <1> DEFINE e == Head(queue)
             b == run[r].batch
  <1>1. /\ queue # <<>> /\ queue' = Tail(queue)
        /\ run' = [run EXCEPT ![r].batch = Append(b, e)]
        /\ UNCHANGED <<biz, event, table, fails>>
    BY DEF Pop, Rest
  <1>2. queue \in Seq(Events) /\ b \in Seq(Events) /\ run \in [Runs -> Run]
    BY DEF IInv, TypeOK, Run
  <1>3. InQueue = InQueue' \cup {e} /\ e \in Events
    BY <1>1, <1>2, TailOK DEF InQueue, IInv, QueueDistinct
  <1>4. \A s \in Runs \ {r} : run'[s] = run[s]
    BY <1>1, <1>2
  <1>5. run'[r].batch = Append(b, e)
    <2> DEFINE new == Append(b, e)
    <2>1. run' = [run EXCEPT ![r].batch = new]
      BY <1>1
    <2> HIDE DEF new
    <2>2. run'[r] = [run[r] EXCEPT !.batch = new]
      BY <1>2, <2>1
    <2>3. run[r] \in [pc: {"off", "pop", "insert"}, batch: Seq(Events)]
      BY <1>2 DEF Run
    <2>4. run'[r].batch = new
      BY <2>2, <2>3
    <2> QED BY <2>4 DEF new
  <1>6. InBatch(r)' = InBatch(r) \cup {e} /\ \A s \in Runs \ {r} : InBatch(s)' = InBatch(s)
    <2>1. InBatch(r) = Elems(b) /\ InBatch(r)' = Elems(run'[r].batch)
      BY DEF InBatch, Elems
    <2>2. \A s \in Runs \ {r} : InBatch(s)' = InBatch(s)
      BY <1>4 DEF InBatch
    <2> HIDE DEF b, e
    <2>3. Elems(Append(b, e)) = Elems(b) \cup {e}
      BY <1>2, <1>3, AppendOK
    <2> QED BY <1>5, <2>1, <2>2, <2>3
  <1> HIDE DEF e, b
  <1>7. \A f \in Events : Stored(f)' = Stored(f) /\ Tracked(f)' = Tracked(f)
    BY <1>1 DEF Stored, Tracked
  <1>8. \A f \in Events : Carried(f)' <=> Carried(f) \/ f = e
    BY <1>6 DEF Carried
  <1>9. \A f \in Events : Gone(f)' <=> Gone(f)
    BY <1>3, <1>7, <1>8 DEF Gone
  <1> QED BY <1>1, <1>7, <1>9, NoLossWhere

LEMMA InsertLoss ==
    ASSUME IInv, IInv', LossBounded, NEW r \in Runs, Insert(r)
    PROVE  LossBounded'
  <1>1. /\ table' = [e \in Events |->
                        IF e \in InBatch(r) THEN Append(table[e], PartOf(e)) ELSE table[e]]
        /\ run' = [run EXCEPT ![r] = Off]
        /\ UNCHANGED <<biz, event, queue, fails>>
    BY DEF Insert
  <1>2. run \in [Runs -> Run]
    BY DEF IInv, TypeOK
  <1>3. InBatch(r)' = {} /\ \A s \in Runs \ {r} : InBatch(s)' = InBatch(s)
    BY <1>1, <1>2 DEF InBatch, Off
  <1>4. \A e \in Events : Tracked(e)' = Tracked(e) /\ (e \in InQueue' <=> e \in InQueue)
    BY <1>1 DEF Tracked, InQueue
  <1>5. \A e \in Events : Stored(e)' <=> Stored(e) \/ e \in InBatch(r)
    <2>1. \A e \in Events : PartOf(e) \in Parts /\ table[e] \in Seq(Parts)
      BY DEF PartOf, Parts, IInv, TypeOK
    <2>2. \A e \in Events : Append(table[e], PartOf(e)) # <<>>
      BY <2>1
    <2> QED BY <1>1, <2>2 DEF Stored
  <1>6. \A e \in Events : Carried(e) <=> Carried(e)' \/ e \in InBatch(r)
    BY <1>3 DEF Carried
  <1>7. \A e \in Events : Gone(e)' <=> Gone(e)
    BY <1>4, <1>5, <1>6 DEF Gone
  <1> QED BY <1>1, <1>4, <1>7, NoLossWhere

LEMMA PurgeLoss ==
    ASSUME IInv, IInv', LossBounded, NEW b \in Businesses, Purge(b)
    PROVE  LossBounded'
  <1>1. /\ biz' = biz \ {b} /\ UNCHANGED <<event, queue, run, fails>>
        /\ table' = [e \in Events |-> IF Tracked(e) /\ event[e].b = b THEN <<>> ELSE table[e]]
    BY DEF Purge
  <1>2. \A e \in Events : /\ Tracked(e)' = Tracked(e) /\ Carried(e)' = Carried(e)
                          /\ (e \in InQueue' <=> e \in InQueue)
    BY <1>1 DEF Tracked, Carried, InBatch, InQueue
  <1>3. \A e \in Events : Stored(e)' => Stored(e)
    BY <1>1 DEF Stored
  <1>4. \A e \in Events : Acceptable(e)' /\ Tracked(e) => table'[e] = table[e]
    BY <1>1 DEF Acceptable
  <1>5. \A e \in Events : Tracked(e) /\ Gone(e) => Gone(e)'
    BY <1>2, <1>3 DEF Gone
  <1>6. \A e \in Events : Tracked(e)' /\ Acceptable(e)' /\ Gone(e)' => Tracked(e) /\ Gone(e)
    BY <1>2, <1>4 DEF Gone, Stored
  <1> QED BY <1>1, <1>5, <1>6, NoLossWhere

\* FlushStart, PopEnd, CreatePartition, Tick and stuttering leave every event where it is.
LEMMA StillLoss ==
    ASSUME IInv, IInv', LossBounded, UNCHANGED <<biz, event, queue, table, fails>>,
           \A r \in Runs : InBatch(r)' = InBatch(r)
    PROVE  LossBounded'
  <1>1. \A e \in Events : Tracked(e)' = Tracked(e) /\ Gone(e)' = Gone(e)
    BY DEF Tracked, Gone, InQueue, Carried, Stored
  <1> QED BY <1>1, NoLossWhere

\* A batch that is dropped is gone as a whole.
LEMMA Dropped ==
    ASSUME IInv, IInv', NEW r \in Runs, run' = [run EXCEPT ![r] = Off],
           UNCHANGED <<biz, event, queue, table>>
    PROVE  /\ \A e \in Events : Gone(e)' <=> Gone(e) \/ e \in InBatch(r)
           /\ Lost' \subseteq Lost \cup {e \in InBatch(r) : Acceptable(e)}
           /\ Spoilers \cup {e \in InBatch(r) : ~Acceptable(e)} \subseteq Spoilers'
           /\ InBatch(r) \subseteq Events /\ Cardinality(InBatch(r)) <= BatchSize
  <1>1. run \in [Runs -> Run] /\ run[r].batch \in Seq(Events)
    BY DEF IInv, TypeOK, Run
  <1>2. InBatch(r)' = {} /\ \A s \in Runs \ {r} : InBatch(s)' = InBatch(s)
    BY <1>1 DEF InBatch, Off
  <1>3. \A e \in InBatch(r) : /\ e \in Events /\ Tracked(e) /\ e \notin InQueue /\ ~Stored(e)
                              /\ \A s \in Runs \ {r} : e \notin InBatch(s)
    <2>1. InBatch(r) \subseteq Events
      BY <1>1 DEF InBatch
    <2> QED BY <2>1 DEF IInv, OnePlace, Carried
  <1>4. \A e \in Events : Gone(e)' <=> Gone(e) \/ e \in InBatch(r)
    <2>1. \A e \in Events : (e \in InQueue' <=> e \in InQueue) /\ Stored(e)' = Stored(e)
      BY DEF InQueue, Stored
    <2>2. \A e \in Events : Carried(e)' <=> Carried(e) /\ e \notin InBatch(r)
      BY <1>2, <1>3 DEF Carried
    <2> QED BY <1>3, <2>1, <2>2 DEF Gone
  <1>5. \A e \in Events : Tracked(e)' = Tracked(e) /\ Acceptable(e)' = Acceptable(e)
    BY DEF Tracked, Acceptable
  <1>6. GoneIsLost /\ GoneIsLost'
    BY LostIs, LostIsNext
  <1>7. Lost' \subseteq Lost \cup {e \in InBatch(r) : Acceptable(e)}
    BY <1>4, <1>5, <1>6 DEF GoneIsLost
  <1>8. Spoilers \cup {e \in InBatch(r) : ~Acceptable(e)} \subseteq Spoilers'
    BY <1>3, <1>4, <1>5, <1>6 DEF GoneIsLost
  <1>9. Cardinality(InBatch(r)) <= BatchSize
    <2>1. InBatch(r) = Elems(run[r].batch) /\ Len(run[r].batch) <= BatchSize
      BY Batches DEF IInv, BatchesFit
    <2>2. Cardinality(Elems(run[r].batch)) <= Len(run[r].batch)
      BY <1>1, CountEntries
    <2>3. Cardinality(InBatch(r)) \in Nat /\ Len(run[r].batch) \in Nat /\ BatchSize \in Nat
      BY <1>1, <1>3, FewEvents, AnalyticsAssumption
    <2> QED BY <2>1, <2>2, <2>3
  <1> QED BY <1>3, <1>4, <1>7, <1>8, <1>9

\* No more in two sets than in each.
LEMMA CountBoth ==
    ASSUME NEW S \in SUBSET Events, NEW T \in SUBSET Events, NEW U \in SUBSET (S \cup T)
    PROVE  Cardinality(U) <= Cardinality(S) + Cardinality(T)
  <1>1. /\ IsFiniteSet(S) /\ IsFiniteSet(T)
        /\ Cardinality(S) \in Nat /\ Cardinality(T) \in Nat /\ Cardinality(S \cap T) \in Nat
        /\ Cardinality(U) \in Nat /\ Cardinality(U) <= Cardinality(S \cup T)
    BY FewEvents
  <1>2. Cardinality(S \cup T) = Cardinality(S) + Cardinality(T) - Cardinality(S \cap T)
    BY <1>1, FS_Union
  <1> QED BY <1>1, <1>2

LEMMA FailLoss ==
    ASSUME IInv, IInv', LossBounded, NEW r \in Runs, Fail(r)
    PROVE  LossBounded'
  <1>1. run' = [run EXCEPT ![r] = Off] /\ UNCHANGED <<biz, event, queue, table>>
        /\ fails' = fails + 1
    BY DEF Fail
  <1>2. /\ Lost' \subseteq Lost \cup InBatch(r) /\ Spoilers \subseteq Spoilers'
        /\ InBatch(r) \subseteq Events /\ Cardinality(InBatch(r)) <= BatchSize
    BY <1>1, Dropped
  <1>3. Lost \subseteq Events /\ Spoilers' \subseteq Events
    BY DEF Lost, Spoilers
  <1>4. /\ Cardinality(Lost') <= Cardinality(Lost) + Cardinality(InBatch(r))
        /\ Cardinality(Spoilers) <= Cardinality(Spoilers')
        /\ Cardinality(InBatch(r)) \in Nat
    BY <1>2, <1>3, CountBoth, FewEvents
  <1>5. BatchSize \in Nat \ {0} /\ BatchSize * 1 = BatchSize /\ (BatchSize - 1) * 0 = 0
    BY AnalyticsAssumption
  <1>6. /\ Cardinality(Lost') <= Cardinality(Lost) + BatchSize * 1 + (BatchSize - 1) * 0
        /\ Cardinality(Spoilers') >= Cardinality(Spoilers) + 0
    BY <1>2, <1>4, <1>5, LossCounts
  <1> QED BY <1>1, <1>6, LossStep

LEMMA RefusedLoss ==
    ASSUME IInv, IInv', LossBounded, NEW r \in Runs, Refused(r)
    PROVE  LossBounded'
  <1>1. run' = [run EXCEPT ![r] = Off] /\ UNCHANGED <<biz, event, queue, table>>
        /\ fails' = fails
    BY DEF Refused
  <1>2. PICK e \in InBatch(r) : ~Acceptable(e)
    BY DEF Refused
  <1>3. /\ Lost' \subseteq Lost \cup {f \in InBatch(r) : Acceptable(f)}
        /\ Spoilers \cup {f \in InBatch(r) : ~Acceptable(f)} \subseteq Spoilers'
        /\ InBatch(r) \subseteq Events /\ Cardinality(InBatch(r)) <= BatchSize
    BY <1>1, Dropped
  <1> DEFINE B == InBatch(r) \ {e}
  <1>4. /\ B \subseteq Events /\ Lost' \subseteq Lost \cup B
        /\ Spoilers \cup {e} \subseteq Spoilers' /\ e \in Events
    BY <1>2, <1>3
  <1>5. e \notin Spoilers
    <2>1. ~Gone(e)
      BY <1>2 DEF Gone, Carried
    <2> QED BY <2>1, LostIs DEF GoneIsLost
  <1>6. Lost \subseteq Events /\ Spoilers' \subseteq Events /\ Spoilers \subseteq Events
    BY DEF Lost, Spoilers
  <1>7. Cardinality(B) = Cardinality(InBatch(r)) - 1 /\ Cardinality(B) \in Nat
        /\ Cardinality(InBatch(r)) \in Nat
    BY <1>2, <1>3, FewEvents, FS_RemoveElement
  <1>8. Cardinality(Spoilers \cup {e}) = Cardinality(Spoilers) + 1
    BY <1>5, <1>6, FewEvents, FS_AddElement
  <1>9. Cardinality(Spoilers \cup {e}) <= Cardinality(Spoilers')
    BY <1>4, <1>6, FewEvents
  <1>10. Cardinality(Lost') <= Cardinality(Lost) + Cardinality(B)
    BY <1>4, <1>6, CountBoth
  <1> HIDE DEF B
  <1>11. BatchSize \in Nat \ {0} /\ BatchSize * 0 = 0 /\ (BatchSize - 1) * 1 = BatchSize - 1
    BY AnalyticsAssumption
  <1>12. /\ Cardinality(Lost') <= Cardinality(Lost) + BatchSize * 0 + (BatchSize - 1) * 1
         /\ Cardinality(Spoilers') >= Cardinality(Spoilers) + 1
    BY <1>3, <1>7, <1>8, <1>9, <1>10, <1>11, LossCounts
  <1>13. fails' = fails + 0
    BY <1>1 DEF IInv, TypeOK
  <1> QED BY <1>12, <1>13, LossStep

LEMMA NextLoss == IInv /\ IInv' /\ LossBounded /\ [Next]_vars => LossBounded'
  <1> SUFFICES ASSUME IInv, IInv', LossBounded, [Next]_vars PROVE LossBounded'
    OBVIOUS
  <1>1. CASE UNCHANGED vars \/ CreatePartition \/ Tick
    <2>1. UNCHANGED <<biz, event, queue, table, fails, run>>
      BY <1>1 DEF vars, CreatePartition, Tick
    <2> QED BY <2>1, StillLoss DEF InBatch
  <1>2. ASSUME NEW r \in Runs, FlushStart(r) \/ PopEnd(r) PROVE LossBounded'
    <2>1. UNCHANGED <<biz, event, queue, table, fails>>
      BY <1>2 DEF FlushStart, PopEnd
    <2>2. PICK pc : run' = [run EXCEPT ![r].pc = pc]
      BY <1>2 DEF FlushStart, PopEnd
    <2>3. \A s \in Runs : run'[s].batch = run[s].batch
      BY <2>2 DEF IInv, TypeOK, Run
    <2> QED BY <2>1, <2>3, StillLoss DEF InBatch
  <1> QED BY <1>1, <1>2, TrackLoss, PopLoss, InsertLoss, RefusedLoss, FailLoss, PurgeLoss
          DEF Next, FlushStep

LEMMA InitLoss == Init => LossBounded
  <1> SUFFICES ASSUME Init PROVE LossBounded
    OBVIOUS
  <1>1. Lost = {} /\ Spoilers = {} /\ fails = 0
    BY DEF Init, Lost, Spoilers, Tracked
  <1>2. Cardinality({}) = 0
    BY FS_EmptySet
  <1>3. BatchSize * 0 = 0 /\ (BatchSize - 1) * 0 = 0
    BY AnalyticsAssumption
  <1> QED BY <1>1, <1>2, <1>3 DEF LossBounded

----------------------------------------------------------------------------
\* Queue, table, partitions and runs keep their types (AnalyticsService).
THEOREM TypeCorrect == Spec => []TypeOK
  BY SpecInv, PTL DEF IInv

\* Rows land in the default partition only when the job did not get through in the
\* month before (createNextMonthPartition).
THEOREM DefaultPartitionExplained == Spec => []DefaultOnlyAfterMiss
  BY SpecInv, PTL DEF IInv

\* No event is counted twice, although runs overlap and die: it waits in the queue,
\* is carried by one run, or has one row (track, flushEventQueue).
THEOREM NothingCountedTwice == Spec => []StoredAtMostOnce
  <1>1. IInv => StoredAtMostOnce
    BY CopiesOK DEF StoredAtMostOnce
  <1> QED BY <1>1, SpecInv, PTL

\* A crash costs one batch at most, and so does an event that the table refuses;
\* nothing else loses events (flushEventQueue).
THEOREM LossIsBounded == Spec => []LossBounded
  <1>1. Spec => []IInv
    BY SpecInv
  <1> QED BY <1>1, InitLoss, NextLoss, PTL DEF Spec
=============================================================================
