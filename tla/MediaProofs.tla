---------------------------- MODULE MediaProofs ----------------------------
(***************************************************************************)
(* What MediaUpload promises for any users, businesses, files, uploads in  *)
(* flight, limits and failures.                                            *)
(***************************************************************************)
EXTENDS MediaUpload, FiniteSetTheorems, TLAPS

\* The steps of an upload that has named its file.
Carrying == {"put", "banner", "save", "scan"}

\* An upload knows whom it acts for, and where it stands says what it has stored.
Placed(q) ==
    /\ q.pc # "idle" => q.u \in Users /\ q.b \in Businesses /\ q.type \in Types
    /\ IF q.pc \in Carrying THEN q.f \in Files \ fresh ELSE q.f = Null
    /\ q.pc \in {"put", "banner", "save"} => row[q.f] = Null
    /\ q.pc = "banner" => q.type = "banner" /\ Basic \subseteq objects[q.f]
    /\ q.pc = "save" => VariantsOf(q.type) \subseteq objects[q.f]
    /\ q.pc = "scan" => row[q.f] # Null \/ biz # Businesses

AllPlaced == \A r \in Requests : Placed(req[r])
OwnFiles  == \A r \in Requests : \A s \in Requests \ {r} :
                 req[r].f # Null => req[s].f # req[r].f
Untouched == \A f \in fresh : row[f] = Null /\ objects[f] = {}

FilesInv == AllPlaced /\ OwnFiles /\ Untouched /\ VariantsStored
IInv     == TypeOK /\ FilesInv

----------------------------------------------------------------------------
(* Operators *)

LEMMA IdleOK == Idle \in Request /\ Idle.pc = "idle" /\ Idle.f = Null /\ Idle.b = Null
  BY DEF Idle, Request

LEMMA VariantsOfOK ==
    ASSUME NEW type
    PROVE  VariantsOf(type) \in SUBSET Variants
  BY DEF VariantsOf, Variants

\* A row is never taken for a missing one.
LEMMA RowNotNull == \A x \in Row : x # Null
  BY MediaAssumption

----------------------------------------------------------------------------
(* Types *)

\* What a step of a request leaves of it.
LEMMA MoveType ==
    ASSUME TypeOK, NEW r \in Requests, NEW q \in Request, req' = [req EXCEPT ![r] = q]
    PROVE  req' \in [Requests -> Request] /\ req'[r] = q
  BY DEF TypeOK

LEMMA GotoOK ==
    ASSUME TypeOK, NEW r \in Requests,
           NEW pc \in {"idle", "expire", "find", "count", "put", "banner", "save", "scan"},
           Goto(r, pc)
    PROVE  \E q \in Request :
              /\ req' = [req EXCEPT ![r] = q]
              /\ q.pc = pc /\ q.u = req[r].u /\ q.b = req[r].b /\ q.type = req[r].type
              /\ q.f = req[r].f
  <1> DEFINE q == [req[r] EXCEPT !.pc = pc]
  <1>1. req[r] \in Request
    BY DEF TypeOK
  <1>2. /\ q \in Request
        /\ q.pc = pc /\ q.u = req[r].u /\ q.b = req[r].b /\ q.type = req[r].type
        /\ q.f = req[r].f
    BY <1>1 DEF Request
  <1>3. req' = [req EXCEPT ![r] = q]
    BY DEF Goto
  <1> QED BY <1>2, <1>3

\* A request past the first call has its parameters, one past the count its file.
LEMMA PlacedOK ==
    ASSUME IInv, NEW r \in Requests
    PROVE  /\ req[r] \in Request /\ Placed(req[r])
  BY DEF IInv, FilesInv, AllPlaced, TypeOK

----------------------------------------------------------------------------
(* The files of the requests *)

\* A step that stores nothing keeps the files apart.
LEMMA LeaveInv ==
    ASSUME IInv, NEW r \in Requests, NEW q \in Request,
           q.pc \notin Carrying, q.f = Null,
           q.pc # "idle" => q.u \in Users /\ q.b \in Businesses /\ q.type \in Types,
           req' = [req EXCEPT ![r] = q], UNCHANGED <<biz, row, objects, fresh>>
    PROVE  FilesInv'
  <1>1. \A s \in Requests : req'[s] = IF s = r THEN q ELSE req[s]
    BY DEF IInv, TypeOK
  <1>2. AllPlaced'
    BY <1>1 DEF IInv, FilesInv, AllPlaced, Placed, Carrying
  <1>3. OwnFiles'
    BY <1>1 DEF IInv, FilesInv, OwnFiles
  <1> QED BY <1>2, <1>3 DEF IInv, FilesInv, Untouched, VariantsStored

\* A step may do what it likes to the file that it holds or has just named.
LEMMA CarryInv ==
    ASSUME IInv, NEW r \in Requests, NEW q \in Request, NEW f \in Files,
           f = req[r].f \/ f \in fresh,
           q.f = f \/ q.f = Null,
           req' = [req EXCEPT ![r] = q], biz' = biz, fresh' = fresh \ {f},
           \A g \in Files \ {f} : row'[g] = row[g] /\ objects'[g] = objects[g],
           row'[f] # Null => row'[f].variants \subseteq objects'[f],
           Placed(q)'
    PROVE  FilesInv'
  <1>1. \A s \in Requests : req'[s] = IF s = r THEN q ELSE req[s]
    BY DEF IInv, TypeOK
  <1>2. ASSUME NEW s \in Requests \ {r}
        PROVE  req[s].f # f
    <2>1. f # Null
      BY MediaAssumption
    <2>2. CASE f = req[r].f
      BY <2>1, <2>2 DEF IInv, FilesInv, OwnFiles
    <2>3. CASE f \in fresh
      BY <2>1, <2>3 DEF IInv, FilesInv, AllPlaced, Placed
    <2> QED BY <2>2, <2>3
  <1>3. ASSUME NEW s \in Requests \ {r}
        PROVE  Placed(req[s])'
    <2>1. Placed(req[s]) /\ req'[s] = req[s]
      BY <1>1 DEF IInv, FilesInv, AllPlaced
    <2>2. CASE req[s].pc \notin Carrying
      BY <2>1, <2>2 DEF Placed, Carrying
    <2>3. CASE req[s].pc \in Carrying
      <3>1. req[s].f \in Files \ {f}
        BY <1>2, <2>1, <2>3 DEF Placed
      <3>2. row'[req[s].f] = row[req[s].f] /\ objects'[req[s].f] = objects[req[s].f]
        BY <3>1
      <3> QED BY <2>1, <2>3, <3>1, <3>2 DEF Placed, Carrying
    <2> QED BY <2>2, <2>3
  <1>4. AllPlaced'
    BY <1>1, <1>3 DEF AllPlaced
  <1>5. OwnFiles'
    BY <1>1, <1>2 DEF IInv, FilesInv, OwnFiles
  <1>6. Untouched'
    BY DEF IInv, FilesInv, Untouched, TypeOK
  <1>7. VariantsStored'
    BY DEF IInv, FilesInv, VariantsStored
  <1> QED BY <1>4, <1>5, <1>6, <1>7 DEF FilesInv

----------------------------------------------------------------------------
(* The steps *)

LEMMA InitInv == Init => IInv
  BY MediaAssumption, IdleOK
  DEF Init, IInv, TypeOK, FilesInv, AllPlaced, Placed, Carrying, OwnFiles, Untouched,
      VariantsStored,
      Idle, NoKey, Counter, Instants

\* INCR gives the user a count, and the request nothing but its parameters.
LEMMA RateCountInv ==
    ASSUME IInv, NEW r \in Requests, NEW u \in Users, NEW b \in Businesses, NEW type \in Types,
           RateCount(r, u, b, type)
    PROVE  IInv'
  <1> DEFINE n == rate[u].n + 1
             q == [pc |-> IF FirstOfWindow(n) THEN "expire" ELSE "find",
                   u |-> u, b |-> b, type |-> type, f |-> Null]
  <1>1. /\ rate' = [rate EXCEPT ![u].n = n]
      /\ UNCHANGED <<biz, row, objects, queue, fresh, now, fails>>
        /\ n <= MaxCount
    BY DEF RateCount
  <1>2. rate' \in [Users -> Counter]
    <2>1. rate[u] \in Counter /\ rate \in [Users -> Counter]
      BY DEF IInv, TypeOK
    <2>2. n \in 0 .. MaxCount
      BY <1>1, <2>1, MediaAssumption DEF Counter
    <2> HIDE DEF n
    <2>3. [rate[u] EXCEPT !.n = n] \in Counter
      BY <2>1, <2>2 DEF Counter
    <2> QED BY <1>1, <2>1, <2>3
  <1>3. CASE req' = req
    BY <1>1, <1>2, <1>3 DEF IInv, TypeOK, FilesInv, AllPlaced, Placed, OwnFiles, Untouched,
                            VariantsStored
  <1>4. CASE req' = [req EXCEPT ![r] = q]
    <2>1. q \in Request /\ q.pc \notin Carrying /\ q.f = Null
          /\ q.u \in Users /\ q.b \in Businesses /\ q.type \in Types
      BY DEF Request, Carrying
    <2> HIDE DEF q
    <2> QED BY <1>1, <1>2, <1>4, <2>1, LeaveInv, MoveType DEF IInv, TypeOK
  <1> QED BY <1>3, <1>4 DEF RateCount

\* Steps that only send the request on, to its end or to one before the count.
LEMMA ReadInv ==
    ASSUME IInv, NEW r \in Requests,
           RateExpire(r) \/ FindBusiness(r) \/ Refuse(r) \/ Conflict(r) \/ QueueScan(r) \/ Fail(r)
    PROVE  IInv'
  <1>1. PICK q \in Request :
          /\ req' = [req EXCEPT ![r] = q] /\ q.pc \notin Carrying /\ q.f = Null
          /\ q.pc # "idle" => q.u \in Users /\ q.b \in Businesses /\ q.type \in Types
    <2>1. CASE Finish(r)
      BY <2>1, IdleOK DEF Finish, Carrying
    <2>2. CASE ~At(r, "idle") /\ req[r].pc \notin Carrying /\ (Goto(r, "find") \/ Goto(r, "count"))
      <3>1. /\ req[r].f = Null /\ req[r].u \in Users
            /\ req[r].b \in Businesses /\ req[r].type \in Types
        BY <2>2, PlacedOK DEF Placed, At
      <3> QED BY <2>2, <3>1, GotoOK DEF IInv, Carrying
    <2> QED
      BY <2>1, <2>2
      DEF RateExpire, FindBusiness, Refuse, Conflict, QueueScan, Fail, At, Carrying
  <1>2. UNCHANGED <<biz, row, objects, fresh, now>>
    BY DEF RateExpire, FindBusiness, Refuse, Conflict, QueueScan, Fail
  <1>3. rate' \in [Users -> Counter]
    <2>1. CASE rate' = rate
      BY <2>1 DEF IInv, TypeOK
    <2>2. CASE RateExpire(r)
      <3>1. req[r].u \in Users
        BY <2>2, PlacedOK DEF Placed, RateExpire, At
      <3>2. now + Window \in Instants
        BY MediaAssumption DEF IInv, TypeOK, Instants
      <3>3. \A k \in Counter : [k EXCEPT !.exp = now + Window] \in Counter
        BY <3>2 DEF Counter
      <3> QED BY <2>2, <3>1, <3>3 DEF RateExpire, IInv, TypeOK
    <2> QED BY <2>1, <2>2 DEF FindBusiness, Refuse, Conflict, QueueScan, Fail
  <1>4. queue' \subseteq Files
    <2>1. CASE queue' = queue
      BY <2>1 DEF IInv, TypeOK
    <2>2. CASE QueueScan(r)
      BY <2>2, PlacedOK DEF Placed, QueueScan, At, Carrying, IInv, TypeOK
    <2> QED BY <2>1, <2>2 DEF RateExpire, FindBusiness, Refuse, Conflict, Fail
  <1>5. fails' \in 0 .. MaxFails
    BY MediaAssumption DEF RateExpire, FindBusiness, Refuse, Conflict, QueueScan, Fail, IInv, TypeOK
  <1> QED BY <1>1, <1>2, <1>3, <1>4, <1>5, LeaveInv, MoveType DEF IInv, TypeOK

\* The file gets its name, which nobody else has.
LEMMA CountFilesInv ==
    ASSUME IInv, NEW r \in Requests, CountFiles(r)
    PROVE  IInv'
  <1>1. PICK f \in fresh : req' = [req EXCEPT ![r].pc = "put", ![r].f = f] /\ fresh' = fresh \ {f}
    BY DEF CountFiles
  <1>2. /\ f \in Files /\ req[r].pc = "count"
      /\ UNCHANGED <<biz, row, objects, queue, rate, now, fails>>
    BY DEF CountFiles, At, IInv, TypeOK
  <1>3. PICK q \in Request :
          /\ req' = [req EXCEPT ![r] = q] /\ q.pc = "put" /\ q.f = f
          /\ q.u \in Users /\ q.b \in Businesses /\ q.type \in Types
    <2> DEFINE q == [req[r] EXCEPT !.pc = "put", !.f = f]
    <2>1. /\ q \in Request /\ q.pc = "put" /\ q.f = f
          /\ q.u \in Users /\ q.b \in Businesses /\ q.type \in Types
      BY <1>2, PlacedOK DEF Placed, Request
    <2>2. req' = [req EXCEPT ![r] = q]
      BY <1>1
    <2> HIDE DEF q
    <2> QED BY <2>1, <2>2
  <1>4. row[f] = Null
    BY DEF IInv, FilesInv, Untouched
  <1>5. Placed(q)'
    BY <1>1, <1>2, <1>3, <1>4 DEF Placed, Carrying
  <1>6. FilesInv'
    BY <1>1, <1>2, <1>3, <1>4, <1>5, CarryInv
  <1>7. TypeOK'
    BY <1>1, <1>2, <1>3, MoveType DEF IInv, TypeOK
  <1> QED BY <1>6, <1>7 DEF IInv

\* The uploads store what the row will name.
LEMMA PutInv ==
    ASSUME IInv, NEW r \in Requests, PutBasic(r) \/ PutPartly(r) \/ PutBanner(r)
    PROVE  IInv'
  <1> DEFINE f == req[r].f
  <1>1. /\ f \in Files \ fresh /\ row[f] = Null /\ req[r].type \in Types
        /\ req[r].u \in Users /\ req[r].b \in Businesses
        /\ UNCHANGED <<biz, row, queue, rate, fresh, now>>
    BY PlacedOK DEF Placed, Carrying, PutBasic, PutPartly, PutBanner, At
  <1>2. fails' \in 0 .. MaxFails
    BY MediaAssumption DEF PutBasic, PutPartly, PutBanner, IInv, TypeOK
  <1>3. PICK some \in SUBSET Variants :
          /\ objects' = [objects EXCEPT ![f] = some]
          /\ PutBasic(r) => some = Basic
          /\ PutBanner(r) => some = objects[f] \cup {"banner"}
    <2>1. objects[f] \in SUBSET Variants
      BY <1>1 DEF IInv, TypeOK
    <2> QED BY <2>1 DEF PutBasic, PutPartly, PutBanner, Variants, At
  <1>4. objects' \in [Files -> SUBSET Variants] /\ objects'[f] = some
        /\ \A g \in Files \ {f} : objects'[g] = objects[g]
    BY <1>1, <1>3 DEF IInv, TypeOK
  <1>5. PICK q \in Request : /\ req' = [req EXCEPT ![r] = q] /\ (q.f = f \/ q.f = Null)
                             /\ Placed(q)'
    <2>1. CASE PutBasic(r)
      <3>1. PICK q \in Request :
              /\ req' = [req EXCEPT ![r] = q] /\ q.f = f /\ q.pc = AfterPut(req[r].type)
              /\ q.u = req[r].u /\ q.b = req[r].b /\ q.type = req[r].type
        BY <2>1, GotoOK DEF PutBasic, AfterPut, IInv
      <3> QED BY <1>1, <1>3, <1>4, <2>1, <3>1 DEF Placed, Carrying, AfterPut, VariantsOf
    <2>2. CASE PutBanner(r)
      <3>1. PICK q \in Request :
              /\ req' = [req EXCEPT ![r] = q] /\ q.f = f /\ q.pc = "save"
              /\ q.u = req[r].u /\ q.b = req[r].b /\ q.type = req[r].type
        BY <2>2, GotoOK DEF PutBanner, IInv
      <3>2. Basic \subseteq objects[f]
        BY <2>2, PlacedOK DEF PutBanner, Placed, At
      <3> QED BY <1>1, <1>3, <1>4, <2>2, <3>1, <3>2 DEF Placed, Carrying, VariantsOf, Variants
    <2>3. CASE PutPartly(r)
      BY <2>3, IdleOK DEF PutPartly, Finish, Placed, Carrying
    <2> QED BY <2>1, <2>2, <2>3
  <1> HIDE DEF f
  <1>6. FilesInv'
    <2>1. fresh' = fresh \ {f} /\ row'[f] = Null /\ \A g \in Files : row'[g] = row[g]
      BY <1>1
    <2> QED BY <1>1, <1>4, <1>5, <2>1, CarryInv DEF f
  <1>7. TypeOK'
    BY <1>1, <1>2, <1>4, <1>5, MoveType DEF IInv, TypeOK
  <1> QED BY <1>6, <1>7 DEF IInv

LEMMA SaveRowInv ==
    ASSUME IInv, NEW r \in Requests, SaveRow(r)
    PROVE  IInv'
  <1> DEFINE f == req[r].f
             new == [biz |-> req[r].b, variants |-> VariantsOf(req[r].type)]
  <1>1. /\ f \in Files \ fresh /\ req[r].u \in Users
      /\ req[r].b \in Businesses /\ req[r].type \in Types
        /\ VariantsOf(req[r].type) \subseteq objects[f]
        /\ UNCHANGED <<biz, objects, queue, rate, fresh, now, fails>>
        /\ row' = [row EXCEPT ![f] = new]
    BY PlacedOK DEF Placed, Carrying, SaveRow, At
  <1>2. new \in Row /\ new # Null /\ new.variants \subseteq objects[f]
    BY <1>1, VariantsOfOK, RowNotNull DEF Row
  <1> HIDE DEF new
  <1>3. row' \in [Files -> Row \cup {Null}] /\ row'[f] = new
        /\ \A g \in Files \ {f} : row'[g] = row[g]
    BY <1>1, <1>2 DEF IInv, TypeOK
  <1>4. PICK q \in Request :
          /\ req' = [req EXCEPT ![r] = q] /\ q.f = f /\ q.pc = "scan"
          /\ q.u = req[r].u /\ q.b = req[r].b /\ q.type = req[r].type
    BY GotoOK DEF SaveRow, AfterSave, IInv
  <1>5. Placed(q)'
    BY <1>1, <1>2, <1>3, <1>4 DEF Placed, Carrying
  <1> HIDE DEF f
  <1>6. FilesInv'
    <2>1. fresh' = fresh \ {f}
      BY <1>1
    <2> QED BY <1>1, <1>2, <1>3, <1>4, <1>5, <2>1, CarryInv DEF f
  <1>7. TypeOK'
    BY <1>1, <1>3, <1>4, MoveType DEF IInv, TypeOK
  <1> QED BY <1>6, <1>7 DEF IInv

LEMMA PurgeInv ==
    ASSUME IInv, NEW b \in Businesses, Purge(b)
    PROVE  IInv'
  <1>1. \A f \in Files : row'[f] = row[f] \/ row'[f] = Null
    BY DEF Purge
  <1>2. biz' # Businesses /\ biz' \subseteq Businesses
    BY DEF Purge, IInv, TypeOK
  <1>3. row' \in [Files -> Row \cup {Null}]
    BY <1>1 DEF Purge, IInv, TypeOK
  <1>4. UNCHANGED <<objects, queue, rate, fresh, now, req, fails>>
    BY DEF Purge
  <1>5. AllPlaced'
    BY <1>1, <1>2, <1>4 DEF IInv, FilesInv, AllPlaced, Placed, Carrying
  <1>6. TypeOK'
    BY <1>2, <1>3, <1>4 DEF IInv, TypeOK
  <1>7. OwnFiles' /\ Untouched' /\ VariantsStored'
    BY <1>1, <1>4 DEF IInv, FilesInv, OwnFiles, Untouched, VariantsStored, TypeOK
  <1> QED BY <1>5, <1>6, <1>7 DEF IInv, FilesInv

LEMMA TickInv ==
    ASSUME IInv, Tick
    PROVE  IInv'
  <1>1. rate' \in [Users -> Counter] /\ now' \in 0 .. MaxTime
    BY MediaAssumption DEF Tick, IInv, TypeOK, NoKey, Counter
  <1> QED BY <1>1 DEF Tick, IInv, TypeOK, FilesInv, AllPlaced, Placed, OwnFiles, Untouched,
                      VariantsStored

LEMMA NextInv == IInv /\ [Next]_vars => IInv'
  <1> SUFFICES ASSUME IInv, [Next]_vars PROVE IInv'
    OBVIOUS
  <1>1. ASSUME NEW r \in Requests, Step(r) PROVE IInv'
    <2>1. CASE Delete(r)
      BY <2>1 DEF Delete, vars, IInv, TypeOK, FilesInv, AllPlaced, Placed, OwnFiles, Untouched,
                  VariantsStored
    <2> QED BY <1>1, <2>1, RateCountInv, ReadInv, CountFilesInv, PutInv, SaveRowInv DEF Step
  <1>2. CASE UNCHANGED vars
    BY <1>2 DEF vars, IInv, TypeOK, FilesInv, AllPlaced, Placed, OwnFiles, Untouched, VariantsStored
  <1> QED BY <1>1, <1>2, PurgeInv, TickInv DEF Next

LEMMA SpecInv == Spec => []IInv
  BY InitInv, NextInv, PTL DEF Spec

\* The tables, counters and requests keep their types (MediaService.upload).
THEOREM TypeCorrect == Spec => []TypeOK
  BY SpecInv, PTL DEF IInv

\* Whatever a page may link to is in the bucket, however uploads overlap, fail
\* and meet the purge (MediaService.upload).
THEOREM VariantsAlwaysStored == Spec => []VariantsStored
  BY SpecInv, PTL DEF IInv, FilesInv

----------------------------------------------------------------------------
(* Counting what failures leave behind *)

\* A set that grows by one element per failure, and otherwise only shrinks.
LEMMA OnePerFailure ==
    ASSUME NEW S, IsFiniteSet(S), NEW m \in Nat, Cardinality(S) <= m, NEW T, NEW n \in Nat,
           \/ T \subseteq S /\ n >= m
           \/ \E x : T \subseteq S \cup {x} /\ n = m + 1
    PROVE  IsFiniteSet(T) /\ Cardinality(T) <= n
  <1>1. CASE T \subseteq S /\ n >= m
    BY <1>1, FS_Subset, FS_CardinalityType
  <1>2. CASE \E x : T \subseteq S \cup {x} /\ n = m + 1
    <2>1. PICK x : T \subseteq S \cup {x} /\ n = m + 1
      BY <1>2
    <2>2. IsFiniteSet(S \cup {x})
          /\ Cardinality(S \cup {x}) = IF x \in S THEN Cardinality(S) ELSE Cardinality(S) + 1
      BY FS_AddElement
    <2>3. Cardinality(S) \in Nat
      BY FS_CardinalityType
    <2>4. IsFiniteSet(T) /\ Cardinality(T) <= Cardinality(S \cup {x})
      BY <2>1, <2>2, FS_Subset
    <2>5. Cardinality(T) \in Nat
      BY <2>4, FS_CardinalityType
    <2> QED BY <2>1, <2>2, <2>3, <2>4, <2>5
  <1> QED BY <1>1, <1>2

\* A step of one request leaves the others alone.
LEMMA OthersStay ==
    ASSUME IInv, NEW r \in Requests, Step(r)
    PROVE  \A s \in Requests \ {r} : req'[s] = req[s]
  BY DEF Step, RateCount, RateExpire, FindBusiness, CountFiles, Refuse, PutBasic, PutPartly,
         PutBanner, SaveRow, Conflict, QueueScan, Fail, Delete, vars, Goto, Finish, IInv, TypeOK

LEMMA FailsStep ==
    ASSUME NEW r \in Requests, Step(r)
    PROVE  fails' = IF Fail(r) \/ PutPartly(r) THEN fails + 1 ELSE fails
  BY DEF Step, RateCount, RateExpire, FindBusiness, CountFiles, Refuse, PutBasic, PutPartly,
         PutBanner, SaveRow, Conflict, QueueScan, Fail, Delete, vars

LEMMA FailsNat == IInv => fails \in Nat
  BY MediaAssumption DEF IInv, TypeOK

\* The files whose upload ended between the row and the queue.
Forgotten == {f \in Unqueued : \A r \in Requests : ~(At(r, "scan") /\ req[r].f = f)}

LEMMA ForgottenStep ==
    ASSUME IInv, [Next]_vars
    PROVE  \/ Forgotten' \subseteq Forgotten /\ fails' = fails
           \/ \E x : Forgotten' \subseteq Forgotten \cup {x} /\ fails' = fails + 1
  <1>1. ASSUME NEW r \in Requests, Step(r),
               NEW f \in Forgotten', f \notin Forgotten, ~(f = req[r].f /\ Fail(r))
        PROVE  FALSE
    <2>1. f \in Files /\ row'[f] # Null /\ f \notin queue'
          /\ \A s \in Requests : ~(req'[s].pc = "scan" /\ req'[s].f = f)
      BY <1>1 DEF Forgotten, Unqueued, At
    <2>2. CASE SaveRow(r)
      <3>1. f # req[r].f
        <4>1. req'[r].pc = "scan" /\ req'[r].f = req[r].f
          BY <2>2, GotoOK DEF SaveRow, AfterSave, IInv, TypeOK
        <4> QED BY <2>1, <4>1
      <3>2. row'[f] = row[f] /\ queue' = queue
        BY <2>1, <2>2, <3>1 DEF SaveRow, IInv, TypeOK
      <3>3. req[r].pc # "scan"
        BY <2>2 DEF SaveRow, At
      <3> QED BY <1>1, <2>1, <3>2, <3>3, OthersStay DEF Forgotten, Unqueued, At
    <2>3. CASE QueueScan(r)
      <3>1. row' = row /\ queue' = queue \cup {req[r].f}
        BY <2>3 DEF QueueScan
      <3> QED BY <1>1, <2>1, <3>1, OthersStay DEF Forgotten, Unqueued, At
    <2>4. CASE Fail(r)
      <3>1. row' = row /\ queue' = queue
        BY <2>4 DEF Fail
      <3> QED BY <1>1, <2>1, <2>4, <3>1, OthersStay DEF Forgotten, Unqueued, At
    <2>5. CASE Delete(r)
      BY <1>1, <2>5 DEF Delete, vars, Forgotten, Unqueued, At
    <2>6. CASE ~SaveRow(r) /\ ~QueueScan(r) /\ ~Fail(r) /\ ~Delete(r)
      <3>1. row' = row /\ queue' = queue /\ req[r].pc # "scan"
        BY <1>1, <2>6 DEF Step, RateCount, RateExpire, FindBusiness, CountFiles, Refuse, PutBasic,
                          PutPartly, PutBanner, Conflict, At
      <3> QED BY <1>1, <2>1, <3>1, OthersStay DEF Forgotten, Unqueued, At
    <2> QED BY <2>2, <2>3, <2>4, <2>5, <2>6
  <1>2. ASSUME NEW r \in Requests, Step(r)
        PROVE  \/ Forgotten' \subseteq Forgotten /\ fails' = fails
               \/ Forgotten' \subseteq Forgotten \cup {req[r].f} /\ fails' = fails + 1
    BY <1>1, <1>2, FailsStep
  <1>3. ASSUME NEW b \in Businesses, Purge(b)
        PROVE  Forgotten' \subseteq Forgotten /\ fails' = fails
    BY <1>3 DEF Purge, Forgotten, Unqueued, At
  <1>4. CASE Tick \/ UNCHANGED vars
    BY <1>4 DEF Tick, vars, Forgotten, Unqueued, At
  <1> QED BY <1>2, <1>3, <1>4 DEF Next

\* Every stored file waits for its malware scan, but for one per failure
\* (MediaService.upload).
THEOREM StoredFilesQueued == Spec => []StoredIsQueued
  <1> DEFINE Inv == IsFiniteSet(Forgotten) /\ Cardinality(Forgotten) <= fails
  <1>1. Init => Inv
    <2> SUFFICES ASSUME Init PROVE Forgotten = {} /\ fails = 0
      BY FS_EmptySet
    <2> QED BY DEF Init, Forgotten, Unqueued
  <1>2. IInv /\ IInv' /\ Inv /\ [Next]_vars => Inv'
    <2> SUFFICES ASSUME IInv, IInv', Inv, [Next]_vars PROVE Inv'
      OBVIOUS
    <2>1. fails \in Nat /\ fails' \in Nat
      BY MediaAssumption DEF IInv, TypeOK
    <2> QED BY <2>1, ForgottenStep, OnePerFailure
  <1>3. Inv => StoredIsQueued
    BY DEF StoredIsQueued, Forgotten
  <1> QED BY <1>1, <1>2, <1>3, SpecInv, PTL DEF Spec

----------------------------------------------------------------------------
\* The files that no row names and no upload holds.
Abandoned == {f \in Orphans : \A r \in Requests : req[r].f # f}

LEMMA AbandonedStep ==
    ASSUME IInv, [Next]_vars, biz' = Businesses
    PROVE  /\ biz = Businesses
           /\ \/ Abandoned' \subseteq Abandoned /\ fails' = fails
              \/ \E x : Abandoned' \subseteq Abandoned \cup {x} /\ fails' = fails + 1
  <1>1. biz = Businesses /\ ~\E b \in Businesses : Purge(b)
    BY DEF Next, Step, RateCount, RateExpire, FindBusiness, CountFiles, Refuse, PutBasic, PutPartly,
           PutBanner, SaveRow, Conflict, QueueScan, Fail, Delete, Purge, Tick, vars, IInv, TypeOK
  <1>2. ASSUME NEW r \in Requests, Step(r),
               NEW f \in Abandoned', f \notin Abandoned
        PROVE  f = req[r].f /\ (Fail(r) \/ PutPartly(r))
    <2>1. /\ f \in Files /\ row'[f] = Null /\ objects'[f] # {}
          /\ \A s \in Requests : req'[s].f # f
      BY <1>2 DEF Abandoned, Orphans
    <2>2. \A s \in Requests \ {r} : req[s].f # f
      BY <1>2, <2>1, OthersStay
    <2>3. CASE SaveRow(r)
      <3>1. req'[r].f = req[r].f
        BY <2>3, GotoOK DEF SaveRow, AfterSave, IInv, TypeOK
      <3>2. row'[f] = row[f] /\ objects' = objects
        BY <2>1, <2>3, <3>1 DEF SaveRow, IInv, TypeOK
      <3> QED BY <1>2, <2>1, <2>2, <3>1, <3>2 DEF Abandoned, Orphans
    <2>4. CASE PutBasic(r) \/ PutBanner(r)
      <3>1. req'[r].f = req[r].f
        BY <2>4, GotoOK DEF PutBasic, AfterPut, PutBanner, IInv, TypeOK
      <3>2. row' = row /\ objects'[f] = objects[f]
        BY <2>1, <2>4, <3>1 DEF PutBasic, PutBanner, IInv, TypeOK
      <3> QED BY <1>2, <2>1, <2>2, <3>1, <3>2 DEF Abandoned, Orphans
    <2>5. CASE PutPartly(r)
      <3>1. row' = row /\ (f # req[r].f => objects'[f] = objects[f])
        BY <2>1, <2>5 DEF PutPartly, IInv, TypeOK
      <3> QED BY <1>2, <2>1, <2>2, <2>5, <3>1 DEF Abandoned, Orphans
    <2>6. CASE Fail(r)
      BY <1>2, <2>1, <2>2, <2>6 DEF Fail, Abandoned, Orphans
    <2>7. CASE ~SaveRow(r) /\ ~PutBasic(r) /\ ~PutBanner(r) /\ ~PutPartly(r) /\ ~Fail(r)
      <3>1. row' = row /\ objects' = objects
        BY <1>2, <2>7 DEF Step, RateCount, RateExpire, FindBusiness, CountFiles, Refuse, Conflict,
                          QueueScan, Delete, vars
      <3>2. \/ req[r].pc \notin {"put", "banner", "save"}
            \/ req' = req
        BY <1>1, <1>2, <2>7, PlacedOK
        DEF Step, RateCount, RateExpire, FindBusiness, CountFiles, Refuse, Conflict, QueueScan,
            Delete, At, vars, Placed, MayInsert
      <3>3. req[r].f = Null \/ row[req[r].f] # Null \/ req' = req
        BY <1>1, <3>2, PlacedOK DEF Placed, Carrying
      <3> QED BY <1>2, <2>1, <2>2, <3>1, <3>3, MediaAssumption DEF Abandoned, Orphans
    <2> QED BY <2>3, <2>4, <2>5, <2>6, <2>7
  <1>3. ASSUME NEW r \in Requests, Step(r)
        PROVE  \/ Abandoned' \subseteq Abandoned /\ fails' = fails
               \/ Abandoned' \subseteq Abandoned \cup {req[r].f} /\ fails' = fails + 1
    BY <1>2, <1>3, FailsStep
  <1>4. CASE Tick \/ UNCHANGED vars
    BY <1>4 DEF Tick, vars, Abandoned, Orphans
  <1> QED BY <1>1, <1>3, <1>4 DEF Next

\* While no business is purged, an object that no row names belongs to an upload
\* under way, but for one file per failure (MediaService.upload).
THEOREM OrphansAreExplained == Spec => []OrphansExplained
  <1> DEFINE Inv == biz = Businesses => IsFiniteSet(Abandoned) /\ Cardinality(Abandoned) <= fails
  <1>1. Init => Inv
    <2> SUFFICES ASSUME Init PROVE Abandoned = {} /\ fails = 0
      BY FS_EmptySet
    <2> QED BY DEF Init, Abandoned, Orphans
  <1>2. IInv /\ IInv' /\ Inv /\ [Next]_vars => Inv'
    <2> SUFFICES ASSUME IInv, IInv', Inv, [Next]_vars, biz' = Businesses
                 PROVE  IsFiniteSet(Abandoned') /\ Cardinality(Abandoned') <= fails'
      OBVIOUS
    <2>1. fails \in Nat /\ fails' \in Nat
      BY MediaAssumption DEF IInv, TypeOK
    <2>2. /\ biz = Businesses
          /\ \/ Abandoned' \subseteq Abandoned /\ fails' >= fails
             \/ \E x : Abandoned' \subseteq Abandoned \cup {x} /\ fails' = fails + 1
      BY <2>1, AbandonedStep
    <2>3. IsFiniteSet(Abandoned) /\ Cardinality(Abandoned) <= fails
      BY <2>2
    <2> QED BY <2>1, <2>2, <2>3, OnePerFailure
  <1>3. Inv => OrphansExplained
    BY DEF OrphansExplained, Abandoned
  <1> QED BY <1>1, <1>2, <1>3, SpecInv, PTL DEF Spec

----------------------------------------------------------------------------
\* The users whose counter never runs out, with nobody about to see to it.
ShutOut == {u \in Endless : \A r \in Requests : ~(At(r, "expire") /\ req[r].u = u)}

LEMMA ShutOutStep ==
    ASSUME IInv, [Next]_vars
    PROVE  \/ ShutOut' \subseteq ShutOut /\ fails' >= fails
           \/ \E x : ShutOut' \subseteq ShutOut \cup {x} /\ fails' = fails + 1
  <1>1. ASSUME NEW r \in Requests, Step(r),
               NEW u \in ShutOut', u \notin ShutOut
        PROVE  u = req[r].u /\ Fail(r)
    <2>1. /\ u \in Users /\ rate'[u].n > 0 /\ rate'[u].exp = Null
          /\ \A s \in Requests : ~(req'[s].pc = "expire" /\ req'[s].u = u)
      BY <1>1 DEF ShutOut, Endless, At
    <2>2. \A s \in Requests \ {r} : ~(req[s].pc = "expire" /\ req[s].u = u)
      BY <1>1, <2>1, OthersStay
    <2>3. ASSUME NEW v \in Users, NEW b \in Businesses, NEW type \in Types, RateCount(r, v, b, type)
          PROVE  FALSE
      <3>1. rate[u] \in Counter /\ rate \in [Users -> Counter] /\ req \in [Requests -> Request]
        BY <2>1 DEF IInv, TypeOK
      <3>2. CASE u = v /\ rate[u].n = 0
        <4>1. req'[r].pc = "expire" /\ req'[r].u = u
          BY <2>3, <3>1, <3>2 DEF RateCount, FirstOfWindow
        <4> QED BY <2>1, <4>1
      <3>3. CASE u # v \/ rate[u].n # 0
        <4>1. rate[u].n > 0 /\ rate[u].exp = Null
          BY <2>1, <2>3, <3>1, <3>3 DEF RateCount, Counter
        <4> QED BY <1>1, <2>1, <2>2, <2>3, <4>1 DEF ShutOut, Endless, At, RateCount
      <3> QED BY <3>2, <3>3
    <2>4. CASE RateExpire(r)
      <3>1. req[r].u \in Users /\ now + Window # Null
        BY <2>4, PlacedOK, MediaAssumption DEF RateExpire, At, Placed, IInv, TypeOK
      <3>2. rate[u] \in Counter /\ rate \in [Users -> Counter]
        BY <2>1 DEF IInv, TypeOK
      <3>3. u # req[r].u
        BY <2>1, <2>4, <3>1, <3>2 DEF RateExpire, Counter
      <3> QED BY <1>1, <2>1, <2>2, <2>4, <3>1, <3>2, <3>3 DEF RateExpire, ShutOut, Endless, At
    <2>5. CASE Fail(r)
      BY <1>1, <2>1, <2>2, <2>5 DEF Fail, ShutOut, Endless, At
    <2>6. CASE /\ ~RateExpire(r) /\ ~Fail(r)
               /\ \A v \in Users, b \in Businesses, type \in Types : ~RateCount(r, v, b, type)
      <3>1. rate' = rate /\ (req[r].pc # "expire" \/ req' = req)
        BY <1>1, <2>6 DEF Step, FindBusiness, CountFiles, Refuse, PutBasic, PutPartly, PutBanner,
                          SaveRow, Conflict, QueueScan, Delete, At, vars
      <3> QED BY <1>1, <2>1, <2>2, <3>1 DEF ShutOut, Endless, At
    <2> QED BY <2>3, <2>4, <2>5, <2>6
  <1>2. ASSUME NEW r \in Requests, Step(r)
        PROVE  \/ ShutOut' \subseteq ShutOut /\ fails' >= fails
               \/ ShutOut' \subseteq ShutOut \cup {req[r].u} /\ fails' = fails + 1
    BY <1>1, <1>2, FailsStep, FailsNat
  <1>3. CASE Tick
    <2>1. rate \in [Users -> Counter] /\ req' = req /\ fails' = fails
      BY <1>3 DEF Tick, IInv, TypeOK
    <2> QED BY <1>3, <2>1, FailsNat DEF Tick, ShutOut, Endless, NoKey, At
  <1>4. CASE (\E b \in Businesses : Purge(b)) \/ UNCHANGED vars
    BY <1>4, FailsNat DEF Purge, vars, ShutOut, Endless, At
  <1> QED BY <1>2, <1>3, <1>4 DEF Next

\* A counter that never expires is about to get its expiry, but for one user per
\* failure between the two calls (checkUploadRateLimit).
THEOREM CountersRunOut == Spec => []CounterRunsOut
  <1> DEFINE Inv == IsFiniteSet(ShutOut) /\ Cardinality(ShutOut) <= fails
  <1>1. Init => Inv
    <2> SUFFICES ASSUME Init PROVE ShutOut = {} /\ fails = 0
      BY FS_EmptySet
    <2> QED BY DEF Init, ShutOut, Endless, NoKey
  <1>2. IInv /\ IInv' /\ Inv /\ [Next]_vars => Inv'
    <2> SUFFICES ASSUME IInv, IInv', Inv, [Next]_vars PROVE Inv'
      OBVIOUS
    <2>1. fails \in Nat /\ fails' \in Nat
      BY MediaAssumption DEF IInv, TypeOK
    <2> QED BY <2>1, ShutOutStep, OnePerFailure
  <1>3. Inv => CounterRunsOut
    BY DEF CounterRunsOut, ShutOut
  <1> QED BY <1>1, <1>2, <1>3, SpecInv, PTL DEF Spec

----------------------------------------------------------------------------
(* The cap on the files of a business *)

CapRoom(rows, adm) == rows + adm > 0 => rows + adm < MaxFiles + Cardinality(Requests)

\* What a step does to the rows of a business and to the uploads let through.
LEMMA CapStep ==
    ASSUME IInv, [Next]_vars, NEW b \in Businesses
    PROVE  \/ RowsOf(b)' \subseteq RowsOf(b) /\ Admitted(b)' \subseteq Admitted(b)
           \/ /\ HasRoom(b) /\ RowsOf(b)' = RowsOf(b)
              /\ Admitted(b)' \subseteq Requests
           \/ /\ \E f : RowsOf(b)' \subseteq RowsOf(b) \cup {f}
              /\ \E r \in Admitted(b) : Admitted(b)' \subseteq Admitted(b) \ {r}
  <1> DEFINE Shrinks == RowsOf(b)' \subseteq RowsOf(b) /\ Admitted(b)' \subseteq Admitted(b)
  <1>1. ASSUME NEW r \in Requests, CountFiles(r)
        PROVE  \/ Shrinks
               \/ HasRoom(b) /\ RowsOf(b)' = RowsOf(b) /\ Admitted(b)' \subseteq Requests
    <2>1. RowsOf(b)' = RowsOf(b)
      BY <1>1 DEF CountFiles, RowsOf
    <2>2. CASE req[r].b = b
      BY <1>1, <2>1, <2>2 DEF CountFiles, Admitted
    <2>3. CASE req[r].b # b
      <3>1. req'[r].b = req[r].b
        BY <1>1 DEF CountFiles, IInv, TypeOK, Request
      <3> QED BY <1>1, <2>1, <2>3, <3>1, OthersStay DEF Admitted, Step
    <2> QED BY <2>2, <2>3
  <1>2. ASSUME NEW r \in Requests, SaveRow(r)
        PROVE  \/ Shrinks
               \/ /\ \E f : RowsOf(b)' \subseteq RowsOf(b) \cup {f}
                  /\ \E s \in Admitted(b) : Admitted(b)' \subseteq Admitted(b) \ {s}
    <2>1. req'[r].pc = "scan" /\ req'[r].b = req[r].b
      BY <1>2, GotoOK DEF SaveRow, AfterSave, IInv, TypeOK
    <2>2. Admitted(b)' \subseteq Admitted(b) \ {r}
      BY <1>2, <2>1, OthersStay DEF Admitted, Step
    <2>3. row' = [row EXCEPT ![req[r].f] = [biz |-> req[r].b, variants |-> VariantsOf(req[r].type)]]
      BY <1>2 DEF SaveRow
    <2>4. RowsOf(b)' \subseteq RowsOf(b) \cup {req[r].f}
      BY <2>3 DEF RowsOf, IInv, TypeOK
    <2>5. CASE req[r].b = b
      <3>1. r \in Admitted(b)
        BY <1>2, <2>5 DEF Admitted, SaveRow, At
      <3> QED BY <2>2, <2>4, <3>1
    <2>6. CASE req[r].b # b
      <3>1. RowsOf(b)' \subseteq RowsOf(b)
        BY <2>3, <2>6 DEF RowsOf, IInv, TypeOK
      <3> QED BY <2>2, <3>1
    <2> QED BY <2>5, <2>6
  <1>3. ASSUME NEW r \in Requests, Step(r), ~CountFiles(r), ~SaveRow(r)
        PROVE  Shrinks
    <2>1. row' = row
      BY <1>3 DEF Step, RateCount, RateExpire, FindBusiness, Refuse, PutBasic, PutPartly, PutBanner,
                  Conflict, QueueScan, Fail, Delete, vars
    <2>2. r \in Admitted(b)' => r \in Admitted(b)
      <3>1. CASE PutBasic(r) \/ PutBanner(r)
        <4>1. PICK pc \in {"banner", "save"} : Goto(r, pc)
          BY <3>1 DEF PutBasic, PutBanner, AfterPut
        <4>2. req'[r].b = req[r].b
          BY <4>1, GotoOK DEF IInv, TypeOK
        <4> QED BY <3>1, <4>2 DEF PutBasic, PutBanner, Admitted, At
      <3>2. CASE ~PutBasic(r) /\ ~PutBanner(r)
        <4>1. req' = req \/ req'[r].pc \notin {"put", "banner", "save"}
          <5>1. CASE Finish(r)
            BY <5>1, IdleOK DEF Finish, IInv, TypeOK
          <5>2. CASE Goto(r, "find") \/ Goto(r, "count")
            BY <5>2, GotoOK DEF IInv, TypeOK
          <5>3. ASSUME NEW u \in Users, NEW c \in Businesses, NEW type \in Types,
                       RateCount(r, u, c, type)
                PROVE  req' = req \/ req'[r].pc \notin {"put", "banner", "save"}
            BY <5>3 DEF RateCount, IInv, TypeOK
          <5> QED BY <1>3, <3>2, <5>1, <5>2, <5>3
                  DEF Step, RateExpire, FindBusiness, Refuse, PutPartly, Conflict, QueueScan, Fail,
                      Delete, vars
        <4> QED BY <4>1 DEF Admitted
      <3> QED BY <3>1, <3>2
    <2> QED BY <1>3, <2>1, <2>2, OthersStay DEF RowsOf, Admitted
  <1>4. CASE Tick \/ (\E c \in Businesses : Purge(c)) \/ UNCHANGED vars
    BY <1>4 DEF Tick, Purge, vars, RowsOf, Admitted
  <1> QED BY <1>1, <1>2, <1>3, <1>4 DEF Next

LEMMA FiniteCounts ==
    ASSUME NEW b \in Businesses
    PROVE  /\ IsFiniteSet(RowsOf(b)) /\ IsFiniteSet(Admitted(b))
           /\ Cardinality(RowsOf(b)) \in Nat /\ Cardinality(Admitted(b)) \in Nat
           /\ Cardinality(Requests) \in Nat
  <1>1. RowsOf(b) \subseteq Files /\ Admitted(b) \subseteq Requests
    BY DEF RowsOf, Admitted
  <1>2. IsFiniteSet(RowsOf(b)) /\ IsFiniteSet(Admitted(b)) /\ IsFiniteSet(Requests)
    BY <1>1, MediaAssumption, FS_Subset
  <1> QED BY <1>2, FS_CardinalityType

LEMMA CapNext ==
    ASSUME IInv, [Next]_vars, NEW b \in Businesses,
           CapRoom(Cardinality(RowsOf(b)), Cardinality(Admitted(b)))
    PROVE  CapRoom(Cardinality(RowsOf(b)'), Cardinality(Admitted(b)'))
  <1> DEFINE R == RowsOf(b)
             A == Admitted(b)
             S == RowsOf(b)'
             B == Admitted(b)'
  <1>1. /\ IsFiniteSet(R) /\ IsFiniteSet(A) /\ IsFiniteSet(Requests)
        /\ Cardinality(R) \in Nat /\ Cardinality(A) \in Nat /\ Cardinality(Requests) \in Nat
        /\ MaxFiles \in Nat
    BY FiniteCounts, MediaAssumption
  <1>2. S \subseteq Files /\ B \subseteq Requests
    BY DEF RowsOf, Admitted
  <1>3. /\ IsFiniteSet(S) /\ IsFiniteSet(B)
        /\ Cardinality(S) \in Nat /\ Cardinality(B) \in Nat
        /\ Cardinality(B) <= Cardinality(Requests)
    BY <1>2, MediaAssumption, FS_Subset, FS_CardinalityType
  <1>4. \/ S \subseteq R /\ B \subseteq A
        \/ HasRoom(b) /\ S = R
        \/ (\E f : S \subseteq R \cup {f}) /\ (\E r \in A : B \subseteq A \ {r})
    BY CapStep
  <1>5. HasRoom(b) => Cardinality(R) < MaxFiles
    BY DEF HasRoom
  <1> HIDE DEF R, A, S, B
  <1>6. CASE S \subseteq R /\ B \subseteq A
    <2>1. Cardinality(S) <= Cardinality(R) /\ Cardinality(B) <= Cardinality(A)
      BY <1>1, <1>6, FS_Subset
    <2> QED BY <1>1, <1>3, <2>1 DEF CapRoom, R, A, S, B
  <1>7. CASE HasRoom(b) /\ S = R
    BY <1>1, <1>3, <1>5, <1>7 DEF CapRoom, S, B
  <1>8. CASE (\E f : S \subseteq R \cup {f}) /\ (\E r \in A : B \subseteq A \ {r})
    <2>1. PICK f : S \subseteq R \cup {f}
      BY <1>8
    <2>2. PICK r \in A : B \subseteq A \ {r}
      BY <1>8
    <2>3. IsFiniteSet(R \cup {f})
          /\ Cardinality(R \cup {f}) = IF f \in R THEN Cardinality(R) ELSE Cardinality(R) + 1
      BY <1>1, FS_AddElement
    <2>4. IsFiniteSet(A \ {r}) /\ Cardinality(A \ {r}) = Cardinality(A) - 1
      BY <1>1, <2>2, FS_RemoveElement
    <2>5. Cardinality(S) <= Cardinality(R \cup {f}) /\ Cardinality(B) <= Cardinality(A \ {r})
      BY <2>1, <2>2, <2>3, <2>4, FS_Subset
    <2> QED BY <1>1, <1>3, <2>3, <2>4, <2>5 DEF CapRoom, R, A, S, B
  <1> QED BY <1>4, <1>6, <1>7, <1>8

\* Uploads in flight together get past the cap on a business's files, but never by
\* more than their number less one (MediaService.upload).
THEOREM CapHolds == Spec => []CapOverrunBounded
  <1> DEFINE Inv == \A b \in Businesses :
                       CapRoom(Cardinality(RowsOf(b)), Cardinality(Admitted(b)))
  <1>1. Init => Inv
    <2> SUFFICES ASSUME Init, NEW b \in Businesses PROVE RowsOf(b) = {} /\ Admitted(b) = {}
      BY FS_EmptySet DEF CapRoom
    <2>1. RowsOf(b) = {}
      BY DEF Init, RowsOf
    <2>2. Admitted(b) = {}
      BY IdleOK DEF Init, Admitted
    <2> QED BY <2>1, <2>2
  <1>2. IInv /\ Inv /\ [Next]_vars => Inv'
    BY CapNext
  <1>3. Inv => CapOverrunBounded
    BY DEF CapOverrunBounded, CapRoom
  <1> QED BY <1>1, <1>2, <1>3, SpecInv, PTL DEF Spec
=============================================================================
