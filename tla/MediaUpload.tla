---------------------------- MODULE MediaUpload ----------------------------
(***************************************************************************)
(* MediaService.upload (media/media.service.ts): one request writes a      *)
(* counter in Redis, objects in the R2 bucket, a row of media_files and an *)
(* entry of the scan queue, one awaited call after the other and without a *)
(* transaction around them.  The purge of a business (BusinessLifecycle)   *)
(* takes its rows along, but not their objects.                            *)
(*                                                                         *)
(* A file is known by the uuid of its storage path.  Pixels, sizes and     *)
(* MIME types only matter in that they may be refused.                     *)
(***************************************************************************)
EXTENDS Naturals, FiniteSets

CONSTANTS
    Users,
    Businesses,
    OwnerOf,    \* businesses.owner_id
    Files,      \* bound: the files that get as far as the bucket
    Requests,   \* uploads that may be in flight together
    RateLimit,  \* UPLOAD_RATE_LIMIT, 10 in the code
    Window,     \* UPLOAD_RATE_WINDOW
    MaxFiles,   \* MAX_FILES_PER_BUSINESS, 20 in the code
    MaxCount,   \* bound: the upload counter
    MaxTime,    \* bound: last instant
    MaxFails,   \* bound: calls that fail, and crashes
    Null

Types    == {"logo", "banner", "gallery"}
Basic    == {"thumbnail", "small", "medium", "original"}
Variants == Basic \cup {"banner"}

Row     == [biz: Businesses, variants: SUBSET Variants]
Instants == 0 .. (MaxTime + Window)
Counter == [n: 0 .. MaxCount, exp: Instants \cup {Null}]
Request == [pc: {"idle", "expire", "find", "count", "put", "banner", "save", "scan"},
            u: Users \cup {Null}, b: Businesses \cup {Null},
            type: Types \cup {Null}, f: Files \cup {Null}]

ASSUME MediaAssumption ==
    /\ OwnerOf \in [Businesses -> Users]
    /\ RateLimit \in Nat \ {0} /\ Window \in Nat \ {0} /\ MaxFiles \in Nat
    /\ MaxCount \in Nat /\ MaxTime \in Nat /\ MaxFails \in Nat
    /\ IsFiniteSet(Files) /\ IsFiniteSet(Requests)
    /\ Null \notin Users \cup Businesses \cup Files \cup Types \cup Row \cup Nat

VARIABLES
    biz,      \* the businesses that still have a row, deleted softly or not
    row,      \* table media_files: Files -> Row or Null
    objects,  \* the objects in the bucket, by file
    queue,    \* queue:malware_scan
    rate,     \* upload_rate:<user>
    fresh,    \* files nobody has named yet
    now,
    req,
    fails

vars == <<biz, row, objects, queue, rate, fresh, now, req, fails>>

Idle  == [pc |-> "idle", u |-> Null, b |-> Null, type |-> Null, f |-> Null]
NoKey == [n |-> 0, exp |-> Null]

Init ==
    /\ biz = Businesses
    /\ row = [f \in Files |-> Null]
    /\ objects = [f \in Files |-> {}]
    /\ queue = {}
    /\ rate = [u \in Users |-> NoKey]
    /\ fresh = Files
    /\ now = 0
    /\ req = [r \in Requests |-> Idle]
    /\ fails = 0

At(r, pc)   == req[r].pc = pc
Goto(r, pc) == req' = [req EXCEPT ![r].pc = pc]
Finish(r)   == req' = [req EXCEPT ![r] = Idle]

RowsOf(b) == {f \in Files : row[f] # Null /\ row[f].biz = b}
Busy      == {r \in Requests : ~At(r, "idle")}

----------------------------------------------------------------------------
(* MediaService.upload *)

\* Whether the counter needs its expiry set; the mutation counts from zero.
FirstOfWindowOffByOne(n) == n = 0
FirstOfWindow(n)         == n = 1

\* INCR, and what checkUploadRateLimit makes of the number it returns.  No more
\* uploads start than there are files left for them, which is a bound.
RateCount(r, u, b, type) ==
    LET n == rate[u].n + 1 IN
    /\ At(r, "idle") /\ Cardinality(Busy) < Cardinality(fresh) /\ n <= MaxCount
    /\ rate' = [rate EXCEPT ![u].n = n]
    /\ req' = IF FirstOfWindow(n) \/ n <= RateLimit
                THEN [req EXCEPT ![r] = [pc |-> IF FirstOfWindow(n) THEN "expire" ELSE "find",
                                         u |-> u, b |-> b, type |-> type, f |-> Null]]
                ELSE req
    /\ UNCHANGED <<biz, row, objects, queue, fresh, now, fails>>

RateExpire(r) ==
    /\ At(r, "expire")
    /\ rate' = [rate EXCEPT ![req[r].u] = IF @.n = 0 THEN @ ELSE [@ EXCEPT !.exp = now + Window]]
    /\ Goto(r, "find")
    /\ UNCHANGED <<biz, row, objects, queue, fresh, now, fails>>

\* findOne({id, owner_id}), which finds softly deleted businesses too
FindBusiness(r) ==
    /\ At(r, "find")
    /\ IF req[r].b \in biz /\ OwnerOf[req[r].b] = req[r].u THEN Goto(r, "count") ELSE Finish(r)
    /\ UNCHANGED <<biz, row, objects, queue, rate, fresh, now, fails>>

\* The cap test of upload, and the mutation that lets one more through.
HasRoomOffByOne(b) == Cardinality(RowsOf(b)) <= MaxFiles
HasRoom(b)         == Cardinality(RowsOf(b)) < MaxFiles

\* The count; what follows it up to the uploads reads only the file, and names it.
CountFiles(r) ==
    /\ At(r, "count") /\ HasRoom(req[r].b)
    /\ \E f \in fresh :
         /\ req' = [req EXCEPT ![r].pc = "put", ![r].f = f]
         /\ fresh' = fresh \ {f}
    /\ UNCHANGED <<biz, row, objects, queue, rate, now, fails>>

\* The cap is reached, or size, magic bytes or Sharp refuse the file.
Refuse(r) ==
    /\ At(r, "count")
    /\ Finish(r)
    /\ UNCHANGED <<biz, row, objects, queue, rate, fresh, now, fails>>

\* What follows the four uploads; the mutation forgets the banner.
AfterPutPlain(type) == "save"
AfterPut(type)      == IF type = "banner" THEN "banner" ELSE "save"

PutBasic(r) ==
    /\ At(r, "put")
    /\ objects' = [objects EXCEPT ![req[r].f] = Basic]
    /\ Goto(r, AfterPut(req[r].type))
    /\ UNCHANGED <<biz, row, queue, rate, fresh, now, fails>>

\* One upload fails and rejects the Promise.all; any of the others gets through.
PutPartly(r) ==
    /\ At(r, "put") /\ fails < MaxFails
    /\ fails' = fails + 1
    /\ \E some \in SUBSET Basic \ {Basic} : objects' = [objects EXCEPT ![req[r].f] = some]
    /\ Finish(r)
    /\ UNCHANGED <<biz, row, queue, rate, fresh, now>>

PutBanner(r) ==
    /\ At(r, "banner")
    /\ objects' = [objects EXCEPT ![req[r].f] = @ \cup {"banner"}]
    /\ Goto(r, "save")
    /\ UNCHANGED <<biz, row, queue, rate, fresh, now, fails>>

\* What media_files.variants names; the mutation gives one a name of its own.
VariantsOfLarge(type) == {"thumbnail", "small", "large", "original"}
VariantsOf(type)      == IF type = "banner" THEN Variants ELSE Basic

\* What mediaRepo.save needs, the foreign key; the mutation tests the cap again.
MayInsertCapped(b) == b \in biz /\ HasRoom(b)
MayInsert(b)       == b \in biz

\* What follows the insert; the mutation queues nothing.
AfterSaveSilent == "idle"
AfterSave       == "scan"

SaveRow(r) ==
    LET q == req[r] IN
    /\ At(r, "save") /\ MayInsert(q.b)
    /\ row' = [row EXCEPT ![q.f] = [biz |-> q.b, variants |-> VariantsOf(q.type)]]
    /\ Goto(r, AfterSave)
    /\ UNCHANGED <<biz, objects, queue, rate, fresh, now, fails>>

\* The business was purged meanwhile: the insert is refused, the objects stay.
Conflict(r) ==
    /\ At(r, "save") /\ ~MayInsert(req[r].b)
    /\ Finish(r)
    /\ UNCHANGED <<biz, row, objects, queue, rate, fresh, now, fails>>

QueueScan(r) ==
    /\ At(r, "scan")
    /\ queue' = queue \cup {req[r].f}
    /\ Finish(r)
    /\ UNCHANGED <<biz, row, objects, rate, fresh, now, fails>>

\* A call fails, or the process dies there.
Fail(r) ==
    /\ ~At(r, "idle") /\ fails < MaxFails
    /\ fails' = fails + 1
    /\ Finish(r)
    /\ UNCHANGED <<biz, row, objects, queue, rate, fresh, now>>

----------------------------------------------------------------------------
\* MediaService.delete throws whatever it is asked for: without the row a
\* ForbiddenException, and with it a TypeError before anything is deleted, since
\* storage_key is not selected by default (media-file.entity.ts) and the handler
\* reads it all the same.
Delete(r) == At(r, "idle") /\ UNCHANGED vars

\* The purge of a business: ON DELETE CASCADE takes the rows, nobody the objects.
Purge(b) ==
    /\ b \in biz
    /\ biz' = biz \ {b}
    /\ row' = [f \in Files |-> IF f \in RowsOf(b) THEN Null ELSE row[f]]
    /\ UNCHANGED <<objects, queue, rate, fresh, now, req, fails>>

\* Time passes, and Redis drops the counters whose time has come.
Tick ==
    /\ now < MaxTime
    /\ now' = now + 1
    /\ rate' = [u \in Users |-> IF rate[u].exp = now' THEN NoKey ELSE rate[u]]
    /\ UNCHANGED <<biz, row, objects, queue, fresh, req, fails>>

Step(r) ==
    \/ \E u \in Users, b \in Businesses, type \in Types : RateCount(r, u, b, type)
    \/ RateExpire(r) \/ FindBusiness(r) \/ CountFiles(r) \/ Refuse(r)
    \/ PutBasic(r) \/ PutPartly(r) \/ PutBanner(r)
    \/ SaveRow(r) \/ Conflict(r) \/ QueueScan(r) \/ Fail(r)
    \/ Delete(r)

Next == (\E r \in Requests : Step(r)) \/ (\E b \in Businesses : Purge(b)) \/ Tick
Spec == Init /\ [][Next]_vars

----------------------------------------------------------------------------
(* Properties *)

TypeOK ==
    /\ biz \subseteq Businesses
    /\ row \in [Files -> Row \cup {Null}]
    /\ objects \in [Files -> SUBSET Variants]
    /\ queue \subseteq Files
    /\ rate \in [Users -> Counter]
    /\ fresh \subseteq Files
    /\ now \in 0 .. MaxTime
    /\ req \in [Requests -> Request]
    /\ fails \in 0 .. MaxFails

\* The file cap of a business is counted long before the row is inserted.
\* Uploads in flight together get past it, but never by more than their number
\* less one, however they overlap (upload).
Admitted(b) == {r \in Requests : req[r].b = b /\ req[r].pc \in {"put", "banner", "save"}}
CapOverrunBounded ==
    \A b \in Businesses :
        LET n == Cardinality(RowsOf(b)) + Cardinality(Admitted(b)) IN
        n > 0 => n < MaxFiles + Cardinality(Requests)

\* A row never names a variant that is not in the bucket: everything a page may
\* link to was stored before (upload).
VariantsStored == \A f \in Files : row[f] # Null => row[f].variants \subseteq objects[f]

\* Every file is in the scan queue, or its upload is about to put it there
\* ("queued for async ClamAV scan", upload); a failure loses one file at most.
Unqueued == {f \in Files : row[f] # Null /\ f \notin queue}
StoredIsQueued ==
    Cardinality({f \in Unqueued : \A r \in Requests : ~(At(r, "scan") /\ req[r].f = f)}) <= fails

\* A refused upload leaves no object behind (upload).  While no business is
\* purged, the objects no row names belong to uploads under way, but for one file
\* per failure.
Orphans == {f \in Files : row[f] = Null /\ objects[f] # {}}
OrphansExplained ==
    biz = Businesses =>
        Cardinality({f \in Orphans : \A r \in Requests : req[r].f # f}) <= fails

\* A counter without an expiry shuts its user out for good once it reaches the
\* limit.  It is about to get one, but for one user per failure between the two
\* calls (checkUploadRateLimit).
Endless == {u \in Users : rate[u].n > 0 /\ rate[u].exp = Null}
CounterRunsOut ==
    Cardinality({u \in Endless : \A r \in Requests : ~(At(r, "expire") /\ req[r].u = u)}) <= fails
=============================================================================
