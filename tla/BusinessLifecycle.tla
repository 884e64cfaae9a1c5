------------------------- MODULE BusinessLifecycle -------------------------
(***************************************************************************)
(* The life of a business listing: BusinessService                         *)
(* (businesses/business.service.ts) and the nightly purge of               *)
(* CleanupJobsService (common/jobs/cleanup.jobs.ts), over the tables       *)
(* businesses, business_cards, slug_redirects and audit_logs.              *)
(*                                                                         *)
(* A request is a process.  Between two awaited repository calls every     *)
(* other request and the purge job may run, so a handler is a chain of     *)
(* actions, one per awaited call, and what it read earlier is kept in      *)
(* req[r] exactly as the handler keeps it in its locals.                   *)
(*                                                                         *)
(* A slug is <<name, k>>: the slugified name and the numeric suffix that   *)
(* generateUniqueSlug appends (k = 0 for none).  Names with different      *)
(* slugifications are the only ones told apart.                            *)
(***************************************************************************)
EXTENDS Naturals, FiniteSets

CONSTANTS
    BizIds,         \* the business ids the database may hand out
    Owners,         \* the users that own businesses
    Names,          \* business names
    Requests,       \* requests that may be in flight together
    Kinds,          \* operations a client may start
    MaxBusinesses,  \* MAX_BUSINESSES_PER_ACCOUNT, 5 in the code
    Grace,          \* SOFT_DELETE_GRACE_DAYS, 30 in the code
    MaxSuffix,      \* bound: largest slug suffix
    MaxTime,        \* bound: last day
    RequestSpan,    \* bound: ticks a request, or a run of the job, may last
    MaxFails,       \* bound: database errors and crashes
    MaxRedirects,   \* bound: no rename is started once this many are stored
    Logged,         \* bound: the audit actions whose entries are kept
    Null            \* SQL NULL, an absent row, JavaScript undefined

AllKinds == {"create", "update", "softDelete", "restore", "approve", "flag"}

Slugs    == Names \X (0 .. MaxSuffix)
Statuses == {"pending", "active", "flagged", "suspended"}
Days     == 0 .. (MaxTime + Grace)

BizRow == [owner: Owners, slug: Slugs, status: Statuses, verified: BOOLEAN,
           deletedAt: Days \cup {Null}, permanentAt: Days \cup {Null}]

CardRow  == [slug: Slugs, published: BOOLEAN]
Redirect == [old: Slugs, new: Slugs, biz: BizIds]

AuditActions == {"created", "updated", "deleted", "approved", "flagged", "purged"}

RequestPc == {"idle", "probe", "create_save", "create_card", "update_redirect",
              "update_save", "update_select", "update_write", "update_card",
              "delete_write", "restore_write", "approve_write", "audit"}

Request == [pc: RequestPc, kind: AllKinds \cup {Null}, b: BizIds \cup {Null},
            owner: Owners \cup {Null}, slug: Slugs \cup {Null},
            row: BizRow \cup {Null}, card: CardRow \cup {Null},
            seen: BizRow \cup {Null}, seenCard: CardRow \cup {Null},
            act: AuditActions \cup {Null}, at: 0 .. MaxTime, since: 0 .. MaxTime]

ASSUME ConstantsAssumption ==
    /\ MaxBusinesses \in Nat /\ Grace \in Nat /\ MaxSuffix \in Nat
    /\ MaxTime \in Nat /\ RequestSpan \in Nat /\ MaxFails \in Nat
    /\ MaxRedirects \in Nat
    /\ Kinds \subseteq AllKinds /\ Logged \subseteq AuditActions
    /\ IsFiniteSet(BizIds)

ASSUME NullAssumption ==
    /\ Null \notin BizIds /\ Null \notin BizRow /\ Null \notin CardRow
    /\ Null \notin Slugs /\ Null \notin Nat
    /\ Null \notin AllKinds /\ Null \notin AuditActions

VARIABLES
    biz,        \* table businesses: BizIds -> row or Null
    card,       \* table business_cards, by business_id
    redirects,  \* table slug_redirects
    audit,      \* table audit_logs: <<action, resource_id>>
    fresh,      \* ids no row has used yet
    now,        \* the day
    req,        \* the requests in flight
    job,        \* the purge job
    fails,      \* database errors and crashes so far
    visit,      \* a visitor of the card pages, who only reads (module Cards)
    crossed,    \* history: ids with an UPDATE over a row that is not the one SELECTed
    reprieved   \* history: ids restored while the job had them listed

past == <<crossed, reprieved>>
db   == <<biz, card, redirects, fresh>>
vars == <<biz, card, redirects, audit, fresh, now, req, job, fails, visit, past>>

Idle    == [pc |-> "idle", kind |-> Null, b |-> Null, owner |-> Null, slug |-> Null,
            row |-> Null, card |-> Null, seen |-> Null, seenCard |-> Null,
            act |-> Null, at |-> 0, since |-> 0]
IdleJob == [pc |-> "idle", todo |-> {}, b |-> Null, since |-> 0]
Away    == [pc |-> "away", b |-> Null, slug |-> Null, seen |-> FALSE, got |-> Null]

Init ==
    /\ biz = [b \in BizIds |-> Null]
    /\ card = [b \in BizIds |-> Null]
    /\ redirects = {}
    /\ audit = {}
    /\ fresh = BizIds
    /\ now = 0
    /\ req = [r \in Requests |-> Idle]
    /\ job = IdleJob
    /\ fails = 0
    /\ visit = Away
    /\ crossed = {}
    /\ reprieved = {}

----------------------------------------------------------------------------
(* What the queries of the handlers ask of the tables. *)

Exists(b) == biz[b] # Null
Live(b)   == Exists(b) /\ biz[b].deletedAt = Null

LiveOf(o) == {b \in BizIds : Live(b) /\ biz[b].owner = o}

\* findOne({slug: candidate, deleted_at: IsNull()}) of another business
LiveElsewhere(slug, b) == \E c \in BizIds \ {b} : Live(c) /\ biz[c].slug = slug
CardElsewhere(slug, b) == \E c \in BizIds \ {b} : card[c] # Null /\ card[c].slug = slug

\* permanent_deletion_at < new Date(); false of a NULL, as in SQL and JavaScript
Overdue(b) == biz[b].permanentAt # Null /\ biz[b].permanentAt < now

\* The rows the purge selects.
Expired(b) == Exists(b) /\ biz[b].deletedAt # Null /\ Overdue(b)

----------------------------------------------------------------------------
(* Control of a request. *)

Begin(r, kind) == req[r].pc = "idle" /\ kind \in Kinds
At(r, pc)      == req[r].pc = pc

Started(kind, pc, b) ==
    [pc |-> pc, kind |-> kind, b |-> b, owner |-> Null, slug |-> Null,
     row |-> Null, card |-> Null, seen |-> Null, seenCard |-> Null,
     act |-> Null, at |-> 0, since |-> now]

Finish(r)       == req' = [req EXCEPT ![r] = Idle]
Goto(r, pc)     == req' = [req EXCEPT ![r].pc = pc]

\* Once its rows are written a handler needs no more of its locals than these.
Wrote(r, pc, slug, act) ==
    req' = [req EXCEPT ![r] = [Idle EXCEPT !.pc = pc, !.kind = req[r].kind, !.b = req[r].b,
                                           !.slug = slug, !.act = act, !.since = req[r].since]]
ToAudit(r, act)         == Wrote(r, "audit", Null, act)

----------------------------------------------------------------------------
(* BusinessService.create *)

\* The cap test of create; restore has none.
UnderCap(o) == Cardinality(LiveOf(o)) < MaxBusinesses

\* Count the live businesses of the owner; the categories are a fixed catalog.
\* A refused create changes nothing.  The ids in BizIds bound the creates.
CreateCount(r, o, n) ==
    /\ Begin(r, "create")
    /\ Cardinality({q \in Requests : req[q].kind = "create"}) < Cardinality(fresh)
    /\ UnderCap(o)
    /\ req' = [req EXCEPT ![r] = [Started("create", "probe", Null)
                                    EXCEPT !.owner = o, !.slug = <<n, 0>>]]
    /\ UNCHANGED <<db, audit, now, job, fails, visit, past>>

\* One turn of generateUniqueSlug: the candidate is taken by a live business
\* other than the excluded one, so the next suffix is tried...
ProbeTaken(r) ==
    /\ At(r, "probe")
    /\ LiveElsewhere(req[r].slug, req[r].b)
    /\ req[r].slug[2] < MaxSuffix
    /\ req' = [req EXCEPT ![r].slug = <<@[1], @[2] + 1>>]
    /\ UNCHANGED <<db, audit, now, job, fails, visit, past>>

\* ... or it is free, and the handler goes on with it; the mutation leaves no
\* redirect behind.
AfterProbeSilent(r) == IF req[r].kind = "create" THEN "create_save" ELSE "update_save"
AfterProbe(r) ==
    IF req[r].kind = "create" THEN "create_save"
    ELSE IF req[r].slug = req[r].row.slug THEN "update_save" ELSE "update_redirect"

ProbeFree(r) ==
    /\ At(r, "probe")
    /\ ~LiveElsewhere(req[r].slug, req[r].b)
    /\ Goto(r, AfterProbe(r))
    /\ UNCHANGED <<db, audit, now, job, fails, visit, past>>

\* bizRepo.save(business), which commits on a connection of its own
CreateSave(r) ==
    /\ At(r, "create_save")
    /\ ~LiveElsewhere(req[r].slug, Null)
    /\ \E b \in fresh :
         /\ fresh' = fresh \ {b}
         /\ biz' = [biz EXCEPT ![b] =
                [owner |-> req[r].owner, slug |-> req[r].slug, status |-> "pending",
                 verified |-> FALSE, deletedAt |-> Null, permanentAt |-> Null]]
         /\ req' = [req EXCEPT ![r].pc = "create_card", ![r].b = b]
    /\ UNCHANGED <<card, redirects, audit, now, job, fails, visit, past>>

\* cardRepo.save(card)
CreateCard(r) ==
    LET b == req[r].b IN
    /\ At(r, "create_card")
    /\ Exists(b) /\ ~CardElsewhere(req[r].slug, b)
    /\ card' = [card EXCEPT ![b] = [slug |-> req[r].slug, published |-> FALSE]]
    /\ ToAudit(r, "created")
    /\ UNCHANGED <<biz, redirects, audit, fresh, now, job, fails, visit, past>>

----------------------------------------------------------------------------
(* BusinessService.update *)

\* findOneForOwner: the live row with its card.  A dto without a new name goes
\* straight to the save; one with a name probes for a slug first, also when the
\* slug of the name is the one the listing has.
UpdateLoad(r, b) ==
    /\ Begin(r, "update") /\ Live(b)
    /\ \E n \in Names \cup {Null} :
         /\ n = Null \/ Cardinality(redirects) < MaxRedirects
         /\ req' = [req EXCEPT ![r] =
               [Started("update", IF n = Null THEN "update_save" ELSE "probe", b)
                  EXCEPT !.row = biz[b], !.card = card[b],
                         !.slug = IF n = Null THEN biz[b].slug ELSE <<n, 0>>]]
    /\ UNCHANGED <<db, audit, now, job, fails, visit, past>>

\* redirectRepo.save, before the categories are validated and the row is saved
UpdateRedirect(r) ==
    LET q == req[r] IN
    /\ At(r, "update_redirect")
    /\ Exists(q.b)
    /\ redirects' = redirects \cup {[old |-> q.row.slug, new |-> q.slug, biz |-> q.b]}
    /\ Goto(r, "update_save")
    /\ UNCHANGED <<biz, card, audit, fresh, now, job, fails, visit, past>>

\* Invalid categories: BadRequestException, with the redirect already stored.
UpdateReject(r) ==
    /\ At(r, "update_save")
    /\ Finish(r)
    /\ UNCHANGED <<db, audit, now, job, fails, visit, past>>

\* bizRepo.save(biz) SELECTs the stored row, to learn which columns of the loaded
\* one differ from it...
UpdateSelect(r) ==
    /\ At(r, "update_save")
    /\ req' = [req EXCEPT ![r].pc = "update_select", ![r].seen = biz[req[r].b]]
    /\ UNCHANGED <<db, audit, now, job, fails, visit, past>>

\* ... and the card, which is saved along with it (cascade: true).
UpdateSelectCard(r) ==
    /\ At(r, "update_select")
    /\ req' = [req EXCEPT ![r].pc = "update_write", ![r].seenCard = card[req[r].b]]
    /\ UNCHANGED <<db, audit, now, job, fails, visit, past>>

\* What is stored once a row was saved: INSERTed if the SELECT did not find it, else
\* UPDATEd in the columns that differed, if it is still there.
Saved(new, seen, stored) ==
    IF seen = Null THEN new
    ELSE IF stored = Null THEN Null
    ELSE [c \in DOMAIN new |-> IF new[c] = seen[c] THEN stored[c] ELSE new[c]]

SavedRow(q)  == Saved([q.row EXCEPT !.slug = q.slug], q.seen, biz[q.b])
SavedCard(q) == IF q.card = Null THEN card[q.b]
                ELSE Saved(q.card, q.seenCard, card[q.b])

\* The constraints the transaction of the save may break: an id that is taken again,
\* the slug of another live listing or of another card, a card without its listing.
\* A card made after the load is cut off from its listing, which business_id forbids.
RowRefused(q) ==
    \/ q.seen = Null /\ Exists(q.b)
    \/ SavedRow(q) # Null /\ SavedRow(q).deletedAt = Null
         /\ LiveElsewhere(SavedRow(q).slug, q.b)
CardRefused(q) ==
    \/ q.card = Null /\ q.seen # Null /\ q.seenCard # Null /\ card[q.b] # Null
    \/ q.card # Null /\ q.seenCard = Null /\ (SavedRow(q) = Null \/ card[q.b] # Null)
    \/ q.card # Null /\ SavedCard(q) # Null /\ CardElsewhere(SavedCard(q).slug, q.b)

UpdateWrite(r) ==
    LET q == req[r] IN
    /\ At(r, "update_write")
    /\ ~RowRefused(q) /\ ~CardRefused(q)
    /\ biz' = [biz EXCEPT ![q.b] = SavedRow(q)]
    /\ card' = [card EXCEPT ![q.b] = SavedCard(q)]
    /\ crossed' = IF biz[q.b] \in {q.seen, Null} THEN crossed ELSE crossed \cup {q.b}
    /\ IF q.card # Null /\ q.slug # q.card.slug
         THEN Wrote(r, "update_card", q.slug, Null)
         ELSE ToAudit(r, "updated")
    /\ UNCHANGED <<redirects, audit, fresh, now, job, fails, visit, reprieved>>

\* cardRepo.update(biz.card.id, {slug: newSlug})
UpdateCard(r) ==
    LET q == req[r] IN
    /\ At(r, "update_card")
    /\ card[q.b] # Null => ~CardElsewhere(q.slug, q.b)
    /\ card' = IF card[q.b] = Null THEN card ELSE [card EXCEPT ![q.b].slug = q.slug]
    /\ ToAudit(r, "updated")
    /\ UNCHANGED <<biz, redirects, audit, fresh, now, job, fails, visit, past>>

----------------------------------------------------------------------------
(* BusinessService.softDelete and restore *)

SoftDeleteLoad(r, b) ==
    /\ Begin(r, "softDelete") /\ Live(b)
    /\ req' = [req EXCEPT ![r] =
                 [Started("softDelete", "delete_write", b) EXCEPT !.at = now]]
    /\ UNCHANGED <<db, audit, now, job, fails, visit, past>>

\* When the grace ends; the mutation grants it twice.
GraceEndTwice(d) == d + Grace + Grace
GraceEnd(d)      == d + Grace

DeletedRow(row, d) == [row EXCEPT !.deletedAt = d, !.permanentAt = GraceEnd(d),
                                  !.status = "suspended"]

SoftDeleteWrite(r) ==
    LET q == req[r] IN
    /\ At(r, "delete_write")
    /\ biz' = IF Exists(q.b) THEN [biz EXCEPT ![q.b] = DeletedRow(@, q.at)] ELSE biz
    /\ ToAudit(r, "deleted")
    /\ UNCHANGED <<card, redirects, audit, fresh, now, job, fails, visit, past>>

\* A row the owner may still restore; the mutation forgets the grace.
RestorableAnytime(b) == Exists(b) /\ biz[b].deletedAt # Null
Restorable(b)        == Exists(b) /\ biz[b].deletedAt # Null /\ ~Overdue(b)

RestoreLoad(r, b) ==
    /\ Begin(r, "restore") /\ Restorable(b)
    /\ req' = [req EXCEPT ![r] = Started("restore", "restore_write", b)]
    /\ UNCHANGED <<db, audit, now, job, fails, visit, past>>

\* The row restore writes; the mutation puts the listing back on the air.
RestoredRowActive(row) == [row EXCEPT !.deletedAt = Null, !.permanentAt = Null,
                                      !.status = "active"]
RestoredRow(row)       == [row EXCEPT !.deletedAt = Null, !.permanentAt = Null,
                                      !.status = "pending"]

\* bizRepo.update; restore writes no audit entry
RestoreWrite(r) ==
    LET b == req[r].b IN
    /\ At(r, "restore_write")
    /\ Exists(b) => ~LiveElsewhere(biz[b].slug, b)
    /\ biz' = IF Exists(b) THEN [biz EXCEPT ![b] = RestoredRow(@)] ELSE biz
    /\ reprieved' = IF b \in job.todo /\ Exists(b) THEN reprieved \cup {b} ELSE reprieved
    /\ Finish(r)
    /\ UNCHANGED <<card, redirects, audit, fresh, now, job, fails, visit, crossed>>

----------------------------------------------------------------------------
(* BusinessService.approve and flag *)

\* findOne({where: {id}}): deleted rows too, and without the card relation, so
\* the branch of approve that publishes the card is never taken.
ApproveLoad(r, b) ==
    /\ Begin(r, "approve") /\ Exists(b)
    /\ req' = [req EXCEPT ![r] = Started("approve", "approve_write", b)]
    /\ UNCHANGED <<db, audit, now, job, fails, visit, past>>

\* The row approve writes; the mutation forgets the second column.
ApprovedRowUnverified(row) == [row EXCEPT !.status = "active"]
ApprovedRow(row)           == [row EXCEPT !.status = "active", !.verified = TRUE]

ApproveWrite(r) ==
    LET b == req[r].b IN
    /\ At(r, "approve_write")
    /\ biz' = IF Exists(b) THEN [biz EXCEPT ![b] = ApprovedRow(@)] ELSE biz
    /\ ToAudit(r, "approved")
    /\ UNCHANGED <<card, redirects, audit, fresh, now, job, fails, visit, past>>

\* flag updates whatever row has the id, if any
FlagWrite(r, b) ==
    /\ Begin(r, "flag") /\ b \notin fresh
    /\ biz' = IF Exists(b) THEN [biz EXCEPT ![b].status = "flagged"] ELSE biz
    /\ req' = [req EXCEPT ![r] = [Started("flag", "audit", b) EXCEPT !.act = "flagged"]]
    /\ UNCHANGED <<card, redirects, audit, fresh, now, job, fails, visit, past>>

----------------------------------------------------------------------------
(* The end of a request *)

\* AuditService.log: one more row in audit_logs.
Entry(act, b) == IF act \in Logged THEN audit \cup {<<act, b>>} ELSE audit

\* The reads that follow it change nothing.
AuditLog(r) ==
    /\ At(r, "audit")
    /\ audit' = Entry(req[r].act, req[r].b)
    /\ Finish(r)
    /\ UNCHANGED <<db, now, job, fails, visit, past>>

\* The next statement of the request breaks a constraint: the slug of another
\* live business, the slug of another card, a foreign key to a row that is gone.
BreaksConstraint(q) ==
    \/ q.pc = "create_save" /\ LiveElsewhere(q.slug, Null)
    \/ q.pc = "create_card" /\ (~Exists(q.b) \/ CardElsewhere(q.slug, q.b))
    \/ q.pc = "update_redirect" /\ ~Exists(q.b)
    \/ q.pc = "update_write" /\ (RowRefused(q) \/ CardRefused(q))
    \/ q.pc = "update_card" /\ card[q.b] # Null /\ CardElsewhere(q.slug, q.b)
    \/ q.pc = "restore_write" /\ Exists(q.b) /\ LiveElsewhere(biz[q.b].slug, q.b)

\* The handler throws; what it wrote before stays.
Conflict(r) ==
    /\ BreaksConstraint(req[r])
    /\ Finish(r)
    /\ UNCHANGED <<db, audit, now, job, fails, visit, past>>

\* The database refuses the awaited call, or the process dies there: the
\* statements already executed stay, those still to come are lost.
Fail(r) ==
    /\ req[r].pc # "idle" /\ fails < MaxFails
    /\ fails' = fails + 1
    /\ Finish(r)
    /\ UNCHANGED <<db, audit, now, job, visit, past>>

----------------------------------------------------------------------------
(* purgeExpiredSoftDeletedBusinesses *)

\* What the job selects; the mutation swaps the comparison.
InGraceRows == {b \in BizIds : Exists(b) /\ biz[b].deletedAt # Null /\ ~Overdue(b)}
PurgeList   == {b \in BizIds : Expired(b)}

JobStart ==
    /\ job.pc = "idle" /\ PurgeList # {}
    /\ job' = [pc |-> "delete", todo |-> PurgeList, b |-> Null, since |-> now]
    /\ UNCHANGED <<db, audit, now, req, fails, visit, past>>

\* bizRepo.delete(biz.id): by id alone, the cards and redirects go with it
JobDelete(b) ==
    /\ job.pc = "delete" /\ b \in job.todo
    /\ biz' = [biz EXCEPT ![b] = Null]
    /\ card' = [card EXCEPT ![b] = Null]
    /\ redirects' = {rd \in redirects : rd.biz # b}
    /\ job' = [job EXCEPT !.pc = "audit", !.todo = @ \ {b}, !.b = b]
    /\ UNCHANGED <<audit, fresh, now, req, fails, visit, past>>

JobAudit ==
    /\ job.pc = "audit"
    /\ audit' = Entry("purged", job.b)
    /\ job' = IF job.todo = {} THEN IdleJob ELSE [job EXCEPT !.pc = "delete", !.b = Null]
    /\ UNCHANGED <<db, now, req, fails, visit, past>>

JobFail ==
    /\ job.pc # "idle" /\ fails < MaxFails
    /\ fails' = fails + 1
    /\ job' = IdleJob
    /\ UNCHANGED <<db, audit, now, req, visit, past>>

----------------------------------------------------------------------------
\* A day passes; RequestSpan bounds how many a request or a run may last.
Tick ==
    /\ now < MaxTime
    /\ \A r \in Requests : req[r].pc # "idle" => now < req[r].since + RequestSpan
    /\ job.pc # "idle" => now < job.since + RequestSpan
    /\ now' = now + 1
    /\ UNCHANGED <<db, audit, req, job, fails, visit, past>>

Owner(r) ==
    \/ \E o \in Owners, n \in Names : CreateCount(r, o, n)
    \/ ProbeTaken(r) \/ ProbeFree(r) \/ CreateSave(r) \/ CreateCard(r)
    \/ \E b \in BizIds : UpdateLoad(r, b)
    \/ UpdateRedirect(r) \/ UpdateReject(r) \/ UpdateSelect(r)
    \/ UpdateSelectCard(r) \/ UpdateWrite(r) \/ UpdateCard(r)
    \/ \E b \in BizIds : SoftDeleteLoad(r, b) \/ RestoreLoad(r, b)
    \/ SoftDeleteWrite(r) \/ RestoreWrite(r)

Admin(r) ==
    \/ \E b \in BizIds : ApproveLoad(r, b) \/ FlagWrite(r, b)
    \/ ApproveWrite(r)

Step(r) == Owner(r) \/ Admin(r) \/ AuditLog(r) \/ Conflict(r) \/ Fail(r)

Job == JobStart \/ (\E b \in BizIds : JobDelete(b)) \/ JobAudit \/ JobFail

Next == (\E r \in Requests : Step(r)) \/ Job \/ Tick

Spec == Init /\ [][Next]_vars

\* The cron fires again and again, and node runs the job's continuations.
JobProgress == JobStart \/ (\E b \in BizIds : JobDelete(b)) \/ JobAudit
FairSpec    == Spec /\ WF_vars(JobProgress)

----------------------------------------------------------------------------
(* Properties *)

TypeOK ==
    /\ biz \in [BizIds -> BizRow \cup {Null}]
    /\ card \in [BizIds -> CardRow \cup {Null}]
    /\ redirects \subseteq Redirect
    /\ audit \subseteq AuditActions \X BizIds
    /\ fresh \subseteq BizIds
    /\ now \in 0 .. MaxTime
    /\ req \in [Requests -> Request]
    /\ job \in [pc: {"idle", "delete", "audit"}, todo: SUBSET BizIds,
                b: BizIds \cup {Null}, since: 0 .. MaxTime]
    /\ fails \in 0 .. MaxFails
    /\ crossed \subseteq BizIds /\ reprieved \subseteq BizIds

\* A listing on the air carries the verified mark: approve writes both columns, and
\* neither restore, flag, purge nor a stale save separates them, but for one: an
\* UPDATE of the columns that differed from a row which another request has changed
\* since the SELECT (approve, update).
VerifiedUnlessCrossed ==
    \A b \in BizIds : Exists(b) /\ biz[b].status = "active" => biz[b].verified \/ b \in crossed

\* As long as nothing has failed, a listing on the air has left its approval in
\* the audit log, or the approving request is about to write it (approve, audit).
Approving(b) == \E r \in Requests : req[r].b = b /\ req[r].act = "approved"
ActiveIsTraced ==
    \A b \in BizIds : Exists(b) /\ biz[b].status = "active" =>
        fails > 0 \/ <<"approved", b>> \in audit \/ Approving(b)

\* Only a business whose recovery grace has expired is deleted for good
\* (cleanup.jobs.ts: "Hard-deletes businesses whose 30-day recovery grace has
\* expired"); the purge deletes by id what it selected a while ago (purge, restore).
PurgeOnlyExpired ==
    [][\A b \in BizIds : Exists(b) /\ biz'[b] = Null => Expired(b)]_vars

\* What does hold, of requests and runs that cross the end of a grace: the purge
\* deletes a row that is not expired, and a save brings a purged row back, only if a
\* restore had written it while the job had it on its list (purge, restore, update).
ReturnsOnlyIfReprieved ==
    [][\A b \in BizIds \ fresh :
         /\ biz[b] = Null /\ biz'[b] # Null => b \in reprieved
         /\ Exists(b) /\ biz'[b] = Null => Expired(b) \/ b \in reprieved]_vars

\* A soft delete is cleared by a restore and by nothing else
\* (business.entity.ts: "cleared on restore").
DeletionClearedOnRestoreOnly ==
    [][\A b \in BizIds : Exists(b) /\ biz[b].deletedAt # Null
          /\ biz'[b] # Null /\ biz'[b].deletedAt = Null =>
             \E r \in Requests : At(r, "restore_write") /\ req[r].b = b]_vars

\* Every expired business is purged or restored in the end, also when a run of
\* the job dies half-way (purgeExpiredSoftDeletedBusinesses).
ExpiredEventuallyPurged == \A b \in BizIds : Expired(b) ~> ~Expired(b)

=============================================================================
