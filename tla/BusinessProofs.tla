--------------------------- MODULE BusinessProofs ---------------------------
(***************************************************************************)
(* What TLAPS proves about BusinessLifecycle, its refinement of Listing    *)
(* and the visitor of Cards, for any number of listings, owners, names,    *)
(* failures and days.                                                      *)
(*                                                                         *)
(* For any number of requests in flight: TypeOK, VerifiedUnlessCrossed and *)
(* ActiveIsTraced.  None is inductive by itself.  A request writes what it *)
(* kept in its locals, so the invariant also says what those hold at each  *)
(* program counter (LocalsOK), that a row which was loaded is as truthful  *)
(* as a stored one (HeldRows, HeldRowsTraced), and that an UPDATE of some  *)
(* columns writes a whole row unless it is counted as crossed.             *)
(*                                                                         *)
(* For any number of requests, two of which in a row are over before the   *)
(* grace of a deletion is (Short): ReturnsOnlyIfReprieved and              *)
(* ClearedByRestoreOrEarly, from DayInv, which dates the rows that the     *)
(* requests hold and keeps them apart from the rows the job has listed.    *)
(*                                                                         *)
(* For one request at a time (Alone) that ends on the day it began         *)
(* (RequestSpan = 0): the refinement of Listing and the two properties of  *)
(* the visitor, from AloneInv, what the request loaded is what is stored,  *)
(* and VisitInv, what an address is worth.  The runs that expect a         *)
(* violation show that the hypotheses are not idle.                        *)
(***************************************************************************)
EXTENDS Cards, TLAPS

SlugPcs == {"probe", "create_save", "create_card", "update_redirect",
            "update_save", "update_select", "update_write", "update_card"}
UpdatePcs == {"update_redirect", "update_save", "update_select", "update_write"}
BizPcs  == UpdatePcs \cup {"create_card", "update_card", "delete_write", "restore_write",
                           "approve_write", "audit"}

\* An update that has loaded its row and has not written it yet.
Updating(q) == q.pc \in UpdatePcs \/ (q.pc = "probe" /\ q.kind = "update")

\* What the locals of a request hold at each of its awaits.
LocalsOf(q) ==
    /\ q.pc \in SlugPcs => q.slug \in Slugs
    /\ q.pc \in BizPcs => q.b \in BizIds
    /\ q.pc = "probe" => q.kind \in {"create", "update"}
    /\ q.pc = "create_save" => q.kind = "create"
    /\ q.pc \in UpdatePcs => q.kind = "update"
    /\ q.pc = "probe" /\ q.kind = "create" => q.owner \in Owners
    /\ q.pc = "create_save" => q.owner \in Owners
    /\ Updating(q) => q.b \in BizIds /\ q.row \in BizRow
    /\ q.pc = "audit" => q.act \in AuditActions
    /\ q.row # Null => Updating(q)
    /\ q.act # Null => q.pc = "audit"

LocalsOK ==
    /\ \A r \in Requests : LocalsOf(req[r])
    /\ job.pc = "audit" => job.b \in BizIds

\* A row is truthful when it is verified if it is active.
Truthful(row) == row.status = "active" => row.verified

HeldRowsVerified ==
    \A r \in Requests : req[r].row # Null => Truthful(req[r].row) \/ req[r].b \in crossed

\* An approval has left, or is about to leave, its trace, or something failed.
Traced(b) == fails > 0 \/ <<"approved", b>> \in audit \/ Approving(b)

HeldRowsTraced ==
    \A r \in Requests : req[r].row # Null /\ req[r].row.status = "active" => Traced(req[r].b)

IInv == TypeOK /\ LocalsOK

VerifiedInv == VerifiedUnlessCrossed /\ HeldRowsVerified

TracedInv ==
    /\ \A b \in BizIds : Exists(b) /\ biz[b].status = "active" => Traced(b)
    /\ HeldRowsTraced

----------------------------------------------------------------------------
(* Facts about the operators *)

LEMMA IdleOK == Idle \in Request /\ LocalsOf(Idle)
  BY ConstantsAssumption, NullAssumption
  DEF Idle, AllKinds, Request, RequestPc, LocalsOf, Updating, SlugPcs, BizPcs, UpdatePcs

\* The rows the handlers write are rows of the table.
LEMMA DaysOK == ASSUME NEW d \in 0 .. MaxTime PROVE d \in Days /\ GraceEnd(d) \in Days
  BY ConstantsAssumption DEF Days, GraceEnd

LEMMA DeletedRowOK ==
  ASSUME NEW row \in BizRow, NEW d \in 0 .. MaxTime
  PROVE  DeletedRow(row, d) \in BizRow
<1>1. d \in Days /\ GraceEnd(d) \in Days
  BY DaysOK
<1>2. QED
  BY <1>1 DEF BizRow, DeletedRow, Statuses

LEMMA RestoredRowOK ==
  ASSUME NEW row \in BizRow PROVE RestoredRow(row) \in BizRow
  BY DEF BizRow, RestoredRow, Statuses

LEMMA ApprovedRowOK ==
  ASSUME NEW row \in BizRow PROVE ApprovedRow(row) \in BizRow
  BY DEF BizRow, ApprovedRow, Statuses

LEMMA FlaggedRowOK ==
  ASSUME NEW row \in BizRow PROVE [row EXCEPT !.status = "flagged"] \in BizRow
  BY DEF BizRow, Statuses

\* What a save leaves is of the table, column by column.
LEMMA SavedIsRow ==
  ASSUME NEW n \in BizRow, NEW s \in BizRow \cup {Null}, NEW o \in BizRow \cup {Null}
  PROVE  Saved(n, s, o) \in BizRow \cup {Null}
  BY DEF Saved, BizRow

LEMMA SavedIsCard ==
  ASSUME NEW n \in CardRow, NEW s \in CardRow \cup {Null}, NEW o \in CardRow \cup {Null}
  PROVE  Saved(n, s, o) \in CardRow \cup {Null}
  BY DEF Saved, CardRow

\* Each column of the row an UPDATE leaves is the one of the loaded row, or the one stored.
LEMMA SavedColumns ==
  ASSUME NEW q \in Request, q.row \in BizRow, q.slug \in Slugs,
         biz[q.b] \in BizRow, q.seen # Null
  PROVE  LET w == SavedRow(q) IN
         /\ w \in BizRow
         /\ w.status \in {q.row.status, biz[q.b].status}
         /\ w.deletedAt = IF q.row.deletedAt = q.seen.deletedAt
                            THEN biz[q.b].deletedAt ELSE q.row.deletedAt
         /\ w.permanentAt = IF q.row.permanentAt = q.seen.permanentAt
                              THEN biz[q.b].permanentAt ELSE q.row.permanentAt
<1> DEFINE n == [q.row EXCEPT !.slug = q.slug]
<1>1. /\ n \in BizRow /\ n.status = q.row.status /\ n.deletedAt = q.row.deletedAt
      /\ n.permanentAt = q.row.permanentAt
  BY DEF BizRow
<1>2. q.seen \in BizRow /\ biz[q.b] # Null
  BY NullAssumption DEF Request
<1>3. SavedRow(q) = [c \in DOMAIN n |-> IF n[c] = q.seen[c] THEN biz[q.b][c] ELSE n[c]]
  BY <1>2 DEF SavedRow, Saved
<1> HIDE DEF n
<1>4. QED
  BY <1>1, <1>2, <1>3 DEF BizRow

\* An UPDATE of a row that is still the one SELECTed, and an INSERT, store the loaded row.
LEMMA SavedWhole ==
  ASSUME NEW q, q.row \in BizRow, q.slug \in Slugs, q.seen = Null \/ q.seen = biz[q.b]
  PROVE  SavedRow(q) = [q.row EXCEPT !.slug = q.slug]
<1> DEFINE n == [q.row EXCEPT !.slug = q.slug]
<1>1. n \in BizRow
  BY DEF BizRow
<1> HIDE DEF n
<1>2. Saved(n, q.seen, biz[q.b]) = n
  BY <1>1 DEF Saved, BizRow
<1>3. QED
  BY <1>2 DEF SavedRow, n

LEMMA SavedRowOK ==
  ASSUME IInv, NEW q \in Request, q.b \in BizIds, q.row \in BizRow, q.slug \in Slugs
  PROVE  /\ SavedRow(q) \in BizRow \cup {Null}
         /\ SavedCard(q) \in CardRow \cup {Null}
<1>1. /\ biz[q.b] \in BizRow \cup {Null} /\ card[q.b] \in CardRow \cup {Null}
      /\ q.seen \in BizRow \cup {Null} /\ q.seenCard \in CardRow \cup {Null}
      /\ q.card \in CardRow \cup {Null}
  BY DEF IInv, TypeOK, Request
<1>2. [q.row EXCEPT !.slug = q.slug] \in BizRow
  BY DEF BizRow
<1>3. SavedRow(q) \in BizRow \cup {Null}
  BY <1>1, <1>2, SavedIsRow DEF SavedRow
<1>4. SavedCard(q) \in CardRow \cup {Null}
  BY <1>1, SavedIsCard DEF SavedCard
<1>5. QED
  BY <1>3, <1>4

\* A request that learns of rows and cards is still a request.
LEMMA RowsKnown ==
  ASSUME NEW q \in Request, NEW x \in BizRow \cup {Null}, NEW c \in CardRow \cup {Null}
  PROVE  /\ [q EXCEPT !.row = x, !.card = c] \in Request
         /\ [q EXCEPT !.seen = x, !.seenCard = c] \in Request
<1> DEFINE R == BizRow \cup {Null}
           C == CardRow \cup {Null}
           S == Slugs \cup {Null}
<1>1. /\ x \in R /\ c \in C
      /\ Request = [pc: RequestPc, kind: AllKinds \cup {Null}, b: BizIds \cup {Null},
                     owner: Owners \cup {Null}, slug: S, row: R, card: C,
                     seen: R, seenCard: C, act: AuditActions \cup {Null},
                     at: 0 .. MaxTime, since: 0 .. MaxTime]
  BY DEF Request
<1> HIDE DEF R, C, S
<1>2. QED
  BY <1>1

\* A request whose locals are in order stays a request when a handler moves on.
LEMMA MovesOn ==
  ASSUME NEW q \in Request, NEW pc \in RequestPc
  PROVE  [q EXCEPT !.pc = pc] \in Request
  BY DEF Request

\* One request moves on, the others stay as they are.
LEMMA OneMoves ==
  ASSUME req \in [Requests -> Request], \A s \in Requests : LocalsOf(req[s]),
         NEW r \in Requests, NEW p \in Request, LocalsOf(p),
         NEW f, f = [req EXCEPT ![r] = p]
  PROVE  f \in [Requests -> Request] /\ \A s \in Requests : LocalsOf(f[s])
  OBVIOUS

LEMMA StartedOK ==
  ASSUME now \in 0 .. MaxTime, NEW kind \in AllKinds, NEW pc \in RequestPc,
         NEW b \in BizIds \cup {Null}, NEW q, q = Started(kind, pc, b)
  PROVE  /\ q \in Request
         /\ q.kind = kind /\ q.pc = pc /\ q.b = b /\ q.owner = Null /\ q.slug = Null
         /\ q.row = Null /\ q.card = Null /\ q.act = Null
         /\ q.seen = Null /\ q.seenCard = Null
  BY ConstantsAssumption DEF Started, Request

LEMMA FinishOK ==
  ASSUME req \in [Requests -> Request], \A s \in Requests : LocalsOf(req[s]),
         NEW r \in Requests, Finish(r)
  PROVE  req' \in [Requests -> Request] /\ \A s \in Requests : LocalsOf(req'[s])
  BY IdleOK, OneMoves DEF Finish

\* A handler that has written its rows holds no row any more.
LEMMA WroteNext ==
  ASSUME req \in [Requests -> Request], \A s \in Requests : LocalsOf(req[s]),
         NEW r \in Requests, NEW pc \in {"audit", "update_card"},
         NEW slug \in Slugs \cup {Null}, NEW act \in AuditActions \cup {Null},
         req[r].b \in BizIds, pc = "audit" => act # Null,
         pc = "update_card" => slug # Null /\ act = Null, Wrote(r, pc, slug, act)
  PROVE  /\ req' \in [Requests -> Request] /\ \A s \in Requests : LocalsOf(req'[s])
         /\ req'[r].pc = pc /\ req'[r].b = req[r].b /\ req'[r].act = act
         /\ req'[r].slug = slug /\ req'[r].row = Null /\ req'[r].kind = req[r].kind
         /\ req'[r].since = req[r].since
         /\ \A s \in Requests \ {r} : req'[s] = req[s]
<1>1. PICK p : p = [Idle EXCEPT !.pc = pc, !.kind = req[r].kind, !.b = req[r].b,
                                !.slug = slug, !.act = act, !.since = req[r].since]
  OBVIOUS
<1>2. req' = [req EXCEPT ![r] = p] /\ req[r] \in Request
  BY <1>1 DEF Wrote
<1>3. /\ req[r].kind \in AllKinds \cup {Null} /\ req[r].since \in 0 .. MaxTime
      /\ pc \in RequestPc /\ 0 \in 0 .. MaxTime
  BY <1>2, ConstantsAssumption DEF Request, RequestPc
<1>4. p \in Request
  BY <1>1, <1>3 DEF Request, Idle
<1>5. /\ p.pc = pc /\ p.act = act /\ p.slug = slug /\ p.since = req[r].since
      /\ p.kind = req[r].kind /\ p.b = req[r].b /\ p.row = Null
  BY <1>1 DEF Idle
<1>6. LocalsOf(p)
  BY <1>5 DEF LocalsOf, Updating, SlugPcs, BizPcs, UpdatePcs
<1>7. req' \in [Requests -> Request] /\ \A s \in Requests : LocalsOf(req'[s])
  BY <1>2, <1>4, <1>6, OneMoves
<1>8. QED
  BY <1>2, <1>5, <1>7

LEMMA AuditNext ==
  ASSUME req \in [Requests -> Request], \A s \in Requests : LocalsOf(req[s]),
         NEW r \in Requests, NEW act \in AuditActions, req[r].b \in BizIds,
         ToAudit(r, act)
  PROVE  /\ req' \in [Requests -> Request] /\ \A s \in Requests : LocalsOf(req'[s])
         /\ req'[r].pc = "audit" /\ req'[r].b = req[r].b /\ req'[r].act = act
         /\ req'[r].row = Null /\ req'[r].since = req[r].since
         /\ \A s \in Requests \ {r} : req'[s] = req[s]
<1>1. act # Null
  BY NullAssumption
<1>2. QED
  BY <1>1, WroteNext DEF ToAudit

----------------------------------------------------------------------------
(* Each step keeps the types and the locals. *)

LEMMA CreateKeepsTypes ==
  ASSUME IInv, NEW r \in Requests,
         \/ \E o \in Owners, n \in Names : CreateCount(r, o, n)
         \/ CreateSave(r)
         \/ CreateCard(r)
  PROVE  IInv'
<1> USE DEF IInv, LocalsOK
<1>1. CASE \E o \in Owners, n \in Names : CreateCount(r, o, n)
  <2>1. PICK o \in Owners, n \in Names : CreateCount(r, o, n)
    BY <1>1
  <2> DEFINE q == Started("create", "probe", Null)
             p == [q EXCEPT !.owner = o, !.slug = <<n, 0>>]
  <2>2. <<n, 0>> \in Slugs
    BY ConstantsAssumption DEF Slugs
  <2>3. now \in 0 .. MaxTime
    BY DEF TypeOK
  <2>4. /\ q \in Request
        /\ q.kind = "create" /\ q.pc = "probe" /\ q.b = Null /\ q.owner = Null
        /\ q.row = Null /\ q.act = Null
    BY <2>3, StartedOK DEF AllKinds, RequestPc
  <2>5. p \in Request /\ LocalsOf(p)
    <3> HIDE DEF q
    <3>1. /\ p.kind = "create" /\ p.pc = "probe" /\ p.b = Null /\ p.owner = o
          /\ p.row = Null /\ p.act = Null /\ p.slug = <<n, 0>>
      BY <2>4 DEF Request
    <3>2. p \in Request
      BY <2>2, <2>4 DEF Request
    <3> HIDE DEF p
    <3>3. LocalsOf(p)
      BY <2>2, <3>1, NullAssumption DEF LocalsOf, Updating, SlugPcs, BizPcs, UpdatePcs
    <3>4. QED
      BY <3>2, <3>3
  <2>6. req' = [req EXCEPT ![r] = p] /\ UNCHANGED <<db, past, audit, now, job, fails>>
    BY <2>1 DEF CreateCount
  <2> HIDE DEF p
  <2>7. req' \in [Requests -> Request] /\ \A s \in Requests : LocalsOf(req'[s])
    BY <2>5, <2>6, OneMoves DEF TypeOK
  <2>8. QED
    BY <2>6, <2>7 DEF TypeOK, db, past
<1>2. CASE CreateSave(r)
  <2>1. PICK b \in fresh :
          /\ fresh' = fresh \ {b}
          /\ biz' = [biz EXCEPT ![b] =
                [owner |-> req[r].owner, slug |-> req[r].slug, status |-> "pending",
                 verified |-> FALSE, deletedAt |-> Null, permanentAt |-> Null]]
          /\ req' = [req EXCEPT ![r].pc = "create_card", ![r].b = b]
    BY <1>2 DEF CreateSave
  <2> DEFINE p == [req[r] EXCEPT !.pc = "create_card", !.b = b]
             row == [owner |-> req[r].owner, slug |-> req[r].slug, status |-> "pending",
                 verified |-> FALSE, deletedAt |-> Null, permanentAt |-> Null]
  <2>2. req[r] \in Request /\ LocalsOf(req[r]) /\ req[r].pc = "create_save"
    BY <1>2 DEF TypeOK, CreateSave, At
  <2>3. b \in BizIds
    BY DEF TypeOK
  <2>4. row \in BizRow
    BY <2>2 DEF LocalsOf, SlugPcs, BizRow, Statuses
  <2>5. p \in Request
    BY <2>2, <2>3 DEF Request, RequestPc
  <2>6. /\ p.pc = "create_card" /\ p.b = b /\ p.kind = req[r].kind /\ p.act = req[r].act
        /\ p.owner = req[r].owner /\ p.slug = req[r].slug /\ p.row = req[r].row
    BY <2>2 DEF Request
  <2>7. req[r].kind = "create" /\ req[r].act = Null
    BY <2>2 DEF LocalsOf
  <2>8. LocalsOf(p)
    BY <2>2, <2>3, <2>6, <2>7 DEF LocalsOf, Updating, SlugPcs, BizPcs, UpdatePcs
  <2>9. req' = [req EXCEPT ![r] = p] /\ biz' = [biz EXCEPT ![b] = row]
    BY <2>1
  <2> HIDE DEF p, row
  <2>10. req' \in [Requests -> Request] /\ \A s \in Requests : LocalsOf(req'[s])
    BY <2>5, <2>8, <2>9, OneMoves DEF TypeOK
  <2>11. biz' \in [BizIds -> BizRow \cup {Null}]
    BY <2>3, <2>4, <2>9 DEF TypeOK
  <2>12. fresh' \subseteq BizIds
    BY <2>1 DEF TypeOK
  <2>13. UNCHANGED <<card, redirects, audit, now, job, fails, past>>
    BY <1>2 DEF CreateSave
  <2>14. QED
    BY <2>10, <2>11, <2>12, <2>13 DEF TypeOK, past
<1>3. CASE CreateCard(r)
  <2>1. req[r].b \in BizIds /\ req[r].slug \in Slugs
    BY <1>3 DEF CreateCard, At, LocalsOf, BizPcs, SlugPcs
  <2>2. card' \in [BizIds -> CardRow \cup {Null}]
    BY <1>3, <2>1 DEF CreateCard, TypeOK, CardRow
  <2>3. req' \in [Requests -> Request] /\ \A s \in Requests : LocalsOf(req'[s])
    BY <1>3, <2>1, AuditNext DEF CreateCard, AuditActions, TypeOK
  <2>4. QED
    BY <1>3, <2>2, <2>3 DEF CreateCard, TypeOK, past
<1>4. QED
  BY <1>1, <1>2, <1>3

LEMMA ProbeKeepsTypes ==
  ASSUME IInv, NEW r \in Requests, ProbeTaken(r) \/ ProbeFree(r)
  PROVE  IInv'
<1> USE DEF IInv, LocalsOK
<1> DEFINE q == req[r]
<1>1. q \in Request /\ LocalsOf(q) /\ q.pc = "probe" /\ q.slug \in Slugs /\ q.act = Null
      /\ q.kind \in {"create", "update"}
  BY DEF TypeOK, ProbeTaken, ProbeFree, At, LocalsOf, SlugPcs
<1>2. CASE ProbeTaken(r)
  <2> DEFINE s2 == <<q.slug[1], q.slug[2] + 1>>
             p  == [q EXCEPT !.slug = s2]
  <2>1. s2 \in Slugs
    BY <1>1, <1>2, ConstantsAssumption DEF ProbeTaken, Slugs
  <2>2. req' = [req EXCEPT ![r] = p]
    BY <1>2 DEF ProbeTaken
  <2> HIDE DEF s2
  <2>3. p \in Request
    BY <1>1, <2>1 DEF Request
  <2>4. /\ p.slug = s2 /\ p.pc = q.pc /\ p.b = q.b /\ p.kind = q.kind /\ p.act = q.act
        /\ p.owner = q.owner /\ p.row = q.row
    BY <1>1 DEF Request
  <2>5. LocalsOf(p)
    BY <1>1, <2>1, <2>4 DEF LocalsOf, Updating, SlugPcs, BizPcs, UpdatePcs
  <2> HIDE DEF p, q
  <2>6. req' \in [Requests -> Request] /\ \A s \in Requests : LocalsOf(req'[s])
    BY <2>2, <2>3, <2>5, OneMoves DEF TypeOK
  <2>7. QED
    BY <1>2, <2>6 DEF ProbeTaken, TypeOK, db, past
<1>3. CASE ProbeFree(r)
  <2> DEFINE pc == AfterProbe(r)
             p  == [q EXCEPT !.pc = pc]
  <2>1. /\ pc \in {"create_save", "update_save", "update_redirect"}
        /\ pc = "create_save" => q.kind = "create"
        /\ pc \in UpdatePcs => q.kind = "update"
    BY <1>1 DEF AfterProbe, UpdatePcs
  <2>2. req' = [req EXCEPT ![r] = p]
    BY <1>3 DEF ProbeFree, Goto
  <2> HIDE DEF pc
  <2>3. p \in Request
    BY <1>1, <2>1 DEF Request, RequestPc
  <2>4. /\ p.pc = pc /\ p.slug = q.slug /\ p.b = q.b /\ p.kind = q.kind /\ p.act = q.act
        /\ p.owner = q.owner /\ p.row = q.row
    BY <1>1 DEF Request
  <2>5. LocalsOf(p)
    BY <1>1, <2>1, <2>4 DEF LocalsOf, Updating, SlugPcs, BizPcs, UpdatePcs
  <2> HIDE DEF p, q
  <2>6. req' \in [Requests -> Request] /\ \A s \in Requests : LocalsOf(req'[s])
    BY <2>2, <2>3, <2>5, OneMoves DEF TypeOK
  <2>7. QED
    BY <1>3, <2>6 DEF ProbeFree, TypeOK, db, past
<1>4. QED
  BY <1>2, <1>3

LEMMA UpdateLoadKeepsTypes ==
  ASSUME IInv, NEW r \in Requests, NEW b \in BizIds, UpdateLoad(r, b)
  PROVE  IInv'
<1> USE DEF IInv, LocalsOK
<1>1. PICK n \in Names \cup {Null} :
         req' = [req EXCEPT ![r] =
               [Started("update", IF n = Null THEN "update_save" ELSE "probe", b)
                  EXCEPT !.row = biz[b], !.card = card[b],
                         !.slug = IF n = Null THEN biz[b].slug ELSE <<n, 0>>]]
  BY DEF UpdateLoad
<1> DEFINE pc == IF n = Null THEN "update_save" ELSE "probe"
           s2 == IF n = Null THEN biz[b].slug ELSE <<n, 0>>
           row == biz[b]
           c == card[b]
           q == Started("update", pc, b)
           p == [q EXCEPT !.row = row, !.card = c, !.slug = s2]
<1>2. row \in BizRow /\ c \in CardRow \cup {Null}
  BY DEF TypeOK, UpdateLoad, Live, Exists
<1>3. s2 \in Slugs
  BY <1>2, ConstantsAssumption DEF BizRow, Slugs
<1>4. pc \in {"update_save", "probe"}
  OBVIOUS
<1>5. req' = [req EXCEPT ![r] = p]
  BY <1>1
<1>6. now \in 0 .. MaxTime
  BY DEF TypeOK
<1> HIDE DEF pc, s2, row, c
<1>7. /\ q \in Request /\ q.kind = "update" /\ q.pc = pc /\ q.b = b /\ q.act = Null
  BY <1>4, <1>6, StartedOK DEF AllKinds, RequestPc
<1> HIDE DEF q
<1>8. p \in Request
  <2>1. [q EXCEPT !.row = row, !.card = c] \in Request
    BY <1>2, <1>7, RowsKnown
  <2>2. p = [[q EXCEPT !.row = row, !.card = c] EXCEPT !.slug = s2]
    BY <1>7 DEF Request
  <2>3. QED
    BY <1>3, <2>1, <2>2 DEF Request
<1>9. /\ p.kind = "update" /\ p.pc = pc /\ p.b = b /\ p.act = Null
      /\ p.slug = s2 /\ p.row = row
  BY <1>7 DEF Request
<1> HIDE DEF p
<1>10. LocalsOf(p)
  BY <1>2, <1>3, <1>4, <1>9 DEF LocalsOf, Updating, SlugPcs, BizPcs, UpdatePcs
<1>11. req' \in [Requests -> Request] /\ \A s \in Requests : LocalsOf(req'[s])
  BY <1>5, <1>8, <1>10, OneMoves DEF TypeOK
<1>12. QED
  BY <1>11 DEF UpdateLoad, TypeOK, db, past

\* The locals of a request that is busy updating.
LEMMA UpdateLocals ==
  ASSUME IInv, NEW r \in Requests, req[r].pc \in UpdatePcs
  PROVE  /\ req[r] \in Request /\ LocalsOf(req[r]) /\ req[r].kind = "update"
         /\ req[r].b \in BizIds /\ req[r].row \in BizRow /\ req[r].slug \in Slugs
         /\ req[r].act = Null /\ req[r].card \in CardRow \cup {Null}
  BY DEF IInv, LocalsOK, TypeOK, LocalsOf, Updating, UpdatePcs, SlugPcs, Request

\* Moving on within an update keeps the locals in order.
LEMMA UpdateGoto ==
  ASSUME IInv, NEW r \in Requests, req[r].pc \in UpdatePcs,
         NEW pc \in UpdatePcs, Goto(r, pc)
  PROVE  req' \in [Requests -> Request] /\ \A s \in Requests : LocalsOf(req'[s])
<1> DEFINE q == req[r]
           p == [q EXCEPT !.pc = pc]
<1>1. /\ q \in Request /\ q.kind = "update" /\ q.act = Null
      /\ q.b \in BizIds /\ q.row \in BizRow /\ q.slug \in Slugs
  BY UpdateLocals
<1>2. req' = [req EXCEPT ![r] = p]
  BY DEF Goto
<1> HIDE DEF q
<1>3. p \in Request
  BY <1>1, MovesOn DEF UpdatePcs, RequestPc
<1>4. /\ p.pc = pc /\ p.kind = "update" /\ p.act = Null
      /\ p.b = q.b /\ p.row = q.row /\ p.slug = q.slug
  BY <1>1 DEF Request
<1> HIDE DEF p
<1>5. LocalsOf(p)
  BY <1>1, <1>4 DEF LocalsOf, Updating, SlugPcs, BizPcs, UpdatePcs
<1>6. QED
  BY <1>2, <1>3, <1>5, OneMoves DEF IInv, LocalsOK, TypeOK

LEMMA UpdateKeepsTypes ==
  ASSUME IInv, NEW r \in Requests,
         \/ UpdateRedirect(r) \/ UpdateReject(r)
         \/ UpdateSelect(r) \/ UpdateSelectCard(r) \/ UpdateWrite(r)
  PROVE  IInv'
<1> DEFINE q == req[r]
<1>1. /\ q.pc \in UpdatePcs /\ q \in Request /\ LocalsOf(q)
      /\ q.b \in BizIds /\ q.row \in BizRow /\ q.slug \in Slugs
      /\ q.card \in CardRow \cup {Null} /\ q.act = Null
  <2>1. q.pc \in UpdatePcs
    BY DEF UpdateRedirect, UpdateReject, UpdateSelect, UpdateSelectCard, UpdateWrite, At,
      UpdatePcs
  <2>2. QED
    BY <2>1, UpdateLocals
<1>2. TypeOK /\ LocalsOK
  BY DEF IInv
<1>3. CASE UpdateRedirect(r)
  <2>1. redirects' \subseteq Redirect
    BY <1>1, <1>2, <1>3 DEF UpdateRedirect, TypeOK, Redirect, BizRow
  <2>2. req' \in [Requests -> Request] /\ \A s \in Requests : LocalsOf(req'[s])
    BY <1>1, <1>3, UpdateGoto DEF UpdateRedirect, UpdatePcs
  <2>3. QED
    BY <1>2, <1>3, <2>1, <2>2 DEF UpdateRedirect, IInv, LocalsOK, TypeOK, past
<1>4. CASE UpdateReject(r)
  <2>1. req' \in [Requests -> Request] /\ \A s \in Requests : LocalsOf(req'[s])
    BY <1>2, <1>4, FinishOK DEF UpdateReject, TypeOK, LocalsOK
  <2>2. QED
    BY <1>2, <1>4, <2>1 DEF UpdateReject, IInv, LocalsOK, TypeOK, db, past
<1>5. CASE UpdateSelect(r) \/ UpdateSelectCard(r)
  <2>1. PICK pc \in {"update_select", "update_write"}, n \in BizRow \cup {Null},
             m \in CardRow \cup {Null} :
               req' = [req EXCEPT ![r] = [q EXCEPT !.pc = pc, !.seen = n, !.seenCard = m]]
    <3>1. /\ biz[q.b] \in BizRow \cup {Null} /\ card[q.b] \in CardRow \cup {Null}
          /\ q.seen \in BizRow \cup {Null} /\ q.seenCard \in CardRow \cup {Null}
      BY <1>1, <1>2 DEF TypeOK, Request
    <3>2. CASE UpdateSelect(r)
      <4>1. req' = [req EXCEPT ![r] = [q EXCEPT !.pc = "update_select", !.seen = biz[q.b]]]
        BY <3>2 DEF UpdateSelect
      <4>2. [q EXCEPT !.pc = "update_select", !.seen = biz[q.b]]
              = [q EXCEPT !.pc = "update_select", !.seen = biz[q.b], !.seenCard = q.seenCard]
        BY <1>1 DEF Request
      <4>3. QED
        BY <3>1, <4>1, <4>2
    <3>3. CASE UpdateSelectCard(r)
      <4>1. req' = [req EXCEPT ![r] = [q EXCEPT !.pc = "update_write", !.seenCard = card[q.b]]]
        BY <3>3 DEF UpdateSelectCard
      <4>2. [q EXCEPT !.pc = "update_write", !.seenCard = card[q.b]]
              = [q EXCEPT !.pc = "update_write", !.seen = q.seen, !.seenCard = card[q.b]]
        BY <1>1 DEF Request
      <4>3. QED
        BY <3>1, <4>1, <4>2
    <3>4. QED
      BY <1>5, <3>2, <3>3
  <2> DEFINE p == [q EXCEPT !.pc = pc, !.seen = n, !.seenCard = m]
  <2>2. p \in Request
    <3>1. [q EXCEPT !.seen = n, !.seenCard = m] \in Request /\ pc \in RequestPc
      BY <1>1, RowsKnown DEF RequestPc
    <3>2. p = [[q EXCEPT !.seen = n, !.seenCard = m] EXCEPT !.pc = pc]
      BY <1>1 DEF Request
    <3>3. QED
      BY <3>1, <3>2, MovesOn
  <2>3. /\ p.pc = pc /\ p.b = q.b /\ p.row = q.row /\ p.slug = q.slug /\ p.act = q.act
        /\ p.kind = q.kind
    BY <1>1 DEF Request
  <2>4. q.kind = "update"
    BY <1>1 DEF LocalsOf
  <2>5. req' = [req EXCEPT ![r] = p]
    BY <2>1
  <2> HIDE DEF p
  <2>6. LocalsOf(p)
    BY <1>1, <2>3, <2>4 DEF LocalsOf, Updating, SlugPcs, BizPcs, UpdatePcs
  <2> HIDE DEF q
  <2>7. req' \in [Requests -> Request] /\ \A s \in Requests : LocalsOf(req'[s])
    BY <1>2, <2>2, <2>5, <2>6, OneMoves DEF TypeOK, LocalsOK
  <2>8. QED
    BY <1>2, <1>5, <2>7 DEF UpdateSelect, UpdateSelectCard, IInv, LocalsOK, TypeOK, db, past
<1>6. CASE UpdateWrite(r)
  <2>1. SavedRow(q) \in BizRow \cup {Null} /\ SavedCard(q) \in CardRow \cup {Null}
    BY <1>1, SavedRowOK
  <2>2. biz' \in [BizIds -> BizRow \cup {Null}]
    BY <1>1, <1>2, <1>6, <2>1 DEF UpdateWrite, TypeOK
  <2>3. card' \in [BizIds -> CardRow \cup {Null}]
    BY <1>1, <1>2, <1>6, <2>1 DEF UpdateWrite, TypeOK
  <2>4. Wrote(r, "update_card", q.slug, Null) \/ ToAudit(r, "updated")
    BY <1>6 DEF UpdateWrite
  <2>5. req' \in [Requests -> Request] /\ \A s \in Requests : LocalsOf(req'[s])
    <3>1. q.slug # Null
      BY <1>1, NullAssumption
    <3>2. CASE Wrote(r, "update_card", q.slug, Null)
      BY <1>1, <1>2, <3>1, <3>2, WroteNext DEF TypeOK, LocalsOK
    <3>3. CASE ToAudit(r, "updated")
      BY <1>1, <1>2, <3>3, AuditNext DEF AuditActions, TypeOK, LocalsOK
    <3>4. QED
      BY <2>4, <3>2, <3>3
  <2>6. crossed' \subseteq BizIds
    BY <1>1, <1>2, <1>6 DEF UpdateWrite, TypeOK
  <2>7. QED
    BY <1>2, <1>6, <2>2, <2>3, <2>5, <2>6 DEF UpdateWrite, IInv, LocalsOK, TypeOK
<1>7. QED
  BY <1>3, <1>4, <1>5, <1>6

LEMMA UpdateCardKeepsTypes ==
  ASSUME IInv, NEW r \in Requests, UpdateCard(r)
  PROVE  IInv'
<1> DEFINE q == req[r]
<1>1. TypeOK /\ LocalsOK
  BY DEF IInv
<1>2. q.b \in BizIds /\ q.slug \in Slugs
  BY <1>1 DEF UpdateCard, At, LocalsOK, LocalsOf, SlugPcs, BizPcs
<1>3. card' \in [BizIds -> CardRow \cup {Null}]
  BY <1>1, <1>2 DEF UpdateCard, TypeOK, CardRow
<1>4. req' \in [Requests -> Request] /\ \A s \in Requests : LocalsOf(req'[s])
  BY <1>1, <1>2, AuditNext DEF UpdateCard, AuditActions, TypeOK, LocalsOK
<1>5. QED
  BY <1>1, <1>3, <1>4 DEF UpdateCard, IInv, LocalsOK, TypeOK, past

\* A request of another kind is loaded: it holds no row, and its id is known.
LEMMA LoadKeepsTypes ==
  ASSUME IInv, NEW r \in Requests, NEW b \in BizIds,
         SoftDeleteLoad(r, b) \/ RestoreLoad(r, b) \/ ApproveLoad(r, b)
  PROVE  IInv'
<1>1. /\ TypeOK /\ LocalsOK /\ now \in 0 .. MaxTime
  BY DEF IInv, TypeOK
<1>2. CASE SoftDeleteLoad(r, b)
  <2> DEFINE q == Started("softDelete", "delete_write", b)
             p == [q EXCEPT !.at = now]
  <2>1. /\ q \in Request /\ q.kind = "softDelete" /\ q.pc = "delete_write" /\ q.b = b
        /\ q.row = Null /\ q.act = Null
    BY <1>1, StartedOK DEF AllKinds, RequestPc
  <2>2. req' = [req EXCEPT ![r] = p]
    BY <1>2 DEF SoftDeleteLoad
  <2> HIDE DEF q
  <2>3. p \in Request
    BY <1>1, <2>1 DEF Request
  <2>4. /\ p.kind = "softDelete" /\ p.pc = "delete_write" /\ p.b = b /\ p.act = Null
        /\ p.row = Null
    BY <2>1 DEF Request
  <2> HIDE DEF p
  <2>5. LocalsOf(p)
    BY <2>4 DEF LocalsOf, Updating, SlugPcs, BizPcs, UpdatePcs
  <2>6. req' \in [Requests -> Request] /\ \A s \in Requests : LocalsOf(req'[s])
    BY <1>1, <2>2, <2>3, <2>5, OneMoves DEF TypeOK, LocalsOK
  <2>7. QED
    BY <1>1, <1>2, <2>6 DEF SoftDeleteLoad, IInv, LocalsOK, TypeOK, db, past
<1>3. ASSUME NEW kind \in {"restore", "approve"}, NEW pc \in {"restore_write", "approve_write"},
             req' = [req EXCEPT ![r] = Started(kind, pc, b)]
      PROVE  req' \in [Requests -> Request] /\ \A s \in Requests : LocalsOf(req'[s])
  <2> DEFINE p == Started(kind, pc, b)
  <2>1. /\ p \in Request /\ p.kind = kind /\ p.pc = pc /\ p.b = b /\ p.act = Null
        /\ p.row = Null
    BY <1>1, StartedOK DEF AllKinds, RequestPc
  <2>2. req' = [req EXCEPT ![r] = p]
    BY <1>3
  <2> HIDE DEF p
  <2>3. LocalsOf(p)
    BY <2>1 DEF LocalsOf, Updating, SlugPcs, BizPcs, UpdatePcs
  <2>4. QED
    BY <1>1, <2>1, <2>2, <2>3, OneMoves DEF TypeOK, LocalsOK
<1>4. CASE RestoreLoad(r, b)
  <2>1. req' \in [Requests -> Request] /\ \A s \in Requests : LocalsOf(req'[s])
    BY <1>3, <1>4 DEF RestoreLoad
  <2>2. QED
    BY <1>1, <1>4, <2>1 DEF RestoreLoad, IInv, LocalsOK, TypeOK, db, past
<1>5. CASE ApproveLoad(r, b)
  <2>1. req' \in [Requests -> Request] /\ \A s \in Requests : LocalsOf(req'[s])
    BY <1>3, <1>5 DEF ApproveLoad
  <2>2. QED
    BY <1>1, <1>5, <2>1 DEF ApproveLoad, IInv, LocalsOK, TypeOK, db, past
<1>6. QED
  BY <1>2, <1>4, <1>5

LEMMA WriteKeepsTypes ==
  ASSUME IInv, NEW r \in Requests,
         SoftDeleteWrite(r) \/ RestoreWrite(r) \/ ApproveWrite(r)
  PROVE  IInv'
<1> DEFINE b == req[r].b
<1>1. TypeOK /\ LocalsOK /\ b \in BizIds /\ req[r].at \in 0 .. MaxTime
  BY DEF IInv, TypeOK, LocalsOK, LocalsOf, BizPcs, Request,
         SoftDeleteWrite, RestoreWrite, ApproveWrite, At
<1>2. Exists(b) => biz[b] \in BizRow
  BY <1>1 DEF Exists, TypeOK
<1>3. CASE SoftDeleteWrite(r)
  <2>1. biz' \in [BizIds -> BizRow \cup {Null}]
    BY <1>1, <1>2, <1>3, DeletedRowOK DEF SoftDeleteWrite, TypeOK
  <2>2. req' \in [Requests -> Request] /\ \A s \in Requests : LocalsOf(req'[s])
    BY <1>1, <1>3, AuditNext DEF SoftDeleteWrite, AuditActions, TypeOK, LocalsOK
  <2>3. QED
    BY <1>1, <1>3, <2>1, <2>2 DEF SoftDeleteWrite, IInv, LocalsOK, TypeOK, past
<1>4. CASE RestoreWrite(r)
  <2>1. biz' \in [BizIds -> BizRow \cup {Null}]
    BY <1>1, <1>2, <1>4, RestoredRowOK DEF RestoreWrite, TypeOK
  <2>2. req' \in [Requests -> Request] /\ \A s \in Requests : LocalsOf(req'[s])
    BY <1>1, <1>4, FinishOK DEF RestoreWrite, TypeOK, LocalsOK
  <2>3. reprieved' \subseteq BizIds
    BY <1>1, <1>4 DEF RestoreWrite, TypeOK
  <2>4. QED
    BY <1>1, <1>4, <2>1, <2>2, <2>3 DEF RestoreWrite, IInv, LocalsOK, TypeOK
<1>5. CASE ApproveWrite(r)
  <2>1. biz' \in [BizIds -> BizRow \cup {Null}]
    BY <1>1, <1>2, <1>5, ApprovedRowOK DEF ApproveWrite, TypeOK
  <2>2. req' \in [Requests -> Request] /\ \A s \in Requests : LocalsOf(req'[s])
    BY <1>1, <1>5, AuditNext DEF ApproveWrite, AuditActions, TypeOK, LocalsOK
  <2>3. QED
    BY <1>1, <1>5, <2>1, <2>2 DEF ApproveWrite, IInv, LocalsOK, TypeOK, past
<1>6. QED
  BY <1>3, <1>4, <1>5

LEMMA FlagKeepsTypes ==
  ASSUME IInv, NEW r \in Requests, NEW b \in BizIds, FlagWrite(r, b)
  PROVE  IInv'
<1> DEFINE q == Started("flag", "audit", b)
           p == [q EXCEPT !.act = "flagged"]
<1>1. /\ TypeOK /\ LocalsOK /\ now \in 0 .. MaxTime
  BY DEF IInv, TypeOK
<1>2. biz' \in [BizIds -> BizRow \cup {Null}]
  BY <1>1, FlaggedRowOK DEF FlagWrite, TypeOK, Exists
<1>3. /\ q \in Request /\ q.kind = "flag" /\ q.pc = "audit" /\ q.b = b /\ q.row = Null
  BY <1>1, StartedOK DEF AllKinds, RequestPc
<1>4. req' = [req EXCEPT ![r] = p]
  BY DEF FlagWrite
<1> HIDE DEF q
<1>5. p \in Request
  BY <1>3 DEF Request, AuditActions
<1>6. p.kind = "flag" /\ p.pc = "audit" /\ p.b = b /\ p.act = "flagged" /\ p.row = Null
  BY <1>3 DEF Request
<1> HIDE DEF p
<1>7. LocalsOf(p)
  BY <1>6 DEF LocalsOf, Updating, SlugPcs, BizPcs, UpdatePcs, AuditActions
<1>8. req' \in [Requests -> Request] /\ \A s \in Requests : LocalsOf(req'[s])
  BY <1>1, <1>4, <1>5, <1>7, OneMoves DEF TypeOK, LocalsOK
<1>9. QED
  BY <1>1, <1>2, <1>8 DEF FlagWrite, IInv, LocalsOK, TypeOK, past

LEMMA EndKeepsTypes ==
  ASSUME IInv, NEW r \in Requests, AuditLog(r) \/ Conflict(r) \/ Fail(r)
  PROVE  IInv'
<1>1. TypeOK /\ LocalsOK
  BY DEF IInv
<1>2. req' \in [Requests -> Request] /\ \A s \in Requests : LocalsOf(req'[s])
  BY <1>1, FinishOK DEF AuditLog, Conflict, Fail, TypeOK, LocalsOK
<1>3. CASE AuditLog(r)
  <2>1. req[r].b \in BizIds /\ req[r].act \in AuditActions
    BY <1>1, <1>3 DEF AuditLog, At, LocalsOK, LocalsOf, BizPcs
  <2>2. audit' \subseteq AuditActions \X BizIds
    BY <1>1, <1>3, <2>1 DEF AuditLog, Entry, TypeOK
  <2>3. QED
    BY <1>1, <1>2, <1>3, <2>2 DEF AuditLog, IInv, LocalsOK, TypeOK, db, past
<1>4. CASE Conflict(r)
  BY <1>1, <1>2, <1>4 DEF Conflict, IInv, LocalsOK, TypeOK, db, past
<1>5. CASE Fail(r)
  <2>1. fails' \in 0 .. MaxFails
    BY <1>1, <1>5, ConstantsAssumption DEF Fail, TypeOK
  <2>2. QED
    BY <1>1, <1>2, <1>5, <2>1 DEF Fail, IInv, LocalsOK, TypeOK, db, past
<1>6. QED
  BY <1>3, <1>4, <1>5

LEMMA JobKeepsTypes ==
  ASSUME IInv, Job
  PROVE  IInv'
<1>1. TypeOK /\ LocalsOK
  BY DEF IInv
<1>2. CASE JobStart
  BY <1>1, <1>2, ConstantsAssumption DEF JobStart, PurgeList, IInv, LocalsOK, TypeOK, db, past
<1>3. ASSUME NEW b \in BizIds, JobDelete(b)
      PROVE  IInv'
  BY <1>1, <1>3 DEF JobDelete, IInv, LocalsOK, TypeOK, past
<1>4. CASE JobAudit
  <2>1. job.b \in BizIds
    BY <1>1, <1>4 DEF JobAudit, LocalsOK
  <2>2. audit' \subseteq AuditActions \X BizIds
    BY <1>1, <1>4, <2>1 DEF JobAudit, Entry, TypeOK, AuditActions
  <2>3. /\ job' \in [pc: {"idle", "delete", "audit"}, todo: SUBSET BizIds,
                     b: BizIds \cup {Null}, since: 0 .. MaxTime]
        /\ job'.pc # "audit"
    <3>1. /\ job \in [pc: {"idle", "delete", "audit"}, todo: SUBSET BizIds,
                      b: BizIds \cup {Null}, since: 0 .. MaxTime]
          /\ job' = IF job.todo = {} THEN IdleJob ELSE [job EXCEPT !.pc = "delete", !.b = Null]
      BY <1>1, <1>4 DEF JobAudit, TypeOK
    <3>2. CASE job.todo = {}
      BY <3>1, <3>2, ConstantsAssumption DEF IdleJob
    <3>3. CASE job.todo # {}
      BY <3>1, <3>3
    <3>4. QED
      BY <3>2, <3>3
  <2>4. QED
    BY <1>1, <1>4, <2>2, <2>3 DEF JobAudit, IInv, LocalsOK, TypeOK, db, past
<1>5. CASE JobFail
  BY <1>1, <1>5, ConstantsAssumption DEF JobFail, IdleJob, IInv, LocalsOK, TypeOK, db, past
<1>6. QED
  BY <1>2, <1>3, <1>4, <1>5 DEF Job

LEMMA TickKeepsTypes ==
  ASSUME IInv, Tick
  PROVE  IInv'
  BY ConstantsAssumption DEF Tick, IInv, LocalsOK, TypeOK, db, past

LEMMA InitTypes == Init => IInv
  BY IdleOK, ConstantsAssumption
  DEF Init, IInv, TypeOK, LocalsOK, IdleJob

LEMMA TypesKept == IInv /\ [Next]_vars => IInv'
<1> SUFFICES ASSUME IInv, [Next]_vars PROVE IInv'
  OBVIOUS
<1>1. ASSUME NEW r \in Requests, Owner(r) PROVE IInv'
  BY <1>1, CreateKeepsTypes, ProbeKeepsTypes, UpdateLoadKeepsTypes, UpdateKeepsTypes,
     UpdateCardKeepsTypes, LoadKeepsTypes, WriteKeepsTypes DEF Owner
<1>2. ASSUME NEW r \in Requests, Admin(r) PROVE IInv'
  BY <1>2, LoadKeepsTypes, WriteKeepsTypes, FlagKeepsTypes DEF Admin
<1>3. ASSUME NEW r \in Requests, Step(r) PROVE IInv'
  BY <1>1, <1>2, <1>3, EndKeepsTypes DEF Step
<1>4. CASE UNCHANGED vars
  BY <1>4 DEF vars, IInv, TypeOK, LocalsOK, past
<1>5. QED
  BY <1>3, <1>4, JobKeepsTypes, TickKeepsTypes DEF Next

\* Every variable keeps its type, and every request in flight holds at each of
\* its awaits the locals its handler goes on with (BusinessService).
THEOREM TypesAndLocals == Spec => []IInv
<1>1. QED
  BY InitTypes, TypesKept, PTL DEF Spec

\* Every reachable state is well typed.
THEOREM TypeCorrect == Spec => []TypeOK
<1>1. IInv => TypeOK
  BY DEF IInv
<1>2. QED
  BY <1>1, TypesAndLocals, PTL

----------------------------------------------------------------------------
(* VerifiedUnlessCrossed *)

\* A row a request holds after a step is one it held before, or a copy of the
\* row of a live business just loaded.
LEMMA HeldRows ==
  ASSUME IInv, NEW s \in Requests, [Next]_vars, req'[s].row # Null
  PROVE  \/ req[s].row # Null /\ req'[s].row = req[s].row /\ req'[s].b = req[s].b
         \/ \E b \in BizIds : /\ Exists(b) /\ req'[s].row = biz[b] /\ req'[s].b = b
                              /\ UNCHANGED <<biz, audit, fails, crossed>>
                              /\ \A r \in Requests : req[r].act # Null => req'[r] = req[r]
<1>1. /\ req \in [Requests -> Request] /\ LocalsOf(req[s])
  BY DEF IInv, TypeOK, LocalsOK
<1>2. CASE req'[s].row = req[s].row /\ req'[s].b = req[s].b
  BY <1>2
<1>3. ASSUME NEW r \in Requests, Owner(r)
      PROVE  \/ req'[s].row = req[s].row /\ req'[s].b = req[s].b
             \/ req'[s].row = Null
             \/ \E b \in BizIds : UpdateLoad(r, b)
  <2>1. CASE r # s
    BY <1>1, <1>3, <2>1 DEF Owner, CreateCount, ProbeTaken, ProbeFree, CreateSave, CreateCard,
      UpdateRedirect, UpdateReject, UpdateSelect, UpdateSelectCard, UpdateWrite, UpdateCard,
      SoftDeleteLoad, RestoreLoad, SoftDeleteWrite, RestoreWrite, Goto, Finish, ToAudit, Wrote
  <2>2. CASE r = s
    <3>1. CASE \E b \in BizIds : SoftDeleteLoad(r, b) \/ RestoreLoad(r, b)
      BY <1>1, <2>2, <3>1 DEF SoftDeleteLoad, RestoreLoad, Started
    <3>2. CASE \E o \in Owners, n \in Names : CreateCount(r, o, n)
      BY <1>1, <2>2, <3>2 DEF CreateCount, Started
    <3>3. CASE CreateSave(r)
      BY <1>1, <2>2, <3>3 DEF CreateSave, At, LocalsOf, Request
    <3>4. CASE UpdateReject(r) \/ RestoreWrite(r)
      BY <1>1, <2>2, <3>4 DEF UpdateReject, RestoreWrite, Finish, Idle
    <3>5. CASE \/ ProbeTaken(r) \/ ProbeFree(r) \/ UpdateRedirect(r)
               \/ UpdateSelect(r) \/ UpdateSelectCard(r)
      BY <1>1, <2>2, <3>5 DEF ProbeTaken, ProbeFree, UpdateRedirect, UpdateSelect,
        UpdateSelectCard, Goto, Request
    <3>6. CASE CreateCard(r) \/ UpdateWrite(r) \/ UpdateCard(r) \/ SoftDeleteWrite(r)
      <4>1. ASSUME NEW pc, NEW slug, NEW act, Wrote(r, pc, slug, act) PROVE req'[s].row = Null
        BY <1>1, <2>2, <4>1 DEF Wrote, Idle
      <4>2. QED
        BY <3>6, <4>1 DEF CreateCard, UpdateWrite, UpdateCard, SoftDeleteWrite, ToAudit
    <3>7. QED
      BY <1>3, <3>1, <3>2, <3>3, <3>4, <3>5, <3>6 DEF Owner
  <2>3. QED
    BY <2>1, <2>2
<1>4. ASSUME NEW r \in Requests, NEW b \in BizIds, UpdateLoad(r, b),
             ~ (req'[s].row = req[s].row /\ req'[s].b = req[s].b)
      PROVE  /\ Exists(b) /\ req'[s].row = biz[b] /\ req'[s].b = b
             /\ UNCHANGED <<biz, audit, fails, crossed>>
             /\ \A q \in Requests : req[q].act # Null => req'[q] = req[q]
  <2>1. r = s
    BY <1>1, <1>4 DEF UpdateLoad
  <2>2. req'[s].row = biz[b] /\ req'[s].b = b
    BY <1>1, <1>4, <2>1 DEF UpdateLoad, Started
  <2>3. \A q \in Requests : req[q].act # Null => req'[q] = req[q]
    BY <1>1, <1>4, <2>1 DEF UpdateLoad, Begin, LocalsOf
  <2>4. QED
    BY <1>4, <2>2, <2>3 DEF UpdateLoad, Live, db, past
<1>5. ASSUME NEW r \in Requests, Admin(r) \/ AuditLog(r) \/ Conflict(r) \/ Fail(r)
      PROVE  \/ req'[s].row = req[s].row /\ req'[s].b = req[s].b
             \/ req'[s].row = Null
  <2>1. CASE \E b \in BizIds : ApproveLoad(r, b)
    BY <1>1, <2>1 DEF ApproveLoad, Started
  <2>2. CASE \E b \in BizIds : FlagWrite(r, b)
    BY <1>1, <2>2 DEF FlagWrite, Started
  <2>3. CASE ApproveWrite(r)
    BY <1>1, <2>3 DEF ApproveWrite, ToAudit, Wrote, Idle
  <2>4. CASE AuditLog(r) \/ Conflict(r) \/ Fail(r)
    BY <1>1, <2>4 DEF AuditLog, Conflict, Fail, Finish, Idle
  <2>5. QED
    BY <1>5, <2>1, <2>2, <2>3, <2>4 DEF Admin
<1>6. CASE Job \/ Tick \/ UNCHANGED vars
  BY <1>6 DEF Job, JobStart, JobDelete, JobAudit, JobFail, Tick, vars
<1>7. QED
  BY <1>2, <1>3, <1>4, <1>5, <1>6 DEF Next, Step

\* A row that a step stores and that is active was approved by that step, or the stored
\* row or the one the request holds was active; an UPDATE that mixes the two is noted.
LEMMA StoredRows ==
  ASSUME IInv, NEW b \in BizIds, [Next]_vars,
         biz'[b] # Null, biz'[b].status = "active", biz'[b] # biz[b]
  PROVE  \E r \in Requests :
           /\ req[r].b = b
           /\ \/ ApproveWrite(r) /\ biz'[b].verified
              \/ /\ UpdateWrite(r)
                 /\ \/ req[r].row # Null /\ req[r].row.status = "active"
                    \/ Exists(b) /\ biz[b].status = "active"
                 /\ \/ /\ req[r].row # Null /\ req[r].row.status = "active"
                       /\ biz'[b].verified = req[r].row.verified
                    \/ b \in crossed'
<1>1. /\ biz \in [BizIds -> BizRow \cup {Null}]
      /\ \A r \in Requests : req[r] \in Request /\ LocalsOf(req[r])
  BY DEF IInv, TypeOK, LocalsOK
<1>2. ASSUME NEW r \in Requests, ApproveWrite(r)
      PROVE  req[r].b = b /\ biz'[b].verified
  BY <1>1, <1>2 DEF ApproveWrite, ApprovedRow, Exists, BizRow
<1>3. ASSUME NEW r \in Requests, UpdateWrite(r)
      PROVE  /\ req[r].b = b
             /\ \/ req[r].row # Null /\ req[r].row.status = "active"
                \/ Exists(b) /\ biz[b].status = "active"
             /\ \/ /\ req[r].row # Null /\ req[r].row.status = "active"
                   /\ biz'[b].verified = req[r].row.verified
                \/ b \in crossed'
  <2> DEFINE q == req[r]
  <2>1. q.b \in BizIds /\ q.row \in BizRow /\ q.slug \in Slugs /\ q \in Request
    BY <1>1, <1>3 DEF UpdateWrite, At, LocalsOf, Updating, UpdatePcs, SlugPcs
  <2>2. q.b = b /\ biz'[b] = SavedRow(q)
    BY <1>1, <1>3, <2>1 DEF UpdateWrite
  <2>3. crossed' = IF biz[b] \in {q.seen, Null} THEN crossed ELSE crossed \cup {b}
    BY <1>3, <2>2 DEF UpdateWrite
  <2> HIDE DEF q
  <2>4. CASE q.seen = Null \/ q.seen = biz[b]
    <3>1. biz'[b] = [q.row EXCEPT !.slug = q.slug]
      BY <2>1, <2>2, <2>4, SavedWhole
    <3>2. biz'[b].status = q.row.status /\ biz'[b].verified = q.row.verified
      BY <2>1, <3>1 DEF BizRow
    <3>3. q.row # Null /\ q.row.status = "active"
      BY <2>1, <3>2, NullAssumption
    <3>4. QED
      BY <2>2, <3>2, <3>3 DEF q
  <2>5. CASE q.seen # Null /\ q.seen # biz[b]
    <3>1. biz[b] # Null
      BY <2>2, <2>5 DEF SavedRow, Saved
    <3>2. biz[b] \in BizRow
      BY <1>1, <3>1
    <3>3. biz'[b].status \in {q.row.status, biz[b].status}
      BY <2>1, <2>2, <2>5, <3>2, SavedColumns
    <3>4. b \in crossed'
      BY <2>3, <2>5, <3>1
    <3>5. q.row # Null
      BY <2>1, NullAssumption
    <3>6. QED
      BY <2>2, <3>1, <3>3, <3>4, <3>5 DEF Exists, q
  <2>6. QED
    BY <2>4, <2>5
<1>4. ASSUME NEW r \in Requests, Step(r), ~ ApproveWrite(r), ~ UpdateWrite(r)
      PROVE  FALSE
  <2>1. CASE CreateSave(r)
    BY <1>1, <2>1 DEF CreateSave
  <2>2. CASE SoftDeleteWrite(r)
    BY <1>1, <2>2 DEF SoftDeleteWrite, DeletedRow, Exists, BizRow
  <2>3. CASE RestoreWrite(r)
    BY <1>1, <2>3 DEF RestoreWrite, RestoredRow, Exists, BizRow
  <2>4. CASE \E c \in BizIds : FlagWrite(r, c)
    BY <1>1, <2>4 DEF FlagWrite, Exists, BizRow
  <2>5. CASE biz' = biz
    BY <2>5
  <2>6. QED
    BY <1>4, <2>1, <2>2, <2>3, <2>4, <2>5 DEF Step, Owner, Admin, CreateCount, ProbeTaken,
      ProbeFree, CreateCard, UpdateLoad, UpdateRedirect, UpdateReject, UpdateSelect,
      UpdateSelectCard, UpdateCard, SoftDeleteLoad, RestoreLoad, ApproveLoad, AuditLog,
      Conflict, Fail, db
<1>5. CASE Job \/ Tick \/ UNCHANGED vars
  BY <1>1, <1>5 DEF Job, JobStart, JobDelete, JobAudit, JobFail, Tick, vars, db
<1>6. QED
  BY <1>2, <1>3, <1>4, <1>5 DEF Next

\* The history forgets nothing.
LEMMA PastStays ==
  ASSUME [Next]_vars
  PROVE  crossed \subseteq crossed' /\ reprieved \subseteq reprieved'
<1>1. ASSUME NEW r \in Requests, Step(r)
      PROVE  crossed \subseteq crossed' /\ reprieved \subseteq reprieved'
  <2>1. CASE UpdateWrite(r)
    BY <2>1 DEF UpdateWrite
  <2>2. CASE RestoreWrite(r)
    BY <2>2 DEF RestoreWrite
  <2>3. CASE UNCHANGED past
    BY <2>3 DEF past
  <2>4. QED
    BY <1>1, <2>1, <2>2, <2>3 DEF Step, Owner, Admin, CreateCount, ProbeTaken,
      ProbeFree, CreateSave, CreateCard, UpdateLoad, UpdateRedirect, UpdateReject,
      UpdateSelect, UpdateSelectCard, UpdateCard, SoftDeleteLoad, SoftDeleteWrite,
      RestoreLoad, ApproveLoad, ApproveWrite, FlagWrite, AuditLog, Conflict, Fail
<1>2. CASE Job \/ Tick \/ UNCHANGED vars
  BY <1>2 DEF Job, JobStart, JobDelete, JobAudit, JobFail, Tick, vars, past
<1>3. QED
  BY <1>1, <1>2 DEF Next

\* However the saves, restores, flags and approvals of any number of requests interleave,
\* a listing on the air carries the verified mark, unless an UPDATE of some columns has gone
\* over a row that another request had changed since the SELECT (approve, update, flag).
THEOREM VerifiedIfNotCrossed == Spec => []VerifiedUnlessCrossed
<1>1. Init => VerifiedInv
  BY DEF Init, Idle, VerifiedInv, VerifiedUnlessCrossed, HeldRowsVerified, Exists
<1>2. IInv /\ VerifiedInv /\ [Next]_vars => VerifiedInv'
  <2> SUFFICES ASSUME IInv, VerifiedInv, [Next]_vars PROVE VerifiedInv'
    OBVIOUS
  <2>0. crossed \subseteq crossed'
    BY PastStays
  <2>1. ASSUME NEW b \in BizIds, biz'[b] # Null, biz'[b].status = "active"
        PROVE  biz'[b].verified \/ b \in crossed'
    <3>1. CASE biz'[b] = biz[b]
      BY <2>0, <2>1, <3>1 DEF VerifiedInv, VerifiedUnlessCrossed, Exists
    <3>2. CASE biz'[b] # biz[b]
      BY <2>0, <2>1, <3>2, StoredRows DEF VerifiedInv, HeldRowsVerified, Truthful
    <3>3. QED
      BY <3>1, <3>2
  <2>2. ASSUME NEW s \in Requests, req'[s].row # Null
        PROVE  Truthful(req'[s].row) \/ req'[s].b \in crossed'
    BY <2>0, <2>2, HeldRows
    DEF VerifiedInv, HeldRowsVerified, VerifiedUnlessCrossed, Truthful, Exists
  <2>3. QED
    BY <2>1, <2>2
    DEF VerifiedInv, VerifiedUnlessCrossed, HeldRowsVerified, Truthful, Exists
<1>3. VerifiedInv => VerifiedUnlessCrossed
  BY DEF VerifiedInv
<1>4. QED
  BY <1>1, <1>2, <1>3, TypesAndLocals, PTL DEF Spec

----------------------------------------------------------------------------
(* ActiveIsTraced *)

\* What has left a trace keeps it: an approval that leaves the request goes
\* into the audit log, or the request failed.
LEMMA TraceStays ==
  ASSUME IInv, "approved" \in Logged, NEW b \in BizIds, [Next]_vars, Traced(b)
  PROVE  Traced(b)'
<1>1. /\ \A r \in Requests : LocalsOf(req[r])
      /\ req \in [Requests -> Request] /\ fails \in Nat
  BY ConstantsAssumption DEF IInv, TypeOK, LocalsOK
<1>2. fails' \in Nat /\ (fails > 0 => fails' > 0) /\ audit \subseteq audit'
  <2>1. ASSUME NEW r \in Requests, Step(r) PROVE fails' = fails \/ fails' = fails + 1
    BY <2>1 DEF Step, Owner, Admin, CreateCount, ProbeTaken, ProbeFree, CreateSave,
      CreateCard, UpdateLoad, UpdateRedirect, UpdateReject, UpdateSelect, UpdateSelectCard,
      UpdateWrite, UpdateCard, SoftDeleteLoad, SoftDeleteWrite, RestoreLoad, RestoreWrite,
      ApproveLoad, ApproveWrite, FlagWrite, AuditLog, Conflict, Fail
  <2>2. ASSUME NEW r \in Requests, Step(r) PROVE audit \subseteq audit'
    BY <2>2 DEF Step, Owner, Admin, CreateCount, ProbeTaken, ProbeFree, CreateSave,
      CreateCard, UpdateLoad, UpdateRedirect, UpdateReject, UpdateSelect, UpdateSelectCard,
      UpdateWrite, UpdateCard, SoftDeleteLoad, SoftDeleteWrite, RestoreLoad, RestoreWrite,
      ApproveLoad, ApproveWrite, FlagWrite, AuditLog, Entry, Conflict, Fail
  <2>3. CASE Job
    <3>1. fails' = fails \/ fails' = fails + 1
      BY <2>3 DEF Job, JobStart, JobDelete, JobAudit, JobFail
    <3>2. audit' = audit \/ audit' = Entry("purged", job.b)
      BY <2>3 DEF Job, JobStart, JobDelete, JobAudit, JobFail
    <3>3. QED
      BY <1>1, <3>1, <3>2 DEF Entry
  <2>4. CASE Tick \/ UNCHANGED vars
    BY <1>1, <2>4 DEF Tick, vars
  <2>5. QED
    BY <1>1, <2>1, <2>2, <2>3, <2>4 DEF Next
<1>3. CASE fails > 0 \/ <<"approved", b>> \in audit
  BY <1>2, <1>3 DEF Traced
<1>4. ASSUME NEW s \in Requests, req[s].b = b, req[s].act = "approved"
      PROVE  Traced(b)'
  <2>1. req[s].pc = "audit"
    BY <1>1, <1>4, NullAssumption DEF LocalsOf, AuditActions
  <2>2. CASE req'[s] = req[s]
    BY <1>4, <2>2 DEF Traced, Approving
  <2>3. CASE AuditLog(s)
    BY <1>4, <2>3 DEF AuditLog, Entry, Traced
  <2>4. CASE Fail(s)
    BY <1>1, <2>4 DEF Fail, Traced
  <2>5. ASSUME NEW r \in Requests, Step(r), ~ AuditLog(s), ~ Fail(s)
        PROVE  req'[s] = req[s]
    <3>1. CASE r = s
      BY <2>1, <2>5, <3>1 DEF Step, Owner, Admin, CreateCount, ProbeTaken, ProbeFree,
        CreateSave, CreateCard, UpdateLoad, UpdateRedirect, UpdateReject,
        UpdateSelect, UpdateSelectCard, UpdateWrite, UpdateCard, SoftDeleteLoad,
        SoftDeleteWrite, RestoreLoad, RestoreWrite, ApproveLoad,
        ApproveWrite, FlagWrite, Conflict, BreaksConstraint, Begin, At
    <3>2. CASE r # s
      BY <1>1, <2>5, <3>2 DEF Step, Owner, Admin, CreateCount, ProbeTaken, ProbeFree,
        CreateSave, CreateCard, UpdateLoad, UpdateRedirect, UpdateReject,
        UpdateSelect, UpdateSelectCard, UpdateWrite, UpdateCard, SoftDeleteLoad,
        SoftDeleteWrite, RestoreLoad, RestoreWrite, ApproveLoad,
        ApproveWrite, FlagWrite, AuditLog, Conflict, Fail, Goto, ToAudit, Wrote, Finish
    <3>3. QED
      BY <3>1, <3>2
  <2>6. CASE Job \/ Tick \/ UNCHANGED vars
    BY <2>2, <2>6 DEF Job, JobStart, JobDelete, JobAudit, JobFail, Tick, vars
  <2>7. QED
    BY <2>2, <2>3, <2>4, <2>5, <2>6 DEF Next
<1>5. QED
  BY <1>3, <1>4 DEF Traced, Approving

\* As long as nothing fails, no listing is on the air without its approval in
\* the audit log or about to be written there, also when a stale save put it
\* back on the air.
THEOREM ActiveLeavesTrace ==
  ASSUME "approved" \in Logged
  PROVE  Spec => []ActiveIsTraced
<1>1. Init => TracedInv
  BY DEF Init, Idle, TracedInv, HeldRowsTraced, Exists
<1>2. IInv /\ TracedInv /\ [Next]_vars => TracedInv'
  <2> SUFFICES ASSUME IInv, TracedInv, [Next]_vars PROVE TracedInv'
    OBVIOUS
  <2>0. \A r \in Requests : LocalsOf(req[r]) /\ req[r] \in Request
    BY DEF IInv, LocalsOK, TypeOK
  <2>1. ASSUME NEW b \in BizIds, biz'[b] # Null, biz'[b].status = "active"
        PROVE  Traced(b)'
    <3>1. CASE biz'[b] = biz[b]
      BY <2>1, <3>1, TraceStays DEF TracedInv, Exists
    <3>2. ASSUME NEW r \in Requests, req[r].b = b, ApproveWrite(r)
          PROVE  Traced(b)'
      <4>1. req'[r].act = "approved" /\ req'[r].b = b
        BY <2>0, <3>2 DEF ApproveWrite, ToAudit, Wrote, IInv, TypeOK
      <4>2. QED
        BY <4>1 DEF Traced, Approving
    <3>3. ASSUME NEW r \in Requests, req[r].b = b,
                 \/ req[r].row # Null /\ req[r].row.status = "active"
                 \/ Exists(b) /\ biz[b].status = "active"
          PROVE  Traced(b)'
      <4>1. Traced(b)
        BY <3>3 DEF TracedInv, HeldRowsTraced
      <4>2. QED
        BY <4>1, TraceStays
    <3>4. QED
      BY <2>1, <3>1, <3>2, <3>3, StoredRows
  <2>2. ASSUME NEW s \in Requests, req'[s].row # Null, req'[s].row.status = "active"
        PROVE  Traced(req[s].b)'
    <3>1. CASE req[s].row # Null /\ req'[s].row = req[s].row /\ req'[s].b = req[s].b
      <4>1. Traced(req[s].b) /\ req[s].b \in BizIds
        BY <2>0, <2>2, <3>1 DEF TracedInv, HeldRowsTraced, LocalsOf
      <4>2. QED
        BY <3>1, <4>1, TraceStays DEF Traced, Approving
    <3>2. ASSUME NEW b \in BizIds, Exists(b), req'[s].row = biz[b], req'[s].b = b
          PROVE  Traced(req[s].b)'
      <4>1. Traced(b)
        BY <2>2, <3>2 DEF TracedInv
      <4>2. QED
        BY <3>2, <4>1, TraceStays DEF Traced, Approving
    <3>3. QED
      BY <2>2, <3>1, <3>2, HeldRows
  <2>3. QED
    BY <2>1, <2>2 DEF TracedInv, HeldRowsTraced, Traced, Exists, Approving
<1>3. TracedInv => ActiveIsTraced
  BY DEF TracedInv, ActiveIsTraced, Traced
<1>4. QED
  BY <1>1, <1>2, <1>3, TypesAndLocals, PTL DEF Spec

----------------------------------------------------------------------------
(* Requests and runs of the job that cross the end of a grace: a request    *)
(* that found its listing live has ended before the grace has.              *)

Short == 2 * RequestSpan <= Grace

\* An update or a soft delete that has found its listing live and will write to it.
Writing(q) == Updating(q) \/ q.pc = "delete_write"

\* Both dates of a deletion are written together, the grace apart.
Dated(row) ==
    \/ row.deletedAt = Null /\ row.permanentAt = Null
    \/ row.deletedAt \in Nat /\ row.permanentAt = row.deletedAt + Grace

OnTime(q) ==
    /\ q.pc # "idle" => q.since <= now /\ now <= q.since + RequestSpan
    /\ q.pc = "delete_write" => q.at = q.since
    /\ Updating(q) => q.row.deletedAt = Null /\ q.row.permanentAt = Null
    /\ q.pc \in {"update_select", "update_write"} /\ q.seen # Null => Dated(q.seen)

\* What the tables hold of the listing of a request.
OnRow(q) ==
    /\ Writing(q) => q.b \in BizIds \ fresh
    /\ Writing(q) /\ Exists(q.b) /\ biz[q.b].deletedAt # Null =>
          q.since <= biz[q.b].deletedAt + RequestSpan
    /\ Writing(q) => q.b \in reprieved \/ (Exists(q.b) /\ q.b \notin job.todo)
    /\ RequestSpan = 0 /\ q.pc = "restore_write" =>
          /\ q.b \in BizIds \ fresh /\ Exists(q.b) /\ q.b \notin job.todo
          /\ biz[q.b].deletedAt # Null => biz[q.b].permanentAt >= now

DayInv ==
    /\ \A r \in Requests : OnTime(req[r]) /\ OnRow(req[r])
    /\ \A b \in job.todo : b \in reprieved \/ Expired(b)
    /\ \A b \in BizIds : Exists(b) => Dated(biz[b])
    /\ \A b \in fresh : ~Exists(b)
    /\ RequestSpan = 0 => reprieved = {}

\* What the step of a request does to the rows, as far as their days go.
RowsDay ==
    /\ UNCHANGED <<now, job>> /\ fresh' \subseteq fresh /\ reprieved \subseteq reprieved'
    /\ \A b \in job.todo : b \in reprieved' \/ Expired(b)'
    /\ \A b \in BizIds : Exists(b)' => Dated(biz[b])'
    /\ \A b \in fresh' : ~Exists(b)'
    /\ RequestSpan = 0 => reprieved' = {}
    /\ \A b \in BizIds \ fresh :
          /\ Exists(b) => Exists(b)'
          /\ Exists(b)' => \/ biz'[b].deletedAt = Null
                           \/ Exists(b) /\ biz'[b].deletedAt = biz[b].deletedAt
                           \/ biz'[b].deletedAt \in Nat /\ biz'[b].deletedAt + RequestSpan >= now

LEMMA SameRows ==
  ASSUME IInv, DayInv, UNCHANGED <<biz, fresh, now, job, reprieved>>
  PROVE  RowsDay
  BY DEF IInv, TypeOK, DayInv, RowsDay, Expired, Exists, Overdue, Dated

\* One row is written that the job has not listed, or whose days stay.
LEMMA OneRow ==
  ASSUME IInv, DayInv, UNCHANGED <<now, job>>, NEW b \in BizIds, NEW row \in BizRow,
         biz' = [biz EXCEPT ![b] = row], fresh' \subseteq fresh \ {b}, Dated(row),
         reprieved \subseteq reprieved', RequestSpan = 0 => reprieved' = {},
         b \in job.todo => \/ b \in reprieved'
                           \/ Exists(b) /\ row.deletedAt = biz[b].deletedAt,
         \/ b \in fresh
         \/ row.deletedAt = Null
         \/ Exists(b) /\ row.deletedAt = biz[b].deletedAt
         \/ row.deletedAt \in Nat /\ row.deletedAt + RequestSpan >= now
  PROVE  RowsDay
<1>1. biz'[b] = row /\ row # Null /\ \A c \in BizIds \ {b} : biz'[c] = biz[c]
  BY NullAssumption DEF IInv, TypeOK
<1>2. job.todo \subseteq BizIds /\ fresh \subseteq BizIds
  BY DEF IInv, TypeOK
<1>3. ASSUME NEW c \in BizIds, c # b
      PROVE  (Exists(c)' <=> Exists(c)) /\ (Expired(c)' <=> Expired(c))
             /\ (Dated(biz[c])' <=> Dated(biz[c]))
  BY <1>1, <1>3 DEF Exists, Expired, Overdue, Dated
<1>4. Exists(b)' /\ Dated(biz[b])'
  BY <1>1 DEF Exists, Dated
<1>5. \A c \in job.todo : c \in reprieved' \/ Expired(c)'
  <2>1. ASSUME Exists(b), row.deletedAt = biz[b].deletedAt, Expired(b) PROVE Expired(b)'
    <3>1. row.permanentAt = biz[b].permanentAt
      BY <2>1, NullAssumption DEF DayInv, Dated
    <3>2. QED
      BY <1>1, <1>4, <2>1, <3>1 DEF Expired, Overdue
  <2>2. QED
    BY <1>2, <1>3, <2>1 DEF DayInv
<1>6. \A c \in fresh' : ~Exists(c)'
  BY <1>2, <1>3 DEF DayInv
<1>7. \A c \in BizIds : Exists(c)' => Dated(biz[c])'
  BY <1>3, <1>4 DEF DayInv
<1>8. ASSUME NEW c \in BizIds \ fresh
      PROVE  /\ Exists(c) => Exists(c)'
             /\ Exists(c)' => \/ biz'[c].deletedAt = Null
                              \/ Exists(c) /\ biz'[c].deletedAt = biz[c].deletedAt
                              \/ /\ biz'[c].deletedAt \in Nat
                                 /\ biz'[c].deletedAt + RequestSpan >= now
  BY <1>1, <1>3, <1>4, <1>8
<1>9. QED
  BY <1>5, <1>6, <1>7, <1>8 DEF RowsDay

\* What the tables hold of a listing they hold on, whatever row is written.
LEMMA RowStays ==
  ASSUME IInv, DayInv, RowsDay, NEW p, OnRow(p),
         p.since \in Nat, Writing(p) \/ p.pc = "restore_write" => p.since <= now
  PROVE  OnRow(p)'
<1> DEFINE c == p.b
<1>1. /\ now \in Nat /\ RequestSpan \in Nat /\ Grace \in Nat /\ now' = now /\ job' = job
      /\ fresh' \subseteq fresh /\ reprieved \subseteq reprieved'
  BY ConstantsAssumption DEF IInv, TypeOK, RowsDay
<1>2. CASE Writing(p)
  <2>1. /\ c \in BizIds \ fresh /\ p.since <= now
        /\ Exists(c) /\ biz[c].deletedAt # Null => p.since <= biz[c].deletedAt + RequestSpan
        /\ c \in reprieved \/ (Exists(c) /\ c \notin job.todo)
    BY <1>2 DEF OnRow
  <2>2. /\ Exists(c) => Exists(c)'
        /\ Exists(c)' => \/ biz'[c].deletedAt = Null
                         \/ Exists(c) /\ biz'[c].deletedAt = biz[c].deletedAt
                         \/ /\ biz'[c].deletedAt \in Nat
                            /\ biz'[c].deletedAt + RequestSpan >= now
    BY <2>1 DEF RowsDay
  <2>3. ASSUME Exists(c)', biz'[c].deletedAt # Null
        PROVE  p.since <= biz'[c].deletedAt + RequestSpan
    <3>1. CASE Exists(c) /\ biz'[c].deletedAt = biz[c].deletedAt
      BY <2>1, <2>3, <3>1
    <3>2. CASE biz'[c].deletedAt \in Nat /\ biz'[c].deletedAt + RequestSpan >= now
      BY <1>1, <2>1, <3>2
    <3>3. QED
      BY <2>2, <2>3, <3>1, <3>2
  <2>4. p.pc # "restore_write"
    BY <1>2 DEF Writing, Updating, UpdatePcs
  <2>5. QED
    BY <1>1, <2>1, <2>2, <2>3, <2>4 DEF OnRow
<1>3. CASE ~Writing(p) /\ RequestSpan = 0 /\ p.pc = "restore_write"
  <2>1. /\ c \in BizIds \ fresh /\ Exists(c) /\ c \notin job.todo
        /\ biz[c].deletedAt # Null => biz[c].permanentAt >= now
    BY <1>3 DEF OnRow
  <2>2. /\ Exists(c)' /\ Dated(biz[c]) /\ Dated(biz[c])'
        /\ \/ biz'[c].deletedAt = Null
           \/ biz'[c].deletedAt = biz[c].deletedAt
           \/ biz'[c].deletedAt \in Nat /\ biz'[c].deletedAt + RequestSpan >= now
    BY <2>1 DEF RowsDay, DayInv
  <2>3. biz'[c].deletedAt # Null => biz'[c].permanentAt >= now
    <3>1. CASE biz'[c].deletedAt = biz[c].deletedAt
      BY <2>1, <2>2, <3>1, NullAssumption DEF Dated
    <3>2. CASE biz'[c].deletedAt \in Nat /\ biz'[c].deletedAt + RequestSpan >= now
      BY <1>1, <1>3, <2>2, <3>2, NullAssumption DEF Dated
    <3>3. QED
      BY <2>2, <3>1, <3>2
  <2>4. QED
    BY <1>1, <1>3, <2>1, <2>2, <2>3 DEF OnRow
<1>4. CASE ~Writing(p) /\ ~ (RequestSpan = 0 /\ p.pc = "restore_write")
  BY <1>4 DEF OnRow
<1>5. QED
  BY <1>2, <1>3, <1>4

\* One request moves on and becomes q.
LEMMA OneGoesOn ==
  ASSUME IInv, DayInv, RowsDay, NEW r \in Requests, NEW q,
         req' = [req EXCEPT ![r] = q], OnTime(q)', OnRow(q)'
  PROVE  DayInv'
<1>1. req'[r] = q /\ \A s \in Requests \ {r} : req'[s] = req[s]
  BY DEF IInv, TypeOK
<1>2. OnTime(req[r])' /\ OnRow(req[r])'
  BY <1>1 DEF OnTime, OnRow
<1>3. ASSUME NEW s \in Requests, s # r PROVE OnTime(req[s])' /\ OnRow(req[s])'
  <2>1. PICK p : p = req[s]
    OBVIOUS
  <2>2. OnTime(p) /\ OnRow(p) /\ req'[s] = p /\ p.since \in Nat
    BY <1>1, <1>3, <2>1 DEF DayInv, IInv, TypeOK, Request
  <2>3. OnTime(p)'
    BY <2>2 DEF OnTime, Dated, RowsDay
  <2>4. Writing(p) \/ p.pc = "restore_write" => p.since <= now
    BY <2>2 DEF OnTime, Writing, Updating, UpdatePcs
  <2>5. OnRow(p)'
    BY <2>2, <2>4, RowStays
  <2>6. QED
    BY <2>2, <2>3, <2>5 DEF OnTime, OnRow
<1>4. QED
  BY <1>2, <1>3 DEF DayInv, RowsDay

\* A request goes on with what it found, or has nothing to write any more.
LEMMA GoesOn ==
  ASSUME IInv, DayInv, RowsDay, NEW r \in Requests, NEW q,
         req' = [req EXCEPT ![r] = q],
         q.pc = "idle" \/ (req[r].pc # "idle" /\ q.since = req[r].since),
         q.pc \notin {"delete_write", "restore_write"},
         Updating(q) => Updating(req[r]) /\ q.b = req[r].b /\ q.row = req[r].row,
         q.pc \in {"update_select", "update_write"} /\ q.seen # Null => Dated(q.seen)
  PROVE  DayInv'
<1>1. PICK p : p = req[r]
  OBVIOUS
<1>2. OnTime(p) /\ OnRow(p) /\ p.since \in Nat
  BY <1>1 DEF DayInv, IInv, TypeOK, Request
<1>3. q.pc # "idle" => p.pc # "idle" /\ q.since = p.since
  BY <1>1
<1>4. Writing(q) => Updating(q) /\ Updating(p) /\ q.b = p.b /\ q.row = p.row /\ q.since = p.since
  BY <1>1, <1>3 DEF Writing, Updating, UpdatePcs
<1>5. OnTime(q)'
  <2>1. now' = now
    BY DEF RowsDay
  <2>2. Updating(q) => q.row.deletedAt = Null /\ q.row.permanentAt = Null
    BY <1>2, <1>4 DEF OnTime, Writing
  <2>3. q.pc # "idle" => q.since <= now /\ now <= q.since + RequestSpan
    BY <1>2, <1>3 DEF OnTime
  <2>4. QED
    BY <2>1, <2>2, <2>3 DEF OnTime, Dated
<1>6. OnRow(q)'
  <2>1. Writing(p) \/ p.pc = "restore_write" => p.since <= now
    BY <1>2 DEF OnTime, Writing, Updating, UpdatePcs
  <2>2. OnRow(p)'
    BY <1>2, <2>1, RowStays
  <2>3. Writing(q) => Writing(p) /\ q.b = p.b /\ q.since = p.since
    BY <1>4 DEF Writing
  <2>4. QED
    BY <2>2, <2>3 DEF OnRow
<1>7. QED
  BY <1>5, <1>6, OneGoesOn

----------------------------------------------------------------------------
LEMMA LoadDay ==
  ASSUME IInv, DayInv, NEW r \in Requests,
         \/ \E o \in Owners, n \in Names : CreateCount(r, o, n)
         \/ \E b \in BizIds : \/ UpdateLoad(r, b) \/ SoftDeleteLoad(r, b) \/ RestoreLoad(r, b)
                              \/ ApproveLoad(r, b)
  PROVE  DayInv'
<1>1. UNCHANGED <<biz, fresh, now, job, reprieved>> /\ now \in Nat /\ RequestSpan \in Nat
  <2>1. UNCHANGED db /\ UNCHANGED <<now, job>> /\ UNCHANGED past
    BY DEF CreateCount, UpdateLoad, SoftDeleteLoad, RestoreLoad, ApproveLoad
  <2>2. QED
    BY <2>1, ConstantsAssumption DEF db, past, IInv, TypeOK
<1>2. RowsDay
  BY <1>1, SameRows
<1>3. ASSUME NEW b \in BizIds, Live(b)
      PROVE  /\ Exists(b)' /\ biz'[b].deletedAt = Null /\ b \in BizIds \ fresh'
             /\ b \in reprieved' \/ b \notin job'.todo
  BY <1>1, <1>3 DEF Live, Exists, DayInv, Expired
<1>4. CASE \E o \in Owners, n \in Names : CreateCount(r, o, n)
  <2>1. PICK o \in Owners, n \in Names : CreateCount(r, o, n)
    BY <1>4
  <2>2. PICK q : q = [Started("create", "probe", Null) EXCEPT !.owner = o, !.slug = <<n, 0>>]
    OBVIOUS
  <2>3. q.pc = "probe" /\ q.kind = "create" /\ q.since = now
    BY <2>2 DEF Started
  <2>4. req' = [req EXCEPT ![r] = q]
    BY <2>1, <2>2 DEF CreateCount
  <2>5. OnTime(q)' /\ OnRow(q)'
    BY <1>1, <2>3 DEF OnTime, OnRow, Writing, Updating, UpdatePcs
  <2>6. QED
    BY <1>2, <2>4, <2>5, OneGoesOn
<1>5. ASSUME NEW b \in BizIds, UpdateLoad(r, b) PROVE DayInv'
  <2>1. PICK q : /\ req' = [req EXCEPT ![r] = q]
                 /\ q.pc \in {"update_save", "probe"} /\ q.kind = "update" /\ q.b = b
                 /\ q.since = now /\ q.row = biz[b]
    <3>1. PICK n \in Names \cup {Null} :
             req' = [req EXCEPT ![r] =
                   [Started("update", IF n = Null THEN "update_save" ELSE "probe", b)
                      EXCEPT !.row = biz[b], !.card = card[b],
                             !.slug = IF n = Null THEN biz[b].slug ELSE <<n, 0>>]]
      BY <1>5 DEF UpdateLoad
    <3>2. WITNESS [Started("update", IF n = Null THEN "update_save" ELSE "probe", b)
                      EXCEPT !.row = biz[b], !.card = card[b],
                             !.slug = IF n = Null THEN biz[b].slug ELSE <<n, 0>>]
    <3>3. QED
      BY <3>1 DEF Started
  <2>2. Live(b)
    BY <1>5 DEF UpdateLoad
  <2>3. q.row.deletedAt = Null /\ q.row.permanentAt = Null
    BY <2>1, <2>2, NullAssumption DEF Live, DayInv, Dated
  <2>4. OnTime(q)' /\ OnRow(q)'
    BY <1>1, <1>3, <2>1, <2>2, <2>3 DEF OnTime, OnRow
  <2>5. QED
    BY <1>2, <2>1, <2>4, OneGoesOn
<1>6. ASSUME NEW b \in BizIds, SoftDeleteLoad(r, b) PROVE DayInv'
  <2>1. PICK q : q = [Started("softDelete", "delete_write", b) EXCEPT !.at = now]
    OBVIOUS
  <2>2. /\ q.pc = "delete_write" /\ q.kind = "softDelete" /\ q.b = b /\ Live(b)
        /\ q.since = now /\ q.at = now /\ req' = [req EXCEPT ![r] = q]
    BY <2>1, <1>6 DEF Started, SoftDeleteLoad
  <2>3. ~Updating(q)
    BY <2>2 DEF Updating, UpdatePcs
  <2>4. OnTime(q)' /\ OnRow(q)'
    BY <1>1, <1>3, <2>2, <2>3 DEF OnTime, OnRow
  <2>5. QED
    BY <1>2, <2>2, <2>4, OneGoesOn
<1>7. ASSUME NEW b \in BizIds, RestoreLoad(r, b) PROVE DayInv'
  <2>1. PICK q : q = Started("restore", "restore_write", b)
    OBVIOUS
  <2>2. /\ q.pc = "restore_write" /\ q.kind = "restore" /\ q.b = b /\ Restorable(b)
        /\ q.since = now /\ req' = [req EXCEPT ![r] = q]
    BY <2>1, <1>7 DEF Started, RestoreLoad
  <2>3. ~Updating(q) /\ ~Writing(q)
    BY <2>2 DEF Writing, Updating, UpdatePcs
  <2>4. /\ Exists(b)' /\ b \in BizIds \ fresh'
        /\ biz'[b].deletedAt # Null => biz'[b].permanentAt >= now'
    <3>1. Exists(b) /\ Dated(biz[b]) /\ ~ (biz[b].permanentAt # Null /\ biz[b].permanentAt < now)
      BY <2>2 DEF Restorable, Overdue, DayInv
    <3>2. biz[b].deletedAt # Null => biz[b].permanentAt \in Nat
      BY <3>1, ConstantsAssumption DEF Dated
    <3>3. QED
      BY <1>1, <3>1, <3>2, NullAssumption DEF Exists, DayInv
  <2>5. RequestSpan = 0 => b \notin job'.todo
    BY <1>1, <2>2 DEF DayInv, Expired, Restorable
  <2>6. OnTime(q)' /\ OnRow(q)'
    BY <1>1, <2>2, <2>3, <2>4, <2>5 DEF OnTime, OnRow
  <2>7. QED
    BY <1>2, <2>2, <2>6, OneGoesOn
<1>8. ASSUME NEW b \in BizIds, ApproveLoad(r, b) PROVE DayInv'
  <2>1. PICK q : q = Started("approve", "approve_write", b)
    OBVIOUS
  <2>2. /\ q.pc = "approve_write" /\ q.kind = "approve"
        /\ q.since = now /\ req' = [req EXCEPT ![r] = q]
    BY <2>1, <1>8 DEF Started, ApproveLoad
  <2>3. OnTime(q)' /\ OnRow(q)'
    BY <1>1, <2>2 DEF OnTime, OnRow, Writing, Updating, UpdatePcs
  <2>4. QED
    BY <1>2, <2>2, <2>3, OneGoesOn
<1>9. QED
  BY <1>4, <1>5, <1>6, <1>7, <1>8

\* A request ends, or goes to write its audit entry or the slug of the card.
LEMMA EndsDay ==
  ASSUME IInv, DayInv, RowsDay, NEW r \in Requests, req[r].pc # "idle",
         \/ Finish(r)
         \/ \E pc \in {"audit", "update_card"} : \E slug, act : Wrote(r, pc, slug, act)
  PROVE  DayInv'
<1>1. PICK q : /\ req' = [req EXCEPT ![r] = q]
               /\ \/ q = Idle
                  \/ \E pc \in {"audit", "update_card"} : \E slug, act :
                        q = [Idle EXCEPT !.pc = pc, !.kind = req[r].kind, !.b = req[r].b,
                                         !.slug = slug, !.act = act, !.since = req[r].since]
  BY DEF Finish, Wrote
<1>2. \/ q.pc = "idle"
      \/ q.pc \in {"audit", "update_card"} /\ q.since = req[r].since
  <2>1. CASE q = Idle
    BY <2>1 DEF Idle
  <2>2. ASSUME NEW pc \in {"audit", "update_card"}, NEW slug, NEW act,
               q = [Idle EXCEPT !.pc = pc, !.kind = req[r].kind, !.b = req[r].b,
                                !.slug = slug, !.act = act, !.since = req[r].since]
        PROVE  q.pc = pc /\ q.since = req[r].since
    BY <2>2 DEF Idle
  <2>3. QED
    BY <1>1, <2>1, <2>2
<1>3. ~Updating(q)
  BY <1>2 DEF Updating, UpdatePcs
<1>4. QED
  BY <1>1, <1>2, <1>3, GoesOn

\* The steps that write no row.
LEMMA QuietDay ==
  ASSUME IInv, DayInv, NEW r \in Requests,
         \/ ProbeTaken(r) \/ ProbeFree(r) \/ CreateCard(r) \/ UpdateRedirect(r)
         \/ UpdateReject(r) \/ UpdateSelect(r) \/ UpdateSelectCard(r) \/ UpdateCard(r)
         \/ AuditLog(r) \/ Conflict(r) \/ Fail(r)
  PROVE  DayInv'
<1>1. /\ UNCHANGED <<biz, fresh, now, job, reprieved>> /\ req[r].pc # "idle"
      /\ req[r] \in Request /\ LocalsOf(req[r])
  <2>1. req[r].pc # "idle"
    BY DEF ProbeTaken, ProbeFree, CreateCard, UpdateRedirect, UpdateReject, UpdateSelect,
       UpdateSelectCard, UpdateCard, AuditLog, Conflict, Fail, BreaksConstraint, At
  <2>2. UNCHANGED <<biz, fresh, now, job>> /\ UNCHANGED past
    BY DEF ProbeTaken, ProbeFree, CreateCard, UpdateRedirect, UpdateReject, UpdateSelect,
       UpdateSelectCard, UpdateCard, AuditLog, Conflict, Fail, db
  <2>3. QED
    BY <2>1, <2>2 DEF past, IInv, TypeOK, LocalsOK
<1>2. RowsDay
  BY <1>1, SameRows
<1>3. CASE \/ UpdateReject(r) \/ AuditLog(r) \/ Conflict(r) \/ Fail(r)
           \/ CreateCard(r) \/ UpdateCard(r)
  BY <1>1, <1>2, <1>3, EndsDay
  DEF UpdateReject, AuditLog, Conflict, Fail, CreateCard, UpdateCard, ToAudit
<1>4. CASE ProbeTaken(r)
  <2>1. PICK q : q = [req[r] EXCEPT !.slug = <<@[1], @[2] + 1>>]
    OBVIOUS
  <2>2. /\ q.kind = req[r].kind /\ q.row = req[r].row /\ q.b = req[r].b /\ req[r].pc = "probe"
        /\ q.since = req[r].since /\ q.pc = "probe" /\ req' = [req EXCEPT ![r] = q]
    BY <2>1, <1>1, <1>4 DEF Request, ProbeTaken, At
  <2>3. Updating(q) => Updating(req[r])
    BY <2>2 DEF Updating
  <2>4. QED
    BY <1>1, <1>2, <2>2, <2>3, GoesOn
<1>5. CASE ProbeFree(r) \/ UpdateRedirect(r)
  <2>1. PICK pc \in {"create_save", "update_save", "update_redirect"} :
            /\ Goto(r, pc) /\ req[r].pc \in {"probe", "update_redirect"}
            /\ pc # "create_save" => Updating(req[r])
    BY <1>1, <1>5
    DEF ProbeFree, AfterProbe, UpdateRedirect, At, Updating, UpdatePcs, LocalsOf
  <2>2. PICK q : q = [req[r] EXCEPT !.pc = pc]
    OBVIOUS
  <2>3. /\ q.kind = req[r].kind /\ q.row = req[r].row /\ q.b = req[r].b
        /\ q.since = req[r].since /\ q.pc = pc /\ req' = [req EXCEPT ![r] = q]
    BY <2>1, <2>2, <1>1 DEF Request, Goto
  <2>4. Updating(q) => Updating(req[r])
    BY <2>1, <2>3 DEF Updating, UpdatePcs
  <2>5. QED
    BY <1>1, <1>2, <2>1, <2>3, <2>4, GoesOn
<1>6. CASE UpdateSelect(r)
  <2>1. PICK q : q = [req[r] EXCEPT !.pc = "update_select", !.seen = biz[req[r].b]]
    OBVIOUS
  <2>2. /\ q.row = req[r].row /\ q.b = req[r].b /\ q.seen = biz[req[r].b]
        /\ q.since = req[r].since /\ q.pc = "update_select" /\ req' = [req EXCEPT ![r] = q]
    BY <2>1, <1>1, <1>6 DEF Request, UpdateSelect
  <2>3. Updating(req[r]) /\ req[r].b \in BizIds
    BY <1>1, <1>6 DEF Updating, UpdatePcs, UpdateSelect, At, LocalsOf
  <2>4. q.seen # Null => Dated(q.seen)
    BY <2>2, <2>3 DEF DayInv, Exists
  <2>5. QED
    BY <1>1, <1>2, <2>2, <2>3, <2>4, GoesOn
<1>7. CASE UpdateSelectCard(r)
  <2>1. PICK q : q = [req[r] EXCEPT !.pc = "update_write", !.seenCard = card[req[r].b]]
    OBVIOUS
  <2>2. /\ q.row = req[r].row /\ q.b = req[r].b /\ q.seen = req[r].seen
        /\ q.since = req[r].since /\ q.pc = "update_write" /\ req' = [req EXCEPT ![r] = q]
        /\ req[r].pc = "update_select"
    BY <2>1, <1>1, <1>7 DEF Request, UpdateSelectCard, At
  <2>3. Updating(req[r])
    BY <2>2 DEF Updating, UpdatePcs
  <2>4. q.seen # Null => Dated(q.seen)
    BY <2>2 DEF DayInv, OnTime
  <2>5. QED
    BY <1>1, <1>2, <2>2, <2>3, <2>4, GoesOn
<1>8. QED
  BY <1>3, <1>4, <1>5, <1>6, <1>7

\* What an update stores: a live row, or one with the dates of the stored row.
LEMMA SavedDates ==
  ASSUME IInv, DayInv, NEW r \in Requests, UpdateWrite(r)
  PROVE  /\ Writing(req[r]) /\ req[r].b \in BizIds \ fresh
         /\ \/ UNCHANGED biz /\ biz[req[r].b] = Null
            \/ \E row \in BizRow :
                 /\ biz' = [biz EXCEPT ![req[r].b] = row] /\ Dated(row)
                 /\ \/ row.deletedAt = Null
                    \/ Exists(req[r].b) /\ row.deletedAt = biz[req[r].b].deletedAt
<1>1. PICK q : q = req[r]
  OBVIOUS
<1>2. /\ q \in Request /\ LocalsOf(q) /\ OnTime(q) /\ OnRow(q) /\ q.pc = "update_write"
      /\ biz' = [biz EXCEPT ![q.b] = SavedRow(q)] /\ biz \in [BizIds -> BizRow \cup {Null}]
  BY <1>1 DEF UpdateWrite, At, IInv, TypeOK, LocalsOK, DayInv
<1>3. /\ Updating(q) /\ Writing(q) /\ q.b \in BizIds \ fresh /\ q.row \in BizRow /\ q.slug \in Slugs
      /\ q.row.deletedAt = Null /\ q.row.permanentAt = Null
  BY <1>2 DEF Updating, Writing, UpdatePcs, SlugPcs, LocalsOf, OnTime, OnRow
<1>4. CASE q.seen = Null
  <2>1. SavedRow(q) = [q.row EXCEPT !.slug = q.slug]
    BY <1>3, <1>4, SavedWhole
  <2>2. PICK row : row = SavedRow(q)
    OBVIOUS
  <2>3. row \in BizRow /\ row.deletedAt = Null /\ row.permanentAt = Null
    BY <1>3, <2>1, <2>2 DEF BizRow
  <2>4. QED
    BY <1>1, <1>2, <1>3, <2>2, <2>3 DEF Dated
<1>5. CASE q.seen # Null /\ biz[q.b] = Null
  <2>1. SavedRow(q) = Null
    BY <1>5 DEF SavedRow, Saved
  <2>2. UNCHANGED biz
    BY <1>2, <1>3, <1>5, <2>1
  <2>3. QED
    BY <1>1, <1>3, <1>5, <2>2
<1>6. CASE q.seen # Null /\ biz[q.b] # Null
  <2>1. PICK row : row = SavedRow(q)
    OBVIOUS
  <2>2. biz[q.b] \in BizRow /\ Dated(biz[q.b]) /\ Dated(q.seen)
    BY <1>2, <1>3, <1>6 DEF DayInv, Exists, OnTime
  <2>3. /\ row \in BizRow
        /\ row.deletedAt = IF Null = q.seen.deletedAt THEN biz[q.b].deletedAt ELSE Null
        /\ row.permanentAt = IF Null = q.seen.permanentAt THEN biz[q.b].permanentAt ELSE Null
    BY <1>2, <1>3, <1>6, <2>1, <2>2, SavedColumns
  <2>4. q.seen.deletedAt = Null <=> q.seen.permanentAt = Null
    BY <2>2, NullAssumption, ConstantsAssumption DEF Dated
  <2>5. Dated(row)
    BY <2>2, <2>3, <2>4 DEF Dated
  <2>6. QED
    BY <1>1, <1>2, <1>3, <1>6, <2>1, <2>3, <2>5 DEF Exists
<1>7. QED
  BY <1>4, <1>5, <1>6

\* The steps that write a row.
LEMMA WriteDay ==
  ASSUME IInv, DayInv, NEW r \in Requests,
         \/ CreateSave(r) \/ UpdateWrite(r) \/ SoftDeleteWrite(r) \/ RestoreWrite(r)
         \/ ApproveWrite(r) \/ \E b \in BizIds : FlagWrite(r, b)
  PROVE  RowsDay
<1>1. /\ UNCHANGED <<now, job>> /\ LocalsOf(req[r]) /\ req[r] \in Request /\ now \in 0 .. MaxTime
      /\ OnTime(req[r]) /\ OnRow(req[r]) /\ (RequestSpan = 0 => reprieved = {})
  BY DEF CreateSave, UpdateWrite, SoftDeleteWrite, RestoreWrite, ApproveWrite, FlagWrite,
     IInv, TypeOK, LocalsOK, DayInv
<1> DEFINE c == req[r].b
<1>2. CASE CreateSave(r)
  <2> DEFINE row == [owner |-> req[r].owner, slug |-> req[r].slug, status |-> "pending",
                     verified |-> FALSE, deletedAt |-> Null, permanentAt |-> Null]
  <2>1. PICK b \in fresh : fresh' = fresh \ {b} /\ biz' = [biz EXCEPT ![b] = row]
    BY <1>2 DEF CreateSave
  <2>2. row \in BizRow /\ row.deletedAt = Null /\ Dated(row)
    BY <1>1, <1>2 DEF CreateSave, At, LocalsOf, SlugPcs, BizRow, Statuses, Dated
  <2>3. b \in BizIds /\ (b \in job.todo => b \in reprieved)
    BY DEF IInv, TypeOK, DayInv, Expired
  <2>4. UNCHANGED reprieved
    BY <1>2 DEF CreateSave, past
  <2> HIDE DEF row
  <2>5. QED
    BY <1>1, <2>1, <2>2, <2>3, <2>4, OneRow
<1>3. CASE UpdateWrite(r)
  <2>1. UNCHANGED fresh /\ UNCHANGED reprieved
    BY <1>3 DEF UpdateWrite
  <2>2. Writing(req[r]) /\ c \in BizIds \ fresh /\ (c \in job.todo => c \in reprieved)
    BY <1>1, <1>3, SavedDates DEF OnRow
  <2>3. CASE UNCHANGED biz
    BY <1>1, <2>1, <2>3, SameRows
  <2>4. ASSUME NEW row \in BizRow, biz' = [biz EXCEPT ![c] = row], Dated(row),
               row.deletedAt = Null \/ (Exists(c) /\ row.deletedAt = biz[c].deletedAt)
        PROVE  RowsDay
    <3>1. fresh' \subseteq fresh \ {c}
      BY <2>1, <2>2
    <3>2. QED
      BY <1>1, <2>1, <2>2, <2>4, <3>1, OneRow
  <2>5. QED
    BY <1>3, <2>3, <2>4, SavedDates
<1>4. CASE SoftDeleteWrite(r)
  <2>1. Writing(req[r]) /\ req[r].at \in Nat /\ req[r].at + RequestSpan >= now
    BY <1>1, <1>4 DEF SoftDeleteWrite, At, Writing, OnTime, Request
  <2>2. c \in BizIds \ fresh /\ (c \in job.todo => c \in reprieved)
    BY <1>1, <2>1 DEF OnRow
  <2>3. UNCHANGED fresh /\ UNCHANGED reprieved
    BY <1>4 DEF SoftDeleteWrite, past
  <2>4. CASE ~Exists(c)
    BY <1>1, <1>4, <2>3, <2>4, SameRows DEF SoftDeleteWrite
  <2>5. CASE Exists(c)
    <3>1. biz[c] \in BizRow /\ req[r].at \in 0 .. MaxTime
      BY <1>1, <2>2, <2>5 DEF Exists, IInv, TypeOK, Request
    <3>2. PICK row : row = DeletedRow(biz[c], req[r].at)
      OBVIOUS
    <3>3. row \in BizRow /\ biz' = [biz EXCEPT ![c] = row]
      BY <1>4, <2>5, <3>1, <3>2, DeletedRowOK DEF SoftDeleteWrite
    <3>4. row.deletedAt = req[r].at /\ row.permanentAt = req[r].at + Grace
      BY <3>1, <3>2 DEF DeletedRow, BizRow, GraceEnd
    <3>5. Dated(row) /\ fresh' \subseteq fresh \ {c}
      BY <2>1, <2>2, <2>3, <3>4 DEF Dated
    <3>6. row.deletedAt \in Nat /\ row.deletedAt + RequestSpan >= now
      BY <2>1, <3>4
    <3> HIDE <3>2
    <3>7. QED
      BY <1>1, <2>2, <2>3, <3>3, <3>5, <3>6, OneRow
  <2>6. QED
    BY <2>4, <2>5
<1>5. CASE RestoreWrite(r)
  <2>1. /\ c \in BizIds /\ UNCHANGED fresh
        /\ reprieved' = IF c \in job.todo /\ Exists(c) THEN reprieved \cup {c} ELSE reprieved
        /\ req[r].pc = "restore_write"
    BY <1>1, <1>5 DEF RestoreWrite, At, LocalsOf, BizPcs
  <2>2. RequestSpan = 0 => reprieved' = {}
    BY <1>1, <2>1 DEF OnRow
  <2>3. CASE ~Exists(c)
    BY <1>1, <1>5, <2>1, <2>3, SameRows DEF RestoreWrite
  <2>4. CASE Exists(c)
    <3>1. biz[c] \in BizRow
      BY <2>1, <2>4 DEF Exists, IInv, TypeOK
    <3>2. PICK row : row = RestoredRow(biz[c])
      OBVIOUS
    <3>3. /\ row \in BizRow /\ row.deletedAt = Null /\ Dated(row)
          /\ biz' = [biz EXCEPT ![c] = row]
      BY <1>5, <2>4, <3>1, <3>2, RestoredRowOK DEF RestoreWrite, RestoredRow, BizRow, Dated
    <3>4. fresh' \subseteq fresh \ {c}
      BY <2>1, <2>4 DEF DayInv
    <3>5. (c \in job.todo => c \in reprieved') /\ reprieved \subseteq reprieved'
      BY <2>1, <2>4
    <3> HIDE <3>2
    <3>6. QED
      BY <1>1, <2>1, <2>2, <3>3, <3>4, <3>5, OneRow
  <2>5. QED
    BY <2>3, <2>4
<1>6. ASSUME NEW b \in BizIds, Exists(b), NEW row \in BizRow, biz' = [biz EXCEPT ![b] = row],
             row.deletedAt = biz[b].deletedAt, row.permanentAt = biz[b].permanentAt,
             UNCHANGED fresh, UNCHANGED reprieved
      PROVE  RowsDay
  <2>1. fresh' \subseteq fresh \ {b} /\ Dated(row)
    BY <1>6 DEF DayInv, Dated
  <2>2. QED
    BY <1>1, <1>6, <2>1, OneRow
<1>7. CASE ApproveWrite(r)
  <2>1. UNCHANGED fresh /\ UNCHANGED reprieved
    BY <1>7 DEF ApproveWrite, past
  <2>2. CASE ~Exists(c)
    BY <1>1, <1>7, <2>1, <2>2, SameRows DEF ApproveWrite
  <2>3. CASE Exists(c)
    <3>1. c \in BizIds /\ biz[c] \in BizRow
      BY <1>1, <1>7, <2>3 DEF ApproveWrite, At, LocalsOf, BizPcs, Exists, IInv, TypeOK
    <3>2. /\ ApprovedRow(biz[c]) \in BizRow
          /\ ApprovedRow(biz[c]).deletedAt = biz[c].deletedAt
          /\ ApprovedRow(biz[c]).permanentAt = biz[c].permanentAt
      BY <3>1, ApprovedRowOK DEF ApprovedRow, BizRow
    <3>3. biz' = [biz EXCEPT ![c] = ApprovedRow(biz[c])]
      BY <1>7, <2>3 DEF ApproveWrite
    <3>4. QED
      BY <1>1, <1>6, <2>1, <2>3, <3>1, <3>2, <3>3
  <2>4. QED
    BY <2>2, <2>3
<1>8. ASSUME NEW b \in BizIds, FlagWrite(r, b) PROVE RowsDay
  <2>1. UNCHANGED fresh /\ UNCHANGED reprieved
    BY <1>8 DEF FlagWrite, past
  <2>2. CASE ~Exists(b)
    BY <1>1, <1>8, <2>1, <2>2, SameRows DEF FlagWrite
  <2>3. CASE Exists(b)
    <3> DEFINE row == [biz[b] EXCEPT !.status = "flagged"]
    <3>1. biz[b] \in BizRow
      BY <2>3 DEF Exists, IInv, TypeOK
    <3>2. row \in BizRow /\ row.deletedAt = biz[b].deletedAt /\ row.permanentAt = biz[b].permanentAt
      BY <3>1, FlaggedRowOK DEF BizRow
    <3>3. biz' = [biz EXCEPT ![b] = row]
      BY <1>8, <2>3 DEF FlagWrite
    <3> HIDE DEF row
    <3>4. QED
      BY <1>6, <2>1, <2>3, <3>2, <3>3
  <2>4. QED
    BY <2>2, <2>3
<1>9. QED
  BY <1>2, <1>3, <1>4, <1>5, <1>7, <1>8

\* Having written, a request has no row left to write.
LEMMA WrittenDay ==
  ASSUME IInv, DayInv, NEW r \in Requests,
         \/ CreateSave(r) \/ UpdateWrite(r) \/ SoftDeleteWrite(r) \/ RestoreWrite(r)
         \/ ApproveWrite(r) \/ \E b \in BizIds : FlagWrite(r, b)
  PROVE  DayInv'
<1>1. RowsDay /\ req[r] \in Request /\ now' = now
  BY WriteDay DEF IInv, TypeOK, RowsDay
<1>2. CASE CreateSave(r)
  <2>1. PICK b \in fresh : req' = [req EXCEPT ![r].pc = "create_card", ![r].b = b]
    BY <1>2 DEF CreateSave
  <2>2. PICK q : q = [req[r] EXCEPT !.pc = "create_card", !.b = b]
    OBVIOUS
  <2>3. q.pc = "create_card" /\ q.since = req[r].since
    BY <1>1, <2>2 DEF Request
  <2>4. req' = [req EXCEPT ![r] = q] /\ req[r].pc # "idle"
    BY <1>2, <2>1, <2>2 DEF CreateSave, At
  <2>5. ~Updating(q)
    BY <2>3 DEF Updating, UpdatePcs
  <2>6. QED
    BY <1>1, <2>3, <2>4, <2>5, GoesOn
<1>3. CASE UpdateWrite(r) \/ SoftDeleteWrite(r) \/ ApproveWrite(r) \/ RestoreWrite(r)
  <2>1. req[r].pc # "idle"
    BY <1>3 DEF UpdateWrite, SoftDeleteWrite, ApproveWrite, RestoreWrite, At
  <2>2. \/ Finish(r)
        \/ \E pc \in {"audit", "update_card"} : \E slug, act : Wrote(r, pc, slug, act)
    BY <1>3 DEF UpdateWrite, SoftDeleteWrite, ApproveWrite, RestoreWrite, ToAudit
  <2>3. QED
    BY <1>1, <2>1, <2>2, EndsDay
<1>4. ASSUME NEW b \in BizIds, FlagWrite(r, b) PROVE DayInv'
  <2>1. PICK q : q = [Started("flag", "audit", b) EXCEPT !.act = "flagged"]
    OBVIOUS
  <2>2. q.pc = "audit" /\ q.kind = "flag" /\ q.since = now /\ req' = [req EXCEPT ![r] = q]
    BY <1>4, <2>1 DEF Started, FlagWrite
  <2>3. now \in Nat /\ RequestSpan \in Nat
    BY ConstantsAssumption DEF IInv, TypeOK
  <2>4. OnTime(q)' /\ OnRow(q)'
    BY <1>1, <2>2, <2>3 DEF OnTime, OnRow, Writing, Updating, UpdatePcs
  <2>5. QED
    BY <1>1, <2>2, <2>4, OneGoesOn
<1>5. QED
  BY <1>2, <1>3, <1>4

\* A request that may still write to a listing that has expired was overtaken by its
\* restore: it began before the soft delete was written, and has ended before the grace.
LEMMA WritesInGrace ==
  ASSUME Short, IInv, DayInv, NEW r \in Requests, Writing(req[r])
  PROVE  req[r].b \in BizIds /\ ~Expired(req[r].b)
<1> DEFINE p == req[r]
           b == p.b
<1>1. OnTime(p) /\ OnRow(p) /\ p \in Request /\ now \in Nat
  BY DEF DayInv, IInv, TypeOK
<1>2. b \in BizIds /\ p.since \in Nat /\ now <= p.since + RequestSpan
  BY <1>1 DEF OnRow, OnTime, Writing, Updating, UpdatePcs, Request
<1>3. SUFFICES ASSUME Exists(b), biz[b].deletedAt # Null, Overdue(b) PROVE FALSE
  BY <1>2 DEF Expired
<1>4. /\ biz[b].deletedAt \in Nat /\ biz[b].permanentAt = biz[b].deletedAt + Grace
      /\ p.since <= biz[b].deletedAt + RequestSpan /\ biz[b].permanentAt < now
  BY <1>1, <1>2, <1>3 DEF DayInv, Dated, OnRow, Overdue
<1> HIDE DEF b, p
<1>5. QED
  BY <1>1, <1>2, <1>4, ConstantsAssumption DEF Short

\* The job lists what is expired, and deletes it.
LEMMA JobDay ==
  ASSUME Short, IInv, DayInv, Job
  PROVE  DayInv'
<1>1. /\ UNCHANGED <<req, now, fresh, reprieved>>
      /\ fresh \subseteq BizIds /\ job.todo \subseteq BizIds
      /\ biz \in [BizIds -> BizRow \cup {Null}]
      /\ job \in [pc: {"idle", "delete", "audit"}, todo: SUBSET BizIds,
                  b: BizIds \cup {Null}, since: 0 .. MaxTime]
  BY DEF Job, JobStart, JobDelete, JobAudit, JobFail, db, past, IInv, TypeOK
<1>2. ASSUME UNCHANGED biz, job'.todo \subseteq BizIds,
             \A b \in job'.todo : b \in job.todo \/ Expired(b)
      PROVE  DayInv'
  <2>1. ASSUME NEW b \in BizIds
        PROVE  /\ Exists(b)' <=> Exists(b)
               /\ Expired(b)' <=> Expired(b)
               /\ Dated(biz[b])' <=> Dated(biz[b])
    BY <1>1, <1>2 DEF Exists, Expired, Overdue, Dated
  <2>2. ASSUME NEW r \in Requests PROVE OnTime(req[r])' /\ OnRow(req[r])'
    <3>1. PICK p : p = req[r]
      OBVIOUS
    <3>2. OnTime(p) /\ OnRow(p) /\ req'[r] = p
      BY <1>1, <3>1 DEF DayInv
    <3>3. OnTime(p)'
      BY <1>1, <3>2 DEF OnTime, Dated
    <3>4. Writing(p) => ~Expired(p.b)
      BY <3>1, WritesInGrace
    <3>5. ASSUME RequestSpan = 0, p.pc = "restore_write" PROVE p.b \notin job'.todo
      <4>1. /\ p.b \in BizIds /\ Exists(p.b) /\ p.b \notin job.todo
            /\ biz[p.b].deletedAt # Null => biz[p.b].permanentAt >= now
        BY <3>2, <3>5 DEF OnRow
      <4>2. Dated(biz[p.b]) /\ now \in Nat
        BY <4>1 DEF DayInv, IInv, TypeOK
      <4>3. ~Expired(p.b)
        BY <4>1, <4>2, ConstantsAssumption DEF Dated, Expired, Overdue
      <4>4. QED
        BY <1>2, <4>1, <4>3
    <3>6. OnRow(p)'
      BY <1>1, <1>2, <3>2, <3>4, <3>5 DEF OnRow, Exists
    <3>7. QED
      BY <3>2, <3>3, <3>6 DEF OnTime, OnRow
  <2>3. \A b \in job'.todo : b \in reprieved' \/ Expired(b)'
    BY <1>1, <1>2, <2>1 DEF DayInv
  <2>4. QED
    BY <1>1, <2>1, <2>2, <2>3 DEF DayInv
<1>3. CASE JobStart
  <2>1. UNCHANGED biz /\ job'.todo = PurgeList
    BY <1>3 DEF JobStart, db
  <2>2. QED
    BY <1>2, <2>1 DEF PurgeList
<1>4. ASSUME NEW b \in BizIds, JobDelete(b) PROVE DayInv'
  <2>1. b \in job.todo /\ biz' = [biz EXCEPT ![b] = Null] /\ job'.todo = job.todo \ {b}
    BY <1>1, <1>4 DEF JobDelete
  <2>2. ASSUME NEW c \in BizIds, c # b
        PROVE  /\ biz'[c] = biz[c] /\ (Exists(c)' <=> Exists(c))
               /\ Expired(c)' <=> Expired(c)
               /\ Dated(biz[c])' <=> Dated(biz[c])
    BY <1>1, <2>1, <2>2 DEF Exists, Expired, Overdue, Dated
  <2>3. ~Exists(b)'
    BY <1>1, <2>1 DEF Exists
  <2>4. ASSUME NEW r \in Requests PROVE OnTime(req[r])' /\ OnRow(req[r])'
    <3>1. PICK p : p = req[r]
      OBVIOUS
    <3>2. OnTime(p) /\ OnRow(p) /\ req'[r] = p
      BY <1>1, <3>1 DEF DayInv
    <3>3. OnTime(p)'
      BY <1>1, <3>2 DEF OnTime, Dated
    <3>4. ASSUME p.b = b PROVE OnRow(p)'
      BY <1>1, <2>1, <2>3, <3>2, <3>4 DEF OnRow
    <3>5. ASSUME p.b # b PROVE OnRow(p)'
      BY <1>1, <2>1, <2>2, <3>2, <3>5 DEF OnRow
    <3>6. QED
      BY <3>2, <3>3, <3>4, <3>5 DEF OnTime, OnRow
  <2>5. \A c \in BizIds : Exists(c)' => Dated(biz[c])'
    BY <2>2, <2>3 DEF DayInv
  <2>6. \A c \in job'.todo : c \in reprieved' \/ Expired(c)'
    BY <1>1, <2>1, <2>2 DEF DayInv
  <2>7. QED
    BY <1>1, <2>2, <2>3, <2>4, <2>5, <2>6 DEF DayInv
<1>5. CASE JobAudit \/ JobFail
  <2>1. UNCHANGED biz
    BY <1>5 DEF JobAudit, JobFail, db
  <2>2. \/ job' = IdleJob
        \/ job' = [job EXCEPT !.pc = "delete", !.b = Null]
    BY <1>5 DEF JobAudit, JobFail
  <2>3. job'.todo \subseteq job.todo
    <3>1. CASE job' = IdleJob
      BY <3>1 DEF IdleJob
    <3>2. CASE job' = [job EXCEPT !.pc = "delete", !.b = Null]
      BY <1>1, <3>2
    <3>3. QED
      BY <2>2, <3>1, <3>2
  <2>4. QED
    BY <1>1, <1>2, <2>1, <2>3
<1>6. QED
  BY <1>3, <1>4, <1>5 DEF Job

\* A day ends only when what is under way may last into the next.
LEMMA TickDay ==
  ASSUME IInv, DayInv, Tick
  PROVE  DayInv'
<1>1. /\ now \in Nat /\ now' = now + 1 /\ RequestSpan \in Nat
      /\ UNCHANGED <<biz, fresh, req, job, reprieved>>
      /\ job.todo \subseteq BizIds /\ biz \in [BizIds -> BizRow \cup {Null}]
  BY ConstantsAssumption DEF IInv, TypeOK, Tick, db, past
<1>2. ASSUME NEW r \in Requests PROVE OnTime(req[r])' /\ OnRow(req[r])'
  <2>1. PICK p : p = req[r]
    OBVIOUS
  <2>2. /\ OnTime(p) /\ OnRow(p) /\ req'[r] = p /\ p.since \in Nat
        /\ p.pc # "idle" => now < p.since + RequestSpan
    BY <1>1, <2>1 DEF DayInv, Tick, IInv, TypeOK, Request
  <2>3. p.pc # "idle" => p.since <= now' /\ now' <= p.since + RequestSpan
    BY <1>1, <2>2 DEF OnTime
  <2>4. OnTime(p)'
    BY <1>1, <2>2, <2>3 DEF OnTime, Dated
  <2>5. ~ (RequestSpan = 0 /\ p.pc = "restore_write")
    BY <1>1, <2>2 DEF OnTime
  <2>6. OnRow(p)'
    BY <1>1, <2>2, <2>5 DEF OnRow, Exists
  <2>7. QED
    BY <2>2, <2>4, <2>6 DEF OnTime, OnRow
<1>3. ASSUME NEW b \in BizIds, Expired(b) PROVE Expired(b)'
  <2>1. /\ Exists(b)' /\ biz'[b] = biz[b] /\ biz[b].deletedAt # Null
        /\ biz[b].permanentAt # Null /\ biz[b].permanentAt < now /\ Dated(biz[b])
    BY <1>1, <1>3 DEF Expired, Overdue, Exists, DayInv
  <2>2. biz[b].permanentAt < now'
    BY <1>1, <2>1, ConstantsAssumption DEF Dated
  <2>3. QED
    BY <2>1, <2>2 DEF Expired, Overdue
<1>4. \A b \in job'.todo : b \in reprieved' \/ Expired(b)'
  BY <1>1, <1>3 DEF DayInv
<1>5. QED
  BY <1>1, <1>2, <1>4 DEF DayInv, Exists, Dated

LEMMA DayKept ==
  ASSUME Short, IInv, DayInv, [Next]_vars
  PROVE  DayInv'
<1>1. ASSUME NEW r \in Requests, Step(r) PROVE DayInv'
  BY <1>1, LoadDay, QuietDay, WrittenDay DEF Step, Owner, Admin
<1>2. CASE UNCHANGED vars
  <2>1. ASSUME NEW r \in Requests PROVE OnTime(req[r])' /\ OnRow(req[r])'
    BY <1>2 DEF vars, past, DayInv, OnTime, OnRow, Exists, Dated
  <2>2. QED
    BY <1>2, <2>1 DEF vars, past, DayInv, Exists, Expired, Overdue, Dated
<1>3. QED
  BY <1>1, <1>2, JobDay, TickDay DEF Next

LEMMA InitDay == Init => DayInv
  BY NullAssumption
  DEF Init, DayInv, OnTime, OnRow, Writing, Updating, UpdatePcs, Idle, IdleJob, Exists

LEMMA DayByDay == ASSUME Short PROVE Spec => [](IInv /\ DayInv)
<1>1. Init => IInv /\ DayInv
  BY InitTypes, InitDay
<1>2. IInv /\ DayInv /\ [Next]_vars => (IInv /\ DayInv)'
  BY TypesKept, DayKept
<1>3. QED
  BY <1>1, <1>2, PTL DEF Spec

\* A row that is there no more is only brought back by an update that was overtaken.
LEMMA ComesBack ==
  ASSUME IInv, DayInv, [Next]_vars, NEW b \in BizIds \ fresh, biz[b] = Null, biz'[b] # Null
  PROVE  b \in reprieved
<1>1. biz \in [BizIds -> BizRow \cup {Null}]
  BY DEF IInv, TypeOK
<1>2. ASSUME NEW r \in Requests, UpdateWrite(r) PROVE b \in reprieved
  <2>1. Writing(req[r]) /\ OnRow(req[r]) /\ req[r].b \in BizIds
    BY <1>2, SavedDates DEF DayInv
  <2>2. req[r].b = b
    BY <1>1, <1>2, <2>1 DEF UpdateWrite
  <2>3. QED
    BY <2>1, <2>2 DEF OnRow, Exists
<1>3. ASSUME NEW r \in Requests, Step(r), ~UpdateWrite(r) PROVE biz'[b] = Null
  BY <1>1, <1>3 DEF Step, Owner, Admin, CreateCount, ProbeTaken, ProbeFree, CreateSave,
    CreateCard, UpdateLoad, UpdateRedirect, UpdateReject, UpdateSelect, UpdateSelectCard,
    UpdateCard, SoftDeleteLoad, SoftDeleteWrite, RestoreLoad, RestoreWrite, ApproveLoad,
    ApproveWrite, FlagWrite, AuditLog, Conflict, Fail, Exists, db
<1>4. CASE Job \/ Tick \/ UNCHANGED vars
  BY <1>1, <1>4 DEF Job, JobStart, JobDelete, JobAudit, JobFail, Tick, vars, db
<1>5. QED
  BY <1>2, <1>3, <1>4 DEF Next

\* A row that a step removes was expired, or a restore has written it since it was listed.
LEMMA GoesAway ==
  ASSUME IInv, DayInv, [Next]_vars, NEW b \in BizIds, Exists(b), biz'[b] = Null
  PROVE  Expired(b) \/ b \in reprieved
<1>1. biz \in [BizIds -> BizRow \cup {Null}] /\ b \notin fresh
  BY DEF IInv, TypeOK, DayInv
<1>2. CASE UNCHANGED biz
  BY <1>2 DEF Exists
<1>3. ASSUME NEW c \in BizIds, JobDelete(c) PROVE Expired(b) \/ b \in reprieved
  BY <1>1, <1>3 DEF JobDelete, Exists, DayInv
<1>4. ASSUME NEW r \in Requests,
             \/ CreateSave(r) \/ UpdateWrite(r) \/ SoftDeleteWrite(r) \/ RestoreWrite(r)
             \/ ApproveWrite(r) \/ \E c \in BizIds : FlagWrite(r, c)
      PROVE  FALSE
  <2>1. Exists(b)'
    BY <1>1, <1>4, WriteDay DEF RowsDay
  <2>2. QED
    BY <2>1 DEF Exists
<1>5. ASSUME NEW r \in Requests, Step(r), ~UNCHANGED biz PROVE FALSE
  BY <1>4, <1>5 DEF Step, Owner, Admin, CreateCount, ProbeTaken, ProbeFree, CreateCard,
    UpdateLoad, UpdateRedirect, UpdateReject, UpdateSelect, UpdateSelectCard, UpdateCard,
    SoftDeleteLoad, RestoreLoad, ApproveLoad, AuditLog, Conflict, Fail, db
<1>6. CASE JobStart \/ JobAudit \/ JobFail \/ Tick \/ UNCHANGED vars
  BY <1>2, <1>6 DEF JobStart, JobAudit, JobFail, Tick, vars, db
<1>7. QED
  BY <1>2, <1>3, <1>5, <1>6 DEF Next, Job

\* Whatever requests and runs cross the end of a grace, the job deletes only what has
\* expired and a purged listing comes back only, if a restore had written the listing
\* while the job had it on its list (restore, update, purge).  The hypothesis is that
\* two requests one after the other are over before the grace of 30 days is.
THEOREM ReturnsAreReprieved == ASSUME Short PROVE Spec => ReturnsOnlyIfReprieved
<1>1. IInv /\ DayInv /\ [Next]_vars =>
        [\A b \in BizIds \ fresh :
           /\ biz[b] = Null /\ biz'[b] # Null => b \in reprieved
           /\ Exists(b) /\ biz'[b] = Null => Expired(b) \/ b \in reprieved]_vars
  BY ComesBack, GoesAway
<1>2. QED
  BY <1>1, DayByDay, PTL DEF Spec, ReturnsOnlyIfReprieved

\* A soft delete is not cleared by its restore only, as the entity says: an update that
\* loaded the live row clears it too.  It does so within the time that the soft delete
\* and the update may last together.
ClearedByRestoreOrEarly ==
    [][\A b \in BizIds : Exists(b) /\ biz[b].deletedAt # Null
          /\ biz'[b] # Null /\ biz'[b].deletedAt = Null =>
             \/ \E r \in Requests : At(r, "restore_write") /\ req[r].b = b
             \/ now <= biz[b].deletedAt + 2 * RequestSpan]_vars

LEMMA ClearsEarly ==
  ASSUME IInv, DayInv, [Next]_vars, NEW b \in BizIds,
         Exists(b), biz[b].deletedAt # Null, biz'[b] # Null, biz'[b].deletedAt = Null
  PROVE  \/ \E r \in Requests : At(r, "restore_write") /\ req[r].b = b
         \/ now <= biz[b].deletedAt + 2 * RequestSpan
<1>1. /\ biz \in [BizIds -> BizRow \cup {Null}] /\ biz[b] \in BizRow /\ biz'[b] # biz[b]
      /\ b \notin fresh /\ Dated(biz[b]) /\ biz[b].deletedAt \in Nat
      /\ now \in Nat /\ RequestSpan \in Nat
  BY ConstantsAssumption DEF IInv, TypeOK, Exists, DayInv, Dated
<1>2. ASSUME NEW r \in Requests, UpdateWrite(r)
      PROVE  now <= biz[b].deletedAt + 2 * RequestSpan
  <2>0. Writing(req[r]) /\ req[r].b \in BizIds
    BY <1>2, SavedDates
  <2>1. /\ OnRow(req[r]) /\ OnTime(req[r]) /\ req[r].pc = "update_write"
        /\ req[r].since \in Nat
    BY <1>2, ConstantsAssumption DEF DayInv, UpdateWrite, At, IInv, TypeOK, Request
  <2>2. req[r].b = b
    BY <1>1, <1>2, <2>0 DEF UpdateWrite
  <2>3. req[r].since <= biz[b].deletedAt + RequestSpan /\ now <= req[r].since + RequestSpan
    BY <1>1, <2>0, <2>1, <2>2 DEF OnRow, OnTime, Exists
  <2>4. QED
    BY <1>1, <2>1, <2>3
<1>3. ASSUME NEW r \in Requests, RestoreWrite(r)
      PROVE  At(r, "restore_write") /\ req[r].b = b
  BY <1>1, <1>3 DEF RestoreWrite
<1>4. ASSUME NEW r \in Requests, SoftDeleteWrite(r) PROVE FALSE
  <2>1. biz'[b] = DeletedRow(biz[b], req[r].at) /\ req[r].at \in Nat
    BY <1>1, <1>4 DEF SoftDeleteWrite, IInv, TypeOK, Request
  <2>2. QED
    BY <1>1, <2>1, NullAssumption DEF DeletedRow, BizRow
<1>5. ASSUME NEW r \in Requests, ApproveWrite(r) PROVE FALSE
  BY <1>1, <1>5 DEF ApproveWrite, ApprovedRow, BizRow
<1>6. ASSUME NEW r \in Requests, NEW c \in BizIds, FlagWrite(r, c) PROVE FALSE
  BY <1>1, <1>6 DEF FlagWrite, BizRow
<1>7. ASSUME NEW r \in Requests, CreateSave(r) PROVE FALSE
  BY <1>1, <1>7 DEF CreateSave
<1>8. ASSUME NEW r \in Requests, Step(r), UNCHANGED biz PROVE FALSE
  BY <1>1, <1>8
<1>9. ASSUME NEW r \in Requests, Step(r), ~UNCHANGED biz
      PROVE  UpdateWrite(r) \/ RestoreWrite(r)
  BY <1>4, <1>5, <1>6, <1>7, <1>9 DEF Step, Owner, Admin, CreateCount, ProbeTaken, ProbeFree,
    CreateCard, UpdateLoad, UpdateRedirect, UpdateReject, UpdateSelect, UpdateSelectCard,
    UpdateCard, SoftDeleteLoad, RestoreLoad, ApproveLoad, AuditLog, Conflict, Fail, db
<1>10. CASE Job \/ Tick \/ UNCHANGED vars
  BY <1>1, <1>10 DEF Job, JobStart, JobDelete, JobAudit, JobFail, Tick, vars, db
<1>11. QED
  BY <1>1, <1>2, <1>3, <1>8, <1>9, <1>10 DEF Next

\* A soft delete that is older than two requests last is cleared by a restore and by
\* nothing else, for any number of requests (softDelete, update, restore).
THEOREM OldDeletionsStay == ASSUME Short PROVE Spec => ClearedByRestoreOrEarly
<1>1. IInv /\ DayInv /\ [Next]_vars =>
        [\A b \in BizIds : Exists(b) /\ biz[b].deletedAt # Null
            /\ biz'[b] # Null /\ biz'[b].deletedAt = Null =>
               \/ \E r \in Requests : At(r, "restore_write") /\ req[r].b = b
               \/ now <= biz[b].deletedAt + 2 * RequestSpan]_vars
  BY ClearsEarly
<1>2. QED
  BY <1>1, DayByDay, PTL DEF Spec, ClearedByRestoreOrEarly

----------------------------------------------------------------------------
(* One request at a time: the listings keep to their state machine.         *)

Alone == \A r, s \in Requests : r = s

\* The requests are over within the day they began in.
Holds(q) == Writing(q) \/ q.pc = "restore_write"

LEMMA WithinADay == RequestSpan = 0 => Short
  BY ConstantsAssumption DEF Short

\* The row a request is about to write is there, and the job will not delete it.
LEMMA HeldSpared ==
  ASSUME RequestSpan = 0, IInv, DayInv, NEW r \in Requests, Holds(req[r])
  PROVE  /\ req[r].b \in BizIds /\ biz[req[r].b] \in BizRow
         /\ Exists(req[r].b) /\ req[r].b \notin job.todo /\ req[r].b \notin fresh
         /\ ~Expired(req[r].b)
<1> DEFINE b == req[r].b
<1>1. OnRow(req[r]) /\ reprieved = {} /\ biz \in [BizIds -> BizRow \cup {Null}] /\ now \in Nat
  BY DEF DayInv, IInv, TypeOK
<1>2. b \in BizIds \ fresh /\ Exists(b) /\ b \notin job.todo
  BY <1>1 DEF OnRow, Holds
<1>3. ~Expired(b)
  <2>1. CASE Writing(req[r])
    BY <2>1, WritesInGrace, WithinADay
  <2>2. CASE req[r].pc = "restore_write"
    <3>1. Dated(biz[b]) /\ (biz[b].deletedAt # Null => biz[b].permanentAt >= now)
      BY <1>1, <1>2, <2>2 DEF OnRow, DayInv
    <3>2. QED
      BY <1>1, <3>1, ConstantsAssumption DEF Dated, Expired, Overdue
  <2>3. QED
    BY <2>1, <2>2 DEF Holds
<1>4. QED
  BY <1>1, <1>2, <1>3 DEF Exists

LEMMA GoneStays ==
  ASSUME RequestSpan = 0, IInv, DayInv, [Next]_vars, NEW b \in BizIds \ fresh, biz[b] = Null
  PROVE  biz'[b] = Null
  BY ComesBack DEF DayInv

\* While a request is alone, what it loaded is what is stored, and the redirect
\* of a rename is there when the row is saved.
AloneOK(q) ==
    /\ Updating(q) => q.row = biz[q.b]
    /\ q.pc \in {"update_select", "update_write"} => q.seen = biz[q.b]
    /\ q.pc = "delete_write" => Live(q.b)
    /\ q.pc = "restore_write" => biz[q.b].deletedAt # Null
    /\ q.pc \in UpdatePcs \ {"update_redirect"} /\ q.slug # q.row.slug =>
          [old |-> q.row.slug, new |-> q.slug, biz |-> q.b] \in redirects

\* Both dates of a deletion are set together, and only a deletion suspends.
Consistent(row) ==
    /\ row.deletedAt = Null <=> row.permanentAt = Null
    /\ row.deletedAt = Null => row.status # "suspended"

RowsConsistent == \A b \in BizIds : Exists(b) => Consistent(biz[b])

AloneInv == RowsConsistent /\ \A r \in Requests : AloneOK(req[r])

LEMMA InitAlone == Init => AloneInv
  BY NullAssumption
  DEF Init, AloneInv, RowsConsistent, AloneOK, Updating, UpdatePcs, Idle, Exists, AllKinds

LEMMA AloneGoesOn ==
  ASSUME Alone, NEW r \in Requests, RowsConsistent', NEW q, req'[r] = q, AloneOK(q)'
  PROVE  AloneInv'
<1>1. ASSUME NEW s \in Requests PROVE AloneOK(req[s])'
  <2>1. s = r
    BY DEF Alone
  <2>2. req'[s] = q
    BY <2>1
  <2>3. QED
    BY <2>2 DEF AloneOK
<1>2. QED
  BY <1>1 DEF AloneInv

\* The steps that load or compute, and the one that stores the redirect.
LEMMA LoadAlone ==
  ASSUME Alone, IInv, AloneInv, NEW r \in Requests,
         \/ \E o \in Owners, n \in Names : CreateCount(r, o, n)
         \/ \E b \in BizIds : \/ UpdateLoad(r, b) \/ SoftDeleteLoad(r, b) \/ RestoreLoad(r, b)
                              \/ ApproveLoad(r, b)
  PROVE  AloneInv'
<1>0. UNCHANGED db
  BY DEF CreateCount, UpdateLoad, SoftDeleteLoad, RestoreLoad, ApproveLoad
<1>1. UNCHANGED <<biz, redirects>> /\ req \in [Requests -> Request]
  BY <1>0 DEF db, IInv, TypeOK
<1>2. RowsConsistent'
  BY <1>1 DEF AloneInv, RowsConsistent, Exists
<1>3. PICK q : q = req'[r]
  OBVIOUS
<1>4. CASE \E o \in Owners, n \in Names : CreateCount(r, o, n)
  <2>1. q.pc = "probe" /\ q.kind = "create"
    BY <1>1, <1>3, <1>4 DEF CreateCount, Started
  <2>2. AloneOK(q)'
    BY <2>1 DEF AloneOK, Updating, UpdatePcs
  <2>3. QED
    BY <1>2, <1>3, <2>2, AloneGoesOn
<1>5. ASSUME NEW b \in BizIds, UpdateLoad(r, b) PROVE AloneInv'
  <2>1. PICK n \in Names \cup {Null} :
           req' = [req EXCEPT ![r] =
                 [Started("update", IF n = Null THEN "update_save" ELSE "probe", b)
                    EXCEPT !.row = biz[b], !.card = card[b],
                           !.slug = IF n = Null THEN biz[b].slug ELSE <<n, 0>>]]
    BY <1>5 DEF UpdateLoad
  <2>2. /\ q.kind = "update" /\ q.b = b /\ q.row = biz[b]
        /\ \/ q.pc = "probe"
           \/ q.pc = "update_save" /\ q.slug = q.row.slug
    <3>1. CASE n = Null
      BY <1>1, <1>3, <2>1, <3>1 DEF Started
    <3>2. CASE n # Null
      BY <1>1, <1>3, <2>1, <3>2 DEF Started
    <3>3. QED
      BY <3>1, <3>2
  <2>3. AloneOK(q)'
    BY <1>1, <2>2 DEF AloneOK, Updating, UpdatePcs
  <2>4. QED
    BY <1>2, <1>3, <2>3, AloneGoesOn
<1>6. ASSUME NEW b \in BizIds, SoftDeleteLoad(r, b) PROVE AloneInv'
  <2>1. q.pc = "delete_write" /\ q.kind = "softDelete" /\ q.b = b /\ Live(b)
    BY <1>1, <1>3, <1>6 DEF SoftDeleteLoad, Started
  <2>2. AloneOK(q)'
    BY <1>1, <2>1 DEF AloneOK, Updating, UpdatePcs, Live, Exists
  <2>3. QED
    BY <1>2, <1>3, <2>2, AloneGoesOn
<1>7. ASSUME NEW b \in BizIds, RestoreLoad(r, b) PROVE AloneInv'
  <2>1. q.pc = "restore_write" /\ q.kind = "restore" /\ q.b = b /\ biz[b].deletedAt # Null
    BY <1>1, <1>3, <1>7 DEF RestoreLoad, Restorable, Started
  <2>2. AloneOK(q)'
    BY <1>1, <2>1 DEF AloneOK, Updating, UpdatePcs
  <2>3. QED
    BY <1>2, <1>3, <2>2, AloneGoesOn
<1>8. ASSUME NEW b \in BizIds, ApproveLoad(r, b) PROVE AloneInv'
  <2>1. q.pc = "approve_write" /\ q.kind = "approve"
    BY <1>1, <1>3, <1>8 DEF ApproveLoad, Started
  <2>2. AloneOK(q)'
    BY <2>1 DEF AloneOK, Updating, UpdatePcs
  <2>3. QED
    BY <1>2, <1>3, <2>2, AloneGoesOn
<1>9. QED
  BY <1>4, <1>5, <1>6, <1>7, <1>8

LEMMA QuietAlone ==
  ASSUME Alone, IInv, AloneInv, NEW r \in Requests,
         \/ ProbeTaken(r) \/ ProbeFree(r) \/ CreateCard(r) \/ UpdateRedirect(r)
         \/ UpdateReject(r) \/ UpdateSelect(r) \/ UpdateSelectCard(r) \/ UpdateCard(r)
         \/ AuditLog(r) \/ Conflict(r) \/ Fail(r)
  PROVE  AloneInv'
<1>0. \/ UNCHANGED db
      \/ UNCHANGED <<biz, redirects>>
      \/ UNCHANGED biz /\ redirects \subseteq redirects'
  BY DEF ProbeTaken, ProbeFree, CreateCard, UpdateRedirect, UpdateReject, UpdateSelect,
     UpdateSelectCard, UpdateCard, AuditLog, Conflict, Fail
<1>1. /\ UNCHANGED biz /\ redirects \subseteq redirects' /\ req \in [Requests -> Request]
      /\ req[r] \in Request /\ LocalsOf(req[r]) /\ AloneOK(req[r])
  BY <1>0 DEF db, IInv, TypeOK, LocalsOK, AloneInv
<1>2. RowsConsistent'
  BY <1>1 DEF AloneInv, RowsConsistent, Exists
<1>3. PICK p, q : p = req[r] /\ q = req'[r]
  OBVIOUS
<1>4. CASE \/ CreateCard(r) \/ UpdateReject(r) \/ UpdateCard(r) \/ AuditLog(r)
           \/ Conflict(r) \/ Fail(r)
  <2>1. ASSUME Finish(r) PROVE q.pc = "idle"
    BY <1>1, <1>3, <2>1 DEF Finish, Idle
  <2>2. ASSUME NEW act, ToAudit(r, act) PROVE q.pc = "audit"
    BY <1>1, <1>3, <2>2 DEF ToAudit, Wrote, Idle
  <2>3. q.pc \in {"idle", "audit"}
    BY <1>4, <2>1, <2>2 DEF CreateCard, UpdateReject, UpdateCard, AuditLog, Conflict, Fail
  <2>4. AloneOK(q)'
    BY <2>3 DEF AloneOK, Updating, UpdatePcs
  <2>5. QED
    BY <1>2, <1>3, <2>4, AloneGoesOn
<1>5. CASE ProbeTaken(r)
  <2>1. /\ p.pc = "probe" /\ q.pc = "probe" /\ q.kind = p.kind /\ q.row = p.row /\ q.b = p.b
    BY <1>1, <1>3, <1>5 DEF ProbeTaken, At, Request
  <2>2. AloneOK(q)'
    BY <1>1, <1>3, <2>1 DEF AloneOK, Updating, UpdatePcs
  <2>3. QED
    BY <1>2, <1>3, <2>2, AloneGoesOn
<1>6. CASE ProbeFree(r)
  <2>1. /\ p.pc = "probe" /\ q.kind = p.kind /\ q.row = p.row /\ q.b = p.b /\ q.slug = p.slug
        /\ p.kind = "create" => q.pc = "create_save"
        /\ p.kind # "create" => \/ q.pc = "update_save" /\ p.slug = p.row.slug
                                \/ q.pc = "update_redirect"
    BY <1>1, <1>3, <1>6 DEF ProbeFree, AfterProbe, Goto, At, Request
  <2>2. p.kind \in {"create", "update"}
    BY <1>1, <1>3, <2>1 DEF LocalsOf
  <2>3. AloneOK(q)'
    BY <1>1, <1>3, <2>1, <2>2 DEF AloneOK, Updating, UpdatePcs
  <2>4. QED
    BY <1>2, <1>3, <2>3, AloneGoesOn
<1>7. CASE UpdateRedirect(r)
  <2>1. /\ p.pc = "update_redirect" /\ q.pc = "update_save"
        /\ q.row = p.row /\ q.b = p.b /\ q.slug = p.slug
        /\ [old |-> p.row.slug, new |-> p.slug, biz |-> p.b] \in redirects'
    BY <1>1, <1>3, <1>7 DEF UpdateRedirect, Goto, At, Request
  <2>2. AloneOK(q)'
    BY <1>1, <1>3, <2>1 DEF AloneOK, Updating, UpdatePcs
  <2>3. QED
    BY <1>2, <1>3, <2>2, AloneGoesOn
<1>8. CASE UpdateSelect(r) \/ UpdateSelectCard(r)
  <2>1. /\ p.pc \in {"update_save", "update_select"} /\ q.pc \in {"update_select", "update_write"}
        /\ q.row = p.row /\ q.b = p.b /\ q.slug = p.slug
        /\ q.seen = IF p.pc = "update_save" THEN biz[p.b] ELSE p.seen
    <3>1. CASE UpdateSelect(r)
      BY <1>1, <1>3, <3>1 DEF UpdateSelect, At, Request
    <3>2. CASE UpdateSelectCard(r)
      BY <1>1, <1>3, <3>2 DEF UpdateSelectCard, At, Request
    <3>3. QED
      BY <1>8, <3>1, <3>2
  <2>2. AloneOK(q)'
    BY <1>1, <1>3, <2>1 DEF AloneOK, Updating, UpdatePcs
  <2>3. QED
    BY <1>2, <1>3, <2>2, AloneGoesOn
<1>9. QED
  BY <1>4, <1>5, <1>6, <1>7, <1>8

\* One row is written, or none.
LEMMA OneConsistent ==
  ASSUME IInv, RowsConsistent, NEW b \in BizIds, NEW row, Consistent(row),
         biz' = [biz EXCEPT ![b] = row]
  PROVE  RowsConsistent'
<1>1. biz'[b] = row /\ \A c \in BizIds \ {b} : biz'[c] = biz[c]
  BY DEF IInv, TypeOK
<1>2. QED
  BY <1>1 DEF RowsConsistent, Consistent, Exists

LEMMA WriteAlone ==
  ASSUME Alone, RequestSpan = 0, IInv, DayInv, AloneInv, NEW r \in Requests,
         \/ CreateSave(r) \/ UpdateWrite(r) \/ SoftDeleteWrite(r) \/ RestoreWrite(r)
         \/ ApproveWrite(r) \/ \E b \in BizIds : FlagWrite(r, b)
  PROVE  AloneInv'
<1>1. /\ req \in [Requests -> Request] /\ now \in 0 .. MaxTime /\ RowsConsistent
      /\ req[r] \in Request /\ LocalsOf(req[r]) /\ AloneOK(req[r])
      /\ biz \in [BizIds -> BizRow \cup {Null}]
  BY DEF IInv, TypeOK, LocalsOK, AloneInv
<1>2. PICK q : q = req'[r]
  OBVIOUS
<1>3. AloneOK(q)'
  <2>1. q.pc \in {"create_card", "audit", "update_card", "idle"}
    <3>1. ASSUME NEW pc, NEW slug, NEW act, Wrote(r, pc, slug, act) PROVE q.pc = pc
      BY <1>1, <1>2, <3>1 DEF Wrote, Idle
    <3>2. ASSUME NEW act, ToAudit(r, act) PROVE q.pc = "audit"
      BY <3>1, <3>2 DEF ToAudit
    <3>3. CASE CreateSave(r)
      BY <1>1, <1>2, <3>3 DEF CreateSave, Request
    <3>4. CASE UpdateWrite(r) \/ SoftDeleteWrite(r) \/ ApproveWrite(r)
      BY <3>1, <3>2, <3>4 DEF UpdateWrite, SoftDeleteWrite, ApproveWrite
    <3>5. CASE RestoreWrite(r)
      BY <1>1, <1>2, <3>5 DEF RestoreWrite, Finish, Idle
    <3>6. ASSUME NEW c \in BizIds, FlagWrite(r, c) PROVE q.pc = "audit"
      BY <1>1, <1>2, <3>6 DEF FlagWrite, Started
    <3>7. QED
      BY <3>3, <3>4, <3>5, <3>6
  <2>2. QED
    BY <2>1 DEF AloneOK, Updating, UpdatePcs
<1>4. RowsConsistent'
  <2> DEFINE b == req[r].b
  <2>0. UNCHANGED biz => RowsConsistent'
    BY <1>1 DEF RowsConsistent, Exists
  <2>1. CASE CreateSave(r)
    <3> DEFINE row == [owner |-> req[r].owner, slug |-> req[r].slug, status |-> "pending",
                       verified |-> FALSE, deletedAt |-> Null, permanentAt |-> Null]
    <3>1. PICK c \in fresh : biz' = [biz EXCEPT ![c] = row]
      BY <2>1 DEF CreateSave
    <3>2. Consistent(row) /\ c \in BizIds
      BY DEF Consistent, IInv, TypeOK
    <3> HIDE DEF row
    <3>3. QED
      BY <1>1, <3>1, <3>2, OneConsistent
  <2>2. CASE UpdateWrite(r)
    <3>1. /\ req[r].pc = "update_write" /\ biz' = [biz EXCEPT ![b] = SavedRow(req[r])]
      BY <2>2 DEF UpdateWrite, At
    <3>2. b \in BizIds /\ req[r].row \in BizRow /\ req[r].slug \in Slugs
      BY <1>1, <3>1 DEF LocalsOf, Updating, UpdatePcs, SlugPcs
    <3>3. req[r].row = biz[b] /\ req[r].seen = biz[b] /\ Consistent(biz[b])
      BY <1>1, <3>1, <3>2, NullAssumption
      DEF AloneOK, Updating, UpdatePcs, RowsConsistent, Exists
    <3>4. SavedRow(req[r]) = [biz[b] EXCEPT !.slug = req[r].slug]
      BY <3>2, <3>3, SavedWhole
    <3>5. Consistent(SavedRow(req[r]))
      BY <3>2, <3>3, <3>4 DEF Consistent, BizRow
    <3>6. QED
      BY <1>1, <3>1, <3>2, <3>5, OneConsistent
  <2>3. CASE SoftDeleteWrite(r)
    <3>1. b \in BizIds /\ biz[b] \in BizRow /\ Exists(b)
      BY <2>3, HeldSpared DEF SoftDeleteWrite, At, Holds, Writing
    <3>2. req[r].at \in Nat /\ req[r].at + Grace \in Nat
      BY <1>1, ConstantsAssumption DEF Request
    <3>3. Consistent(DeletedRow(biz[b], req[r].at))
      BY <3>1, <3>2, NullAssumption DEF Consistent, DeletedRow, BizRow, GraceEnd
    <3>4. biz' = [biz EXCEPT ![b] = DeletedRow(biz[b], req[r].at)]
      BY <2>3, <3>1 DEF SoftDeleteWrite
    <3>5. QED
      BY <1>1, <3>1, <3>3, <3>4, OneConsistent
  <2>4. CASE RestoreWrite(r)
    <3>1. b \in BizIds /\ biz[b] \in BizRow /\ Exists(b)
      BY <2>4, HeldSpared DEF RestoreWrite, At, Holds
    <3>2. Consistent(RestoredRow(biz[b]))
      BY <3>1 DEF Consistent, RestoredRow, BizRow
    <3>3. biz' = [biz EXCEPT ![b] = RestoredRow(biz[b])]
      BY <2>4, <3>1 DEF RestoreWrite
    <3>4. QED
      BY <1>1, <3>1, <3>2, <3>3, OneConsistent
  <2>5. CASE ApproveWrite(r)
    <3>1. CASE ~Exists(b)
      BY <2>0, <2>5, <3>1 DEF ApproveWrite
    <3>2. CASE Exists(b)
      <4>1. b \in BizIds /\ biz[b] \in BizRow
        BY <1>1, <2>5, <3>2 DEF ApproveWrite, At, LocalsOf, BizPcs, Exists
      <4>2. Consistent(ApprovedRow(biz[b]))
        BY <1>1, <3>2, <4>1 DEF Consistent, ApprovedRow, BizRow, RowsConsistent
      <4>3. biz' = [biz EXCEPT ![b] = ApprovedRow(biz[b])]
        BY <2>5, <3>2 DEF ApproveWrite
      <4>4. QED
        BY <1>1, <4>1, <4>2, <4>3, OneConsistent
    <3>3. QED
      BY <3>1, <3>2
  <2>6. ASSUME NEW c \in BizIds, FlagWrite(r, c) PROVE RowsConsistent'
    <3>1. CASE ~Exists(c)
      BY <2>0, <2>6, <3>1 DEF FlagWrite
    <3>2. CASE Exists(c)
      <4> DEFINE row == [biz[c] EXCEPT !.status = "flagged"]
      <4>1. biz[c] \in BizRow /\ Consistent(biz[c])
        BY <1>1, <3>2 DEF Exists, RowsConsistent
      <4>2. Consistent(row)
        BY <4>1 DEF Consistent, BizRow
      <4>3. biz' = [biz EXCEPT ![c] = row]
        BY <2>6, <3>2 DEF FlagWrite
      <4> HIDE DEF row
      <4>4. QED
        BY <1>1, <4>2, <4>3, OneConsistent
    <3>3. QED
      BY <3>1, <3>2
  <2>7. QED
    BY <2>1, <2>2, <2>3, <2>4, <2>5, <2>6
<1>5. QED
  BY <1>2, <1>3, <1>4, AloneGoesOn

\* The job takes no row away that the request still holds.
LEMMA JobAlone ==
  ASSUME RequestSpan = 0, IInv, DayInv, AloneInv, Job
  PROVE  AloneInv'
<1>1. UNCHANGED req /\ biz \in [BizIds -> BizRow \cup {Null}] /\ redirects \subseteq Redirect
  BY DEF Job, JobStart, JobDelete, JobAudit, JobFail, IInv, TypeOK
<1>2. CASE UNCHANGED <<biz, redirects>>
  <2>1. ASSUME NEW r \in Requests PROVE AloneOK(req[r])'
    <3>1. AloneOK(req[r])
      BY DEF AloneInv
    <3>2. QED
      BY <1>1, <1>2, <3>1 DEF AloneOK, Updating, UpdatePcs, Live, Exists
  <2>2. QED
    BY <1>2, <2>1 DEF AloneInv, RowsConsistent, Exists
<1>3. ASSUME NEW b \in BizIds, JobDelete(b) PROVE AloneInv'
  <2>1. /\ biz' = [biz EXCEPT ![b] = Null] /\ b \in job.todo
        /\ \A rd \in redirects : rd.biz # b => rd \in redirects'
    BY <1>3 DEF JobDelete
  <2>2. ASSUME NEW r \in Requests PROVE AloneOK(req[r])'
    <3>0. PICK q : q = req[r]
      OBVIOUS
    <3>1. AloneOK(q) /\ LocalsOf(q)
      BY <3>0 DEF AloneInv, IInv, LocalsOK
    <3>2. Holds(q) => q.b \in BizIds /\ q.b # b
      BY <2>1, <3>0, HeldSpared
    <3>3. Updating(q) \/ q.pc \in UpdatePcs \cup {"delete_write", "restore_write"} => Holds(q)
      BY DEF Updating, UpdatePcs, Writing, Holds
    <3>4. Holds(q) => biz'[q.b] = biz[q.b]
      BY <1>1, <2>1, <3>2
    <3>5. Holds(q) /\ [old |-> q.row.slug, new |-> q.slug, biz |-> q.b] \in redirects =>
             [old |-> q.row.slug, new |-> q.slug, biz |-> q.b] \in redirects'
      BY <2>1, <3>2
    <3>6. AloneOK(q)'
      BY <3>1, <3>3, <3>4, <3>5 DEF AloneOK, Updating, UpdatePcs, Live, Exists
    <3>7. req'[r] = q
      BY <1>1, <3>0
    <3>8. QED
      BY <3>6, <3>7 DEF AloneOK, Updating, UpdatePcs
  <2>3. RowsConsistent'
    BY <1>1, <2>1 DEF AloneInv, RowsConsistent, Exists
  <2>4. QED
    BY <2>2, <2>3 DEF AloneInv
<1>4. QED
  BY <1>2, <1>3 DEF Job, JobStart, JobAudit, JobFail, db, past

LEMMA AloneKept ==
  ASSUME Alone, RequestSpan = 0, IInv, DayInv, AloneInv, [Next]_vars
  PROVE  AloneInv'
<1>1. ASSUME NEW r \in Requests, Step(r) PROVE AloneInv'
  BY <1>1, LoadAlone, QuietAlone, WriteAlone DEF Step, Owner, Admin
<1>2. CASE Tick \/ UNCHANGED vars
  <2>1. UNCHANGED <<biz, redirects, req>>
    BY <1>2 DEF Tick, vars, db, past
  <2>2. ASSUME NEW r \in Requests PROVE AloneOK(req[r])'
    <3>1. AloneOK(req[r])
      BY DEF AloneInv
    <3>2. QED
      BY <2>1, <3>1 DEF AloneOK, Updating, UpdatePcs, Live, Exists
  <2>3. QED
    BY <2>1, <2>2 DEF AloneInv, RowsConsistent, Exists
<1>3. QED
  BY <1>1, <1>2, JobAlone DEF Next
----------------------------------------------------------------------------
(* What a step means to the listings. *)

Until(b) == IF Exists(b) THEN biz[b].permanentAt ELSE Null

\* A step that changes no listing's state is a stutter of the promise.
LEMMA NoListingMoves ==
  ASSUME UNCHANGED now,
         \A b \in BizIds : ListingState(b)' = ListingState(b) /\ Until(b)' = Until(b)
  PROVE  UNCHANGED L!vars
  BY DEF L!vars, Until

\* A step that changes one listing is a move of that listing.
LEMMA OneListingMoves ==
  ASSUME NEW b \in BizIds,
         \A c \in BizIds \ {b} : ListingState(c)' = ListingState(c) /\ Until(c)' = Until(c)
  PROVE  LET state == [c \in BizIds |-> ListingState(c)]
             until == [c \in BizIds |-> Until(c)]
         IN  /\ state' = [state EXCEPT ![b] = ListingState(b)']
             /\ until' = [until EXCEPT ![b] = Until(b)']
  OBVIOUS

\* The other listings are as they were.
LEMMA OthersStay ==
  ASSUME IInv, NEW b \in BizIds, NEW row, biz' = [biz EXCEPT ![b] = row],
         fresh' \in {fresh, fresh \ {b}}
  PROVE  /\ \A c \in BizIds \ {b} : ListingState(c)' = ListingState(c) /\ Until(c)' = Until(c)
         /\ biz'[b] = row
<1>1. biz'[b] = row /\ \A c \in BizIds \ {b} : biz'[c] = biz[c]
  BY DEF IInv, TypeOK
<1>2. \A c \in BizIds \ {b} : c \in fresh' <=> c \in fresh
  OBVIOUS
<1>3. QED
  BY <1>1, <1>2 DEF ListingState, Until, Exists

\* The actions of the promise, by what they do to one listing.
LEMMA ListingActions ==
  ASSUME NEW b \in BizIds,
         \A c \in BizIds \ {b} : ListingState(c)' = ListingState(c) /\ Until(c)' = Until(c),
         UNCHANGED now,
         \/ /\ Until(b)' = Until(b)
            /\ \/ ListingState(b) = "unborn" /\ ListingState(b)' = "pending"
               \/ ListingState(b) \in L!OnAir /\ ListingState(b)' \in {"active", "flagged"}
         \/ /\ ListingState(b) \in L!OnAir /\ ListingState(b)' = "deleted"
            /\ Until(b)' = now + Grace
         \/ /\ ListingState(b) = "deleted" /\ ListingState(b)' = "pending"
            /\ now <= Until(b) /\ Until(b)' = Null
         \/ /\ ListingState(b) = "deleted" /\ ListingState(b)' = "purged"
            /\ now > Until(b) /\ Until(b)' = Null
  PROVE  L!Next
<1>1. PICK state, until :
        /\ state = [c \in BizIds |-> ListingState(c)]
        /\ until = [c \in BizIds |-> Until(c)]
  OBVIOUS
<1>2. /\ [c \in BizIds |-> ListingState(c)'] = [state EXCEPT ![b] = ListingState(b)']
      /\ [c \in BizIds |-> Until(c)'] = [until EXCEPT ![b] = Until(b)']
      /\ state[b] = ListingState(b) /\ until[b] = Until(b)
      /\ Until(b)' = Until(b) => [c \in BizIds |-> Until(c)'] = until
  BY <1>1
<1>3. L!Next \/ ~ \E l \in BizIds : \/ L!Submit(l) \/ L!Approve(l) \/ L!Flag(l)
                                    \/ L!Delete(l) \/ L!Restore(l) \/ L!Purge(l)
  BY DEF L!Next
<1>4. CASE /\ Until(b)' = Until(b)
           /\ ListingState(b) = "unborn" /\ ListingState(b)' = "pending"
  <2>1. L!Submit(b)
    BY <1>1, <1>2, <1>4 DEF L!Submit, L!Move, Until
  <2>2. QED
    BY <1>3, <2>1
<1>5. CASE /\ Until(b)' = Until(b)
           /\ ListingState(b) \in L!OnAir /\ ListingState(b)' = "active"
  <2>1. L!Approve(b)
    BY <1>1, <1>2, <1>5 DEF L!Approve, L!Move, Until
  <2>2. QED
    BY <1>3, <2>1
<1>6. CASE /\ Until(b)' = Until(b)
           /\ ListingState(b) \in L!OnAir /\ ListingState(b)' = "flagged"
  <2>1. L!Flag(b)
    BY <1>1, <1>2, <1>6 DEF L!Flag, L!Move, Until
  <2>2. QED
    BY <1>3, <2>1
<1>7. CASE /\ ListingState(b) \in L!OnAir /\ ListingState(b)' = "deleted"
           /\ Until(b)' = now + Grace
  <2>1. L!Delete(b)
    BY <1>1, <1>2, <1>7 DEF L!Delete, L!Move, Until
  <2>2. QED
    BY <1>3, <2>1
<1>8. CASE /\ ListingState(b) = "deleted" /\ ListingState(b)' = "pending"
           /\ now <= Until(b) /\ Until(b)' = Null
  <2>1. L!Restore(b)
    BY <1>1, <1>2, <1>8 DEF L!Restore, L!Move, Until
  <2>2. QED
    BY <1>3, <2>1
<1>9. CASE /\ ListingState(b) = "deleted" /\ ListingState(b)' = "purged"
           /\ now > Until(b) /\ Until(b)' = Null
  <2>1. L!Purge(b)
    BY <1>1, <1>2, <1>9 DEF L!Purge, L!Move, Until
  <2>2. QED
    BY <1>3, <2>1
<1>10. QED
  BY <1>4, <1>5, <1>6, <1>7, <1>8, <1>9

\* What a write to a row means to its listing.
LEMMA ListingWrites ==
  ASSUME RequestSpan = 0, IInv, DayInv, AloneInv, NEW r \in Requests,
         \/ CreateSave(r) \/ UpdateWrite(r) \/ SoftDeleteWrite(r) \/ RestoreWrite(r)
         \/ ApproveWrite(r) \/ \E b \in BizIds : FlagWrite(r, b)
  PROVE  L!Next \/ UNCHANGED L!vars
<1>1. /\ biz \in [BizIds -> BizRow \cup {Null}] /\ fresh \subseteq BizIds
      /\ now \in Nat /\ req[r] \in Request /\ LocalsOf(req[r]) /\ AloneOK(req[r])
      /\ OnTime(req[r])
  BY DEF IInv, TypeOK, LocalsOK, AloneInv, DayInv
<1>2. UNCHANGED now
  BY DEF CreateSave, UpdateWrite, SoftDeleteWrite, RestoreWrite, ApproveWrite, FlagWrite
<1>3. ASSUME NEW c \in BizIds, Exists(c)
      PROVE  /\ biz[c] \in BizRow /\ Consistent(biz[c]) /\ c \notin fresh
             /\ Live(c) => ListingState(c) \in L!OnAir /\ Until(c) = Null
             /\ ~Live(c) => ListingState(c) = "deleted" /\ Until(c) \in Nat
  BY <1>1, <1>3, ConstantsAssumption
  DEF Exists, Live, Consistent, AloneInv, RowsConsistent, DayInv, ListingState, Until,
      L!OnAir, BizRow, Statuses, Days
<1>4. CASE UNCHANGED <<biz, fresh>>
  BY <1>2, <1>4, NoListingMoves DEF ListingState, Until, Exists
<1>0. PICK b : b = req[r].b
  OBVIOUS
<1>5. CASE CreateSave(r)
  <2> DEFINE row == [owner |-> req[r].owner, slug |-> req[r].slug, status |-> "pending",
                     verified |-> FALSE, deletedAt |-> Null, permanentAt |-> Null]
  <2>1. PICK c \in fresh : fresh' = fresh \ {c} /\ biz' = [biz EXCEPT ![c] = row]
    BY <1>5 DEF CreateSave
  <2>2. c \in BizIds /\ row \in BizRow /\ row.status = "pending" /\ row.deletedAt = Null
        /\ row.permanentAt = Null
    BY <1>1, <1>5 DEF CreateSave, At, LocalsOf, SlugPcs, BizRow, Statuses
  <2> HIDE DEF row
  <2>3. /\ \A d \in BizIds \ {c} : ListingState(d)' = ListingState(d) /\ Until(d)' = Until(d)
        /\ biz'[c] = row
    BY <1>1, <2>1, <2>2, OthersStay
  <2>4. ListingState(c) = "unborn" /\ Until(c) = Null
    BY <1>1 DEF ListingState, Until, DayInv
  <2>5. ListingState(c)' = "pending" /\ Until(c)' = Null
    BY <2>1, <2>2, <2>3, NullAssumption DEF ListingState, Until, Exists
  <2>6. QED
    BY <1>2, <2>2, <2>3, <2>4, <2>5, ListingActions
<1>6. CASE UpdateWrite(r)
  <2>1. /\ req[r].pc = "update_write" /\ biz' = [biz EXCEPT ![b] = SavedRow(req[r])]
        /\ UNCHANGED fresh
    BY <1>0, <1>6 DEF UpdateWrite, At
  <2>2. /\ b \in BizIds /\ req[r].row \in BizRow /\ req[r].slug \in Slugs
        /\ req[r].row = biz[b] /\ req[r].seen = biz[b] /\ Exists(b)
    BY <1>0, <1>1, <2>1, NullAssumption
    DEF LocalsOf, Updating, UpdatePcs, SlugPcs, AloneOK, Exists
  <2>3. /\ SavedRow(req[r]) \in BizRow
        /\ SavedRow(req[r]).status = biz[b].status
        /\ SavedRow(req[r]).deletedAt = biz[b].deletedAt
        /\ SavedRow(req[r]).permanentAt = biz[b].permanentAt
    <3>1. SavedRow(req[r]) = [biz[b] EXCEPT !.slug = req[r].slug]
      BY <1>0, <2>2, SavedWhole
    <3>2. QED
      BY <2>2, <3>1 DEF BizRow
  <2>4. /\ \A d \in BizIds \ {b} : ListingState(d)' = ListingState(d) /\ Until(d)' = Until(d)
        /\ biz'[b] = SavedRow(req[r])
    BY <1>1, <2>1, <2>2, OthersStay
  <2>5. ListingState(b)' = ListingState(b) /\ Until(b)' = Until(b)
    BY <2>1, <2>2, <2>3, <2>4, NullAssumption DEF ListingState, Until, Exists
  <2>6. QED
    BY <1>2, <2>4, <2>5, NoListingMoves
<1>7. CASE SoftDeleteWrite(r)
  <2>1. b \in BizIds /\ Exists(b) /\ Live(b) /\ req[r].at = now
    <3>1. req[r].pc = "delete_write"
      BY <1>7 DEF SoftDeleteWrite, At
    <3>2. b \in BizIds /\ Exists(b) /\ Live(b)
      BY <1>0, <1>1, <3>1, HeldSpared DEF Holds, Writing, AloneOK
    <3>3. req[r].at = now
      BY <1>1, <3>1 DEF OnTime, Request
    <3>4. QED
      BY <3>2, <3>3
  <2> DEFINE row == DeletedRow(biz[b], now)
  <2>2. row \in BizRow /\ row.deletedAt # Null /\ row.permanentAt = now + Grace
    <3>1. now \in 0 .. MaxTime /\ biz[b] \in BizRow
      BY <1>3, <2>1 DEF IInv, TypeOK
    <3>2. QED
      BY <1>1, <3>1, DeletedRowOK, NullAssumption DEF DeletedRow, BizRow, GraceEnd
  <2>3. biz' = [biz EXCEPT ![b] = row] /\ UNCHANGED fresh
    BY <1>0, <1>7, <2>1 DEF SoftDeleteWrite
  <2> HIDE DEF row
  <2>4. /\ \A d \in BizIds \ {b} : ListingState(d)' = ListingState(d) /\ Until(d)' = Until(d)
        /\ biz'[b] = row
    BY <1>1, <2>1, <2>3, OthersStay
  <2>5. ListingState(b)' = "deleted" /\ Until(b)' = now + Grace
    BY <1>3, <2>1, <2>2, <2>3, <2>4, NullAssumption DEF ListingState, Until, Exists
  <2>6. QED
    BY <1>2, <1>3, <2>1, <2>4, <2>5, ListingActions
<1>8. CASE RestoreWrite(r)
  <2>1. b \in BizIds /\ Exists(b) /\ ~Live(b) /\ ~Expired(b)
    BY <1>0, <1>1, <1>8, HeldSpared DEF RestoreWrite, At, Holds, AloneOK, Live
  <2>2. now <= Until(b)
    BY <1>1, <1>3, <2>1, NullAssumption DEF Expired, Overdue, Live, Until
  <2> DEFINE row == RestoredRow(biz[b])
  <2>3. /\ row \in BizRow /\ row.deletedAt = Null /\ row.permanentAt = Null
        /\ row.status = "pending"
    BY <1>3, <2>1, RestoredRowOK DEF RestoredRow, BizRow
  <2>4. biz' = [biz EXCEPT ![b] = row] /\ UNCHANGED fresh
    BY <1>0, <1>8, <2>1 DEF RestoreWrite
  <2> HIDE DEF row
  <2>5. /\ \A d \in BizIds \ {b} : ListingState(d)' = ListingState(d) /\ Until(d)' = Until(d)
        /\ biz'[b] = row
    BY <1>1, <2>1, <2>4, OthersStay
  <2>6. ListingState(b)' = "pending" /\ Until(b)' = Null
    BY <1>3, <2>1, <2>3, <2>4, <2>5, NullAssumption DEF ListingState, Until, Exists
  <2>7. QED
    BY <1>2, <1>3, <2>1, <2>2, <2>5, <2>6, ListingActions
<1>9. ASSUME NEW c \in BizIds, Exists(c), NEW row \in BizRow, biz' = [biz EXCEPT ![c] = row],
             UNCHANGED fresh, row.status \in {"active", "flagged"},
             row.deletedAt = biz[c].deletedAt, row.permanentAt = biz[c].permanentAt
      PROVE  L!Next \/ UNCHANGED L!vars
  <2>1. /\ \A d \in BizIds \ {c} : ListingState(d)' = ListingState(d) /\ Until(d)' = Until(d)
        /\ biz'[c] = row
    BY <1>1, <1>9, OthersStay
  <2>2. Until(c)' = Until(c)
    BY <1>9, <2>1, NullAssumption DEF Until, Exists
  <2>3. CASE Live(c)
    <3>1. ListingState(c)' = row.status
      BY <1>3, <1>9, <2>1, <2>3, NullAssumption DEF ListingState, Exists, Live
    <3>2. QED
      BY <1>2, <1>3, <1>9, <2>1, <2>2, <2>3, <3>1, ListingActions
  <2>4. CASE ~Live(c)
    <3>1. ListingState(c)' = ListingState(c)
      BY <1>3, <1>9, <2>1, <2>4, NullAssumption DEF ListingState, Exists, Live
    <3>2. QED
      BY <1>2, <2>1, <2>2, <3>1, NoListingMoves
  <2>5. QED
    BY <2>3, <2>4
<1>10. CASE ApproveWrite(r)
  <2>1. CASE ~Exists(b)
    BY <1>0, <1>4, <1>10, <2>1 DEF ApproveWrite
  <2>2. CASE Exists(b)
    <3>1. b \in BizIds
      BY <1>0, <1>1, <1>10 DEF ApproveWrite, At, LocalsOf, BizPcs
    <3>2. /\ ApprovedRow(biz[b]) \in BizRow /\ ApprovedRow(biz[b]).status = "active"
          /\ ApprovedRow(biz[b]).deletedAt = biz[b].deletedAt
          /\ ApprovedRow(biz[b]).permanentAt = biz[b].permanentAt
      BY <1>3, <2>2, <3>1, ApprovedRowOK DEF ApprovedRow, BizRow
    <3>3. biz' = [biz EXCEPT ![b] = ApprovedRow(biz[b])] /\ UNCHANGED fresh
      BY <1>0, <1>10, <2>2 DEF ApproveWrite
    <3>4. QED
      BY <1>9, <2>2, <3>1, <3>2, <3>3
  <2>3. QED
    BY <2>1, <2>2
<1>11. ASSUME NEW c \in BizIds, FlagWrite(r, c) PROVE L!Next \/ UNCHANGED L!vars
  <2>1. CASE ~Exists(c)
    BY <1>4, <1>11, <2>1 DEF FlagWrite
  <2>2. CASE Exists(c)
    <3> DEFINE row == [biz[c] EXCEPT !.status = "flagged"]
    <3>1. /\ row \in BizRow /\ row.status = "flagged"
          /\ row.deletedAt = biz[c].deletedAt /\ row.permanentAt = biz[c].permanentAt
      BY <1>3, <2>2, FlaggedRowOK DEF BizRow
    <3>2. biz' = [biz EXCEPT ![c] = row] /\ UNCHANGED fresh
      BY <1>11, <2>2 DEF FlagWrite
    <3> HIDE DEF row
    <3>3. QED
      BY <1>9, <2>2, <3>1, <3>2
  <2>3. QED
    BY <2>1, <2>2
<1>12. QED
  BY <1>5, <1>6, <1>7, <1>8, <1>10, <1>11

LEMMA ListingJob ==
  ASSUME RequestSpan = 0, IInv, DayInv, AloneInv, Job
  PROVE  L!Next \/ UNCHANGED L!vars
<1>1. CASE UNCHANGED <<biz, fresh, now>>
  BY <1>1, NoListingMoves DEF ListingState, Until, Exists
<1>2. ASSUME NEW b \in BizIds, JobDelete(b) PROVE L!Next \/ UNCHANGED L!vars
  <2>1. biz' = [biz EXCEPT ![b] = Null] /\ UNCHANGED <<fresh, now>> /\ Expired(b)
    BY <1>2 DEF JobDelete, DayInv
  <2>2. /\ \A c \in BizIds \ {b} : ListingState(c)' = ListingState(c) /\ Until(c)' = Until(c)
        /\ biz'[b] = Null
    BY <2>1, OthersStay
  <2>3. ListingState(b) = "deleted" /\ now > Until(b)
    <3>1. b \notin fresh /\ now \in Nat /\ biz[b] \in BizRow
      BY <2>1 DEF DayInv, Expired, Exists, IInv, TypeOK
    <3>2. biz[b].permanentAt \in Nat
      BY <2>1, <3>1, ConstantsAssumption DEF Expired, Overdue, BizRow, Days
    <3>3. QED
      BY <2>1, <3>1, <3>2 DEF ListingState, Until, Expired, Overdue
  <2>4. ListingState(b)' = "purged" /\ Until(b)' = Null
    BY <2>1, <2>2 DEF ListingState, Until, Exists, Expired, DayInv
  <2>5. QED
    BY <2>1, <2>2, <2>3, <2>4, ListingActions
<1>3. QED
  BY <1>1, <1>2 DEF Job, JobStart, JobAudit, JobFail, db, past

\* Every step is a step of the promise or a stutter.
LEMMA StepsPromised ==
  ASSUME RequestSpan = 0, IInv, DayInv, AloneInv, [Next \/ Visitor]_vars
  PROVE  [L!Next]_(L!vars)
<1>1. CASE UNCHANGED <<biz, fresh, now>>
  BY <1>1, NoListingMoves DEF ListingState, Until, Exists
<1>2. ASSUME NEW r \in Requests, Step(r) PROVE [L!Next]_(L!vars)
  <2>1. CASE \/ CreateSave(r) \/ UpdateWrite(r) \/ SoftDeleteWrite(r) \/ RestoreWrite(r)
             \/ ApproveWrite(r) \/ \E b \in BizIds : FlagWrite(r, b)
    BY <2>1, ListingWrites
  <2>2. QED
    BY <1>1, <1>2, <2>1 DEF Step, Owner, Admin, CreateCount, ProbeTaken, ProbeFree, CreateCard,
      UpdateLoad, UpdateRedirect, UpdateReject, UpdateSelect, UpdateSelectCard, UpdateCard,
      SoftDeleteLoad, RestoreLoad, ApproveLoad, AuditLog, Conflict, Fail, db
<1>3. CASE Tick
  <2>1. UNCHANGED <<biz, fresh>> /\ now' = now + 1
    BY <1>3 DEF Tick, db, past
  <2>2. L!Tick
    BY <2>1 DEF L!Tick, ListingState, Exists
  <2>3. QED
    BY <2>2 DEF L!Next
<1>4. CASE Visitor
  BY <1>1, <1>4 DEF Visitor, Bookmark, GetCard, FindListing, FindRedirect, Leave, tables, db, past
<1>5. QED
  BY <1>1, <1>2, <1>3, <1>4, ListingJob DEF Next, vars

LEMMA InitPromised == Init => L!Init
  BY DEF Init, L!Init, ListingState, Exists

\* A visitor only reads, so nothing that was said of the tables changes with him.
LEMMA OnlyReads ==
  ASSUME IInv, DayInv, AloneInv, UNCHANGED tables
  PROVE  IInv' /\ DayInv' /\ AloneInv'
<1>1. UNCHANGED <<biz, card, redirects, audit, fresh, now, req, job, fails, crossed, reprieved>>
  BY DEF tables, db, past
<1>2. IInv'
  BY <1>1 DEF IInv, TypeOK, LocalsOK
<1>3. ASSUME NEW r \in Requests PROVE OnTime(req[r])' /\ OnRow(req[r])'
  <2>1. OnTime(req[r]) /\ OnRow(req[r])
    BY DEF DayInv
  <2>2. QED
    BY <1>1, <2>1 DEF OnTime, OnRow, Writing, Updating, UpdatePcs, Exists
<1>4. DayInv'
  BY <1>1, <1>3 DEF DayInv, Exists, Expired, Overdue
<1>5. ASSUME NEW r \in Requests PROVE AloneOK(req[r])'
  <2>1. AloneOK(req[r])
    BY DEF AloneInv
  <2>2. QED
    BY <1>1, <2>1 DEF AloneOK, Updating, UpdatePcs, Live, Exists
<1>6. QED
  BY <1>1, <1>2, <1>4, <1>5 DEF AloneInv, RowsConsistent, Exists

LEMMA OneAtATime ==
  ASSUME Alone, RequestSpan = 0 PROVE CardsSpec => [](IInv /\ DayInv /\ AloneInv)
<1>1. Init => IInv /\ DayInv /\ AloneInv
  BY InitTypes, InitDay, InitAlone
<1>2. IInv /\ DayInv /\ AloneInv /\ [Next \/ Visitor]_vars => (IInv /\ DayInv /\ AloneInv)'
  <2> SUFFICES ASSUME IInv, DayInv, AloneInv, [Next \/ Visitor]_vars
               PROVE  (IInv /\ DayInv /\ AloneInv)'
    OBVIOUS
  <2>1. CASE [Next]_vars
    BY <2>1, TypesKept, DayKept, WithinADay, AloneKept
  <2>2. CASE Visitor
    <3>1. UNCHANGED tables
      BY <2>2 DEF Visitor, Bookmark, GetCard, FindListing, FindRedirect, Leave
    <3>2. QED
      BY <3>1, OnlyReads
  <2>3. QED
    BY <2>1, <2>2
<1>3. QED
  BY <1>1, <1>2, PTL DEF CardsSpec

\* With one request at a time, done within its day, BusinessService and the purge
\* keep every listing inside the state machine of Listing, whatever fails between
\* two statements: the run biz_stale_save shows that two requests do not.
THEOREM ListingsKeepTheirPromise ==
  ASSUME Alone, RequestSpan = 0 PROVE CardsSpec => ImplementsListing
<1>1. IInv /\ DayInv /\ AloneInv /\ [Next \/ Visitor]_vars => [L!Next]_(L!vars)
  BY StepsPromised
<1>2. QED
  BY <1>1, InitPromised, OneAtATime, PTL DEF CardsSpec, ImplementsListing, L!Spec

----------------------------------------------------------------------------
(* One request at a time: an address that a listing had on the air is       *)
(* never forgotten.                                                         *)

Visit == [pc: {"away", "marked", "find", "moved", "answered"}, b: BizIds \cup {Null},
          slug: Slugs \cup {Null}, seen: BOOLEAN,
          got: {Null} \cup [status: Nat, url: {Null}]]

\* Following the redirects of one listing alone leads from a slug to another.
Closed(b, reached) == \A rd \in redirects : rd.biz = b /\ rd.old \in reached => rd.new \in reached
OwnWay(b, from, to) ==
    \A reached \in SUBSET Slugs : from \in reached /\ Closed(b, reached) => to \in reached

\* What the visitor's address is worth as long as the row is there: its own
\* redirects lead home, and one of them starts at it once the listing has moved.
VisitInv ==
    /\ visit \in Visit
    /\ visit.pc = "away" <=> visit.b = Null
    /\ visit.b # Null =>
         /\ visit.b \notin fresh /\ visit.slug \in Slugs
         /\ Exists(visit.b) => OwnWay(visit.b, visit.slug, biz[visit.b].slug)
    /\ visit.got # Null => visit.pc = "answered"
    /\ visit.pc = "moved" /\ visit.seen /\ Exists(visit.b) =>
         \E rd \in redirects : rd.biz = visit.b /\ rd.old = visit.slug

LEMMA InitVisit == Init => VisitInv
  BY DEF Init, VisitInv, Visit, Away

\* A row that a step leaves there keeps its redirects, and its slug or the
\* redirect to the new one.
LEMMA SlugsMove ==
  ASSUME RequestSpan = 0, IInv, DayInv, AloneInv, [Next]_vars,
         NEW b \in BizIds \ fresh, biz'[b] # Null
  PROVE  /\ Exists(b)
         /\ \A rd \in redirects : rd.biz = b => rd \in redirects'
         /\ \/ biz'[b].slug = biz[b].slug
            \/ [old |-> biz[b].slug, new |-> biz'[b].slug, biz |-> b] \in redirects
<1>1. /\ biz \in [BizIds -> BizRow \cup {Null}]
      /\ \A r \in Requests : LocalsOf(req[r]) /\ AloneOK(req[r]) /\ req[r] \in Request
  BY DEF IInv, TypeOK, LocalsOK, AloneInv
<1>2. Exists(b) /\ biz[b] \in BizRow
  BY <1>1, GoneStays DEF Exists
<1>3. \A rd \in redirects : rd.biz = b => rd \in redirects'
  <2>1. ASSUME NEW c \in BizIds, JobDelete(c)
        PROVE  \A rd \in redirects : rd.biz = b => rd \in redirects'
    BY <1>1, <2>1 DEF JobDelete
  <2>2. CASE redirects \subseteq redirects'
    BY <2>2
  <2>3. ASSUME NEW r \in Requests, Step(r) PROVE redirects \subseteq redirects'
    BY <2>3 DEF Step, Owner, Admin, CreateCount, ProbeTaken, ProbeFree, CreateSave, CreateCard,
      UpdateLoad, UpdateRedirect, UpdateReject, UpdateSelect, UpdateSelectCard, UpdateWrite,
      UpdateCard, SoftDeleteLoad, SoftDeleteWrite, RestoreLoad, RestoreWrite, ApproveLoad,
      ApproveWrite, FlagWrite, AuditLog, Conflict, Fail, db, past
  <2>4. QED
    BY <2>1, <2>2, <2>3 DEF Next, Job, JobStart, JobAudit, JobFail, Tick, vars, db, past
<1>4. ASSUME NEW r \in Requests, UpdateWrite(r)
      PROVE  \/ biz'[b].slug = biz[b].slug
             \/ [old |-> biz[b].slug, new |-> biz'[b].slug, biz |-> b] \in redirects
  <2>1. PICK q : q = req[r]
    OBVIOUS
  <2>2. q.pc = "update_write" /\ biz' = [biz EXCEPT ![q.b] = SavedRow(q)]
    BY <1>4, <2>1 DEF UpdateWrite, At
  <2>3. /\ q.b \in BizIds /\ q.row \in BizRow /\ q.slug \in Slugs
        /\ q.row = biz[q.b] /\ q.seen = biz[q.b]
    BY <1>1, <2>1, <2>2 DEF LocalsOf, Updating, UpdatePcs, SlugPcs, AloneOK
  <2>4. CASE q.b # b
    BY <1>1, <2>2, <2>3, <2>4
  <2>5. CASE q.b = b
    <3>1. biz'[b].slug = q.slug
      BY <1>1, <2>2, <2>3, <2>5, SavedWhole DEF BizRow
    <3>2. q.slug # q.row.slug => [old |-> q.row.slug, new |-> q.slug, biz |-> q.b] \in redirects
      BY <1>1, <2>1, <2>2 DEF AloneOK, UpdatePcs
    <3>3. QED
      BY <2>3, <2>5, <3>1, <3>2
  <2>6. QED
    BY <2>4, <2>5
<1>5. ASSUME NEW r \in Requests, CreateSave(r) PROVE biz'[b] = biz[b]
  BY <1>1, <1>5 DEF CreateSave
<1>6. ASSUME NEW r \in Requests, SoftDeleteWrite(r) \/ RestoreWrite(r) \/ ApproveWrite(r)
      PROVE  biz'[b].slug = biz[b].slug
  <2>1. PICK c, at : c = req[r].b /\ at = req[r].at
    OBVIOUS
  <2>2. /\ DeletedRow(biz[b], at).slug = biz[b].slug
        /\ RestoredRow(biz[b]).slug = biz[b].slug
        /\ ApprovedRow(biz[b]).slug = biz[b].slug
    BY <1>2 DEF DeletedRow, RestoredRow, ApprovedRow, BizRow
  <2>3. \/ UNCHANGED biz
        \/ biz' = [biz EXCEPT ![c] = DeletedRow(biz[c], at)]
        \/ biz' = [biz EXCEPT ![c] = RestoredRow(biz[c])]
        \/ biz' = [biz EXCEPT ![c] = ApprovedRow(biz[c])]
    BY <1>6, <2>1 DEF SoftDeleteWrite, RestoreWrite, ApproveWrite
  <2>4. QED
    BY <1>1, <2>2, <2>3
<1>7. ASSUME NEW r \in Requests, NEW c \in BizIds, FlagWrite(r, c)
      PROVE  biz'[b].slug = biz[b].slug
  BY <1>1, <1>2, <1>7 DEF FlagWrite, BizRow
<1>8. ASSUME NEW c \in BizIds, JobDelete(c) PROVE biz'[b] = biz[b]
  BY <1>1, <1>8 DEF JobDelete
<1>9. ASSUME NEW r \in Requests, Step(r), ~UNCHANGED biz
      PROVE  \/ biz'[b].slug = biz[b].slug
             \/ [old |-> biz[b].slug, new |-> biz'[b].slug, biz |-> b] \in redirects
  BY <1>4, <1>5, <1>6, <1>7, <1>9 DEF Step, Owner, Admin, CreateCount, ProbeTaken, ProbeFree,
    CreateCard, UpdateLoad, UpdateRedirect, UpdateReject, UpdateSelect, UpdateSelectCard,
    UpdateCard, SoftDeleteLoad, RestoreLoad, ApproveLoad, AuditLog, Conflict, Fail, db
<1>10. ASSUME JobStart \/ JobAudit \/ JobFail \/ Tick \/ UNCHANGED vars
       PROVE  biz'[b] = biz[b]
  BY <1>10 DEF JobStart, JobAudit, JobFail, Tick, vars, db, past
<1>11. QED
  BY <1>2, <1>3, <1>8, <1>9, <1>10 DEF Next, Job

\* A longer way is still a way.
LEMMA WayStays ==
  ASSUME NEW b, NEW from, NEW to, NEW to2 \in Slugs, OwnWay(b, from, to),
         \A rd \in redirects : rd.biz = b => rd \in redirects',
         to2 = to \/ [old |-> to, new |-> to2, biz |-> b] \in redirects
  PROVE  \A reached \in SUBSET Slugs :
            /\ from \in reached
            /\ \A rd \in redirects' : rd.biz = b /\ rd.old \in reached => rd.new \in reached
            => to2 \in reached
<1> SUFFICES ASSUME NEW reached \in SUBSET Slugs, from \in reached,
                    \A rd \in redirects' : rd.biz = b /\ rd.old \in reached => rd.new \in reached
             PROVE  to2 \in reached
  OBVIOUS
<1>1. \A rd \in redirects : rd.biz = b /\ rd.old \in reached => rd.new \in reached
  OBVIOUS
<1>2. to \in reached
  BY <1>1 DEF OwnWay, Closed
<1>3. QED
  BY <1>1, <1>2

\* Whatever happens to the tables, the address keeps its worth.
LEMMA TablesVisit ==
  ASSUME RequestSpan = 0, IInv, DayInv, AloneInv, VisitInv, [Next]_vars
  PROVE  VisitInv'
<1>1. UNCHANGED visit /\ fresh' \subseteq fresh
  BY DEF Next, Step, Owner, Admin, Job, CreateCount, ProbeTaken, ProbeFree, CreateSave, CreateCard,
    UpdateLoad, UpdateRedirect, UpdateReject, UpdateSelect, UpdateSelectCard, UpdateWrite,
    UpdateCard, SoftDeleteLoad, SoftDeleteWrite, RestoreLoad, RestoreWrite, ApproveLoad,
    ApproveWrite, FlagWrite, AuditLog, Conflict, Fail, JobStart, JobDelete, JobAudit,
    JobFail, Tick, vars, db, past
<1>2. PICK b, slug : b = visit.b /\ slug = visit.slug
  OBVIOUS
<1>3. ASSUME b # Null, Exists(b)'
      PROVE  OwnWay(b, slug, biz[b].slug)'
  <2>1. b \in BizIds \ fresh /\ (Exists(b) => OwnWay(b, slug, biz[b].slug))
    BY <1>2, <1>3 DEF VisitInv, Visit
  <2>2. /\ Exists(b) /\ \A rd \in redirects : rd.biz = b => rd \in redirects'
        /\ \/ biz'[b].slug = biz[b].slug
           \/ [old |-> biz[b].slug, new |-> biz'[b].slug, biz |-> b] \in redirects
    BY <1>3, <2>1, SlugsMove DEF Exists
  <2>3. biz'[b].slug \in Slugs
    <3>1. IInv'
      BY TypesKept
    <3>2. QED
      BY <1>3, <2>1, <3>1 DEF IInv, TypeOK, Exists, BizRow
  <2>4. QED
    BY <2>1, <2>2, <2>3, WayStays DEF OwnWay, Closed
<1>4. ASSUME visit.pc = "moved", visit.seen, Exists(b)'
      PROVE  \E rd \in redirects' : rd.biz = b /\ rd.old = slug
  <2>1. b \in BizIds \ fresh
    BY <1>2, <1>4 DEF VisitInv, Visit
  <2>2. Exists(b) /\ \A rd \in redirects : rd.biz = b => rd \in redirects'
    BY <1>4, <2>1, SlugsMove DEF Exists
  <2>3. QED
    BY <1>2, <1>4, <2>2 DEF VisitInv
<1>5. VisitInv'
  <2>1. visit'.b = b /\ visit'.slug = slug /\ visit'.pc = visit.pc /\ visit'.seen = visit.seen
        /\ visit'.got = visit.got
    BY <1>1, <1>2
  <2>2. b # Null => b \notin fresh' /\ slug \in Slugs
    BY <1>1, <1>2 DEF VisitInv
  <2>3. /\ visit' \in Visit /\ (visit.pc = "away" <=> b = Null)
        /\ visit.got # Null => visit.pc = "answered"
    BY <1>1, <1>2 DEF VisitInv, Visit
  <2>4. QED
    BY <1>3, <1>4, <2>1, <2>2, <2>3 DEF VisitInv, Exists, OwnWay, Closed
<1>6. QED
  BY <1>5

\* What the visitor does himself.
LEMMA VisitorVisit ==
  ASSUME IInv, DayInv, AloneInv, VisitInv, Visitor
  PROVE  VisitInv'
<1>1. UNCHANGED <<biz, redirects, fresh>> /\ visit \in Visit
  BY DEF Visitor, Bookmark, GetCard, FindListing, FindRedirect, Leave, tables, db, past, VisitInv
<1>2. /\ \A b \in BizIds : Exists(b) => b \notin fresh /\ biz[b] \in BizRow
      /\ visit.b # Null => visit.b \in BizIds
  BY <1>1 DEF DayInv, Visit, Exists, IInv, TypeOK
<1>3. PICK v : v = visit'
  OBVIOUS
<1>4. ASSUME v \in Visit, v.b # Null, v.pc # "away", v.b = visit.b, v.slug = visit.slug,
             v.got # Null => v.pc = "answered",
             v.pc = "moved" /\ v.seen /\ Exists(v.b) =>
               \E rd \in redirects : rd.biz = v.b /\ rd.old = v.slug
      PROVE  VisitInv'
  <2>1. v.b \notin fresh /\ v.slug \in Slugs
        /\ (Exists(v.b) => OwnWay(v.b, v.slug, biz[v.b].slug))
    BY <1>4 DEF VisitInv
  <2>2. QED
    BY <1>1, <1>3, <1>4, <2>1 DEF VisitInv, Exists, OwnWay, Closed
<1>5. ASSUME NEW b \in BizIds, Bookmark(b) PROVE VisitInv'
  <2>1. /\ v = [Away EXCEPT !.pc = "marked", !.b = b, !.slug = biz[b].slug]
        /\ Exists(b)
    BY <1>3, <1>5 DEF Bookmark, OnAir, Live
  <2>2. /\ v.pc = "marked" /\ v.b = b /\ v.slug = biz[b].slug /\ v.got = Null
        /\ v.slug \in Slugs /\ v \in Visit
    BY <1>2, <2>1 DEF Away, Visit, BizRow
  <2>3. OwnWay(b, v.slug, biz[b].slug) /\ b \notin fresh /\ b # Null
    BY <1>2, <2>1, <2>2, NullAssumption DEF OwnWay
  <2>4. QED
    BY <1>1, <1>3, <2>2, <2>3 DEF VisitInv, Exists, OwnWay, Closed
<1>6. CASE GetCard
  <2>1. /\ visit.pc = "marked" /\ v = [visit EXCEPT !.pc = "find"]
    BY <1>3, <1>6 DEF GetCard
  <2>2. v \in Visit /\ v.pc = "find" /\ v.b = visit.b /\ v.slug = visit.slug
        /\ v.got = visit.got
    BY <1>1, <2>1 DEF Visit
  <2>3. QED
    BY <1>4, <2>1, <2>2 DEF VisitInv
<1>7. CASE FindListing /\ ShownAt(visit.slug) # {}
  <2>1. /\ visit.pc = "find" /\ v = [visit EXCEPT !.pc = "answered", !.got = Card]
    BY <1>3, <1>7 DEF FindListing
  <2>2. v \in Visit /\ v.pc = "answered" /\ v.b = visit.b /\ v.slug = visit.slug
    BY <1>1, <2>1 DEF Visit, Card
  <2>3. QED
    BY <1>4, <2>1, <2>2 DEF VisitInv
<1>8. CASE FindListing /\ ShownAt(visit.slug) = {}
  <2>1. /\ visit.pc = "find" /\ v = [visit EXCEPT !.pc = "moved", !.seen = OnAir(visit.b)]
    BY <1>3, <1>8 DEF FindListing
  <2>2. v \in Visit /\ v.pc = "moved" /\ v.b = visit.b /\ v.slug = visit.slug
        /\ v.got = visit.got /\ (v.seen <=> OnAir(visit.b))
    BY <1>1, <2>1 DEF Visit, OnAir
  <2>3. visit.b # Null /\ visit.b \in BizIds /\ visit.slug \in Slugs
    BY <1>2, <2>1 DEF VisitInv
  <2>4. ASSUME v.seen
        PROVE  \E rd \in redirects : rd.biz = visit.b /\ rd.old = visit.slug
    <3>1. OnAir(visit.b) /\ Exists(visit.b) /\ biz[visit.b].slug # visit.slug
      BY <1>8, <2>2, <2>3, <2>4 DEF ShownAt, OnAir, Live
    <3>2. OwnWay(visit.b, visit.slug, biz[visit.b].slug)
      BY <2>3, <3>1 DEF VisitInv
    <3>3. ~Closed(visit.b, {visit.slug})
      BY <2>3, <3>1, <3>2 DEF OwnWay
    <3>4. QED
      BY <3>3 DEF Closed
  <2>5. visit.got = Null
    BY <2>1 DEF VisitInv
  <2>6. QED
    BY <1>4, <2>2, <2>3, <2>4, <2>5
<1>9. CASE FindRedirect
  <2>1. PICK answer \in Answers(visit.slug) :
          v = [visit EXCEPT !.pc = "answered", !.got = Filtered(answer)]
    BY <1>3, <1>9 DEF FindRedirect
  <2>2. Filtered(answer) \in [status: Nat, url: {Null}]
    BY DEF Answers, Filtered, Missing, Moved
  <2>3. v \in Visit /\ v.pc = "answered" /\ v.b = visit.b /\ v.slug = visit.slug
    BY <1>1, <2>1, <2>2 DEF Visit
  <2>4. QED
    BY <1>4, <1>9, <2>3 DEF VisitInv, FindRedirect
<1>10. CASE Leave
  <2>1. /\ visit.pc = "answered"
        /\ v = [visit EXCEPT !.pc = "marked", !.seen = FALSE, !.got = Null]
    BY <1>3, <1>10 DEF Leave
  <2>2. v \in Visit /\ v.pc = "marked" /\ v.b = visit.b /\ v.slug = visit.slug
        /\ v.got = Null
    BY <1>1, <2>1 DEF Visit
  <2>3. QED
    BY <1>4, <2>1, <2>2 DEF VisitInv
<1>11. QED
  BY <1>5, <1>6, <1>7, <1>8, <1>9, <1>10 DEF Visitor

LEMMA AddressesKept ==
  ASSUME Alone, RequestSpan = 0
  PROVE  CardsSpec => [](IInv /\ DayInv /\ AloneInv /\ VisitInv)
<1>1. IInv /\ DayInv /\ AloneInv /\ VisitInv /\ [Next \/ Visitor]_vars => VisitInv'
  <2>1. ASSUME IInv, DayInv, AloneInv, VisitInv, [Next \/ Visitor]_vars PROVE VisitInv'
    BY <2>1, TablesVisit, VisitorVisit
  <2>2. QED
    BY <2>1
<1>2. QED
  BY <1>1, InitVisit, OneAtATime, PTL DEF CardsSpec

\* However often a listing is renamed, with failures and rejected renames in
\* between, the redirects from any address it had on the air lead to the one it has
\* now (update, generateUniqueSlug).
THEOREM RedirectsLeadHome ==
  ASSUME Alone, RequestSpan = 0 PROVE CardsSpec => []OldAddressLeadsHome
<1>1. IInv /\ VisitInv => OldAddressLeadsHome
  <2> SUFFICES ASSUME VisitInv, visit.b # Null, OnAir(visit.b)
               PROVE  LeadsTo(visit.slug, biz[visit.b].slug)
    BY DEF OldAddressLeadsHome
  <2>1. OwnWay(visit.b, visit.slug, biz[visit.b].slug)
    BY DEF VisitInv, OnAir, Live
  <2>2. QED
    BY <2>1 DEF OwnWay, Closed, LeadsTo
<1>2. QED
  BY <1>1, AddressesKept, PTL

\* And who asks there while the listing is on the air is never told that it is not
\* found, although the two reads of resolveSlug are not one (resolveSlug, getCard).
THEOREM KnownAddresses ==
  ASSUME Alone, RequestSpan = 0 PROVE CardsSpec => KnownAddressIsAnswered
<1>1. IInv /\ DayInv /\ AloneInv /\ VisitInv /\ [Next \/ Visitor]_vars =>
        [visit.pc = "moved" /\ visit.seen /\ OnAir(visit.b) => visit'.got # Missing]_vars
  <2> SUFFICES ASSUME IInv, DayInv, AloneInv, VisitInv, Next \/ Visitor,
                      visit.pc = "moved", visit.seen, OnAir(visit.b)
               PROVE  visit'.got # Missing
    OBVIOUS
  <2>1. visit.got = Null /\ \E rd \in redirects : rd.old = visit.slug
    BY DEF VisitInv, OnAir, Live
  <2>2. CASE UNCHANGED visit
    BY <2>1, <2>2, AnswerAssumption
  <2>3. CASE FindRedirect
    <3>1. PICK answer \in Answers(visit.slug) : visit'.got = Filtered(answer)
      BY <2>3 DEF FindRedirect, VisitInv, Visit
    <3>2. PICK rd \in redirects : answer = Moved(rd.new)
      BY <2>1 DEF Answers, MovedFrom
    <3>3. QED
      BY <3>1, <3>2 DEF Filtered, Moved, Missing
  <2>4. CASE Visitor
    BY <2>3, <2>4 DEF Visitor, Bookmark, GetCard, FindListing, Leave
  <2>5. CASE Next
    BY <2>2, <2>5 DEF Next, Step, Owner, Admin, Job, CreateCount, ProbeTaken, ProbeFree, CreateSave,
      CreateCard, UpdateLoad, UpdateRedirect, UpdateReject, UpdateSelect, UpdateSelectCard,
      UpdateWrite, UpdateCard, SoftDeleteLoad, SoftDeleteWrite, RestoreLoad, RestoreWrite,
      ApproveLoad, ApproveWrite, FlagWrite, AuditLog, Conflict, Fail, JobStart, JobDelete,
      JobAudit, JobFail, Tick
  <2>6. QED
    BY <2>4, <2>5
<1>2. QED
  BY <1>1, AddressesKept, PTL DEF CardsSpec, KnownAddressIsAnswered
=============================================================================
