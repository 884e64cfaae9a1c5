# Verification of the E-CommerXE back end

TLA+ models of the back end under `src/backend` (NestJS, TypeORM, PostgreSQL,
Redis), the TLC configurations that check them and the theorems that TLAPS
proves about them.  Paths below are relative to `src/backend/src` unless they
start with `src/`.

To repeat the checks, in this directory:

    tlc -workers 2 -config MCBusinessConcurrent.cfg MCBusinessConcurrent
    tlapm BusinessProofs.tla

## 1. Inventory

The back end is one node process (several may run behind nginx) over one
PostgreSQL database and one Redis.  Node runs one callback at a time, but every
`await` of a repository, Redis or mail call lets other requests and the cron
jobs run.  Almost no handler uses a database transaction for its own statements:
`dataSource.transaction` occurs only in `RlsContextService.run`, and the
statements of its callback do not run inside it (section 4.3).  So the grain of
atomicity is the single statement, and the hard behaviours are what comes between
two of them: other requests, the purge jobs, errors and crashes.

| component | state | operations | talks to |
|---|---|---|---|
| `BusinessService` | `businesses`, `business_cards`, `slug_redirects` | create, update, softDelete, restore, approve, flag, reads | RLS context, `AuditService` |
| `CleanupJobsService` | rows of `businesses`, `users`; partitions | two daily purges, hourly token cleanup, monthly partition | `AuditService` |
| `RlsContextService`, `DatabaseModule` | the connection pool, `app.current_tenant` per connection | `run(tenant, callback)` | PostgreSQL |
| `AuthService` | `users`; Redis `rt_revoked:*`, `blacklist:*`, `pwd_reset:*`, `mfa_pending:*` | register, verifyEmail, login, Google, refresh, logout, password reset, MFA | `EmailService`, `AuditService` |
| `JwtAccessStrategy`, guards | none | validate a token on each request | `users`, `blacklist:*` |
| `UsersService` | `users` | profile, export, request and cancel the deletion | `EmailService`, `AuditService` |
| `AdminService` | `users` | suspend, activate, role, delete; listings | `AuditService` |
| `AuditService` | `audit_logs` | log, errors swallowed | |
| `MediaService` | `media_files`, object storage, Redis counters and scan queue | upload, delete, presign | R2, `AuditService` |
| `AnalyticsService` | `analytics_events` and its partitions; Redis `queue:analytics_events`, `dashboard:*` | track, dashboard, hourly flush, monthly partition | `businesses` by ON DELETE CASCADE |
| `SearchService` | Redis `search:*` | read | `businesses` |
| `CardsController`, `GlobalExceptionFilter` | none | getCard, listCards | `BusinessService.resolveSlug` |
| metrics, guards, interceptors, bootstrap | counters | | |

`AuditService` is the class in `admin/admin.service.ts:30-46`; the services import
it from `admin/audit.service`, a file that is not in the tree.

What makes each component correct:

- **Listings**: a listing is on the air only when an admin approved it, and the
  approval has left a trace; a soft delete is undone only by a restore within the
  grace; only an expired business is purged and a purged one does not come back;
  slugs of live listings are unique and a renamed listing can still be found at every
  address it had.
- **Jobs**: what is due is carried out in the end, also when runs die half-way,
  and nothing else is.
- **Pool and tenant setting**: no connection is lost or shared, a tenant's setting
  stays in its transaction, waiting requests are answered.
- **Sessions**: bounded guesses before a lock, a lock is not lifted by a stale
  write, a spent refresh token is refused for as long as it lives, logout ends the
  session.
- **Accounts**: nobody is verified without proof, what was proved is not taken back, every
  usable account has a tenant, a reset link is used up, a second factor is not replaced
  behind its owner's back.
- **Erasure**: no account goes before a full grace, a timely cancellation holds.
- **Media**: what a row names is in the bucket, every file is scanned, one failure spoils
  one file at most, the cap is overrun by no more than the uploads in flight.
- **Analytics**: an event reaches the table once; a crash or an event that the table
  refuses takes no more than one batch with it; rows find the partition of their month.
- **Search, dashboard**: a cache is stale for at most its TTL and a request.

The hazards, each at its line and with the properties that cover it, are in
`PROJECT.json`.

## 2. Plan

Done, in this order:

1. `BusinessLifecycle`, with the abstract `Listing` and the refinement
   `BusinessRefinement`, and its proofs in `BusinessProofs`.
2. `RlsPool`: transactions, tenant setting and the pool under every handler.
3. `Sessions`, `Accounts`: the two halves of `AuthService`.
4. `Erasure`: account deletion and its daily job.
5. `MediaUpload`: upload over counter, count, bucket, row and scan queue.
6. `Analytics`: the queue that `flushEventQueue` pops before it inserts, the partition job,
   and the purge of businesses that takes rows along.
7. `ReadCache`: the read-through cache of `SearchService.search` and
   `AnalyticsService.getDashboard`.
8. MFA enrolment in `Accounts`.
9. Proofs about `Accounts`, `Erasure`, `ReadCache` and `Sessions`.
10. `Cards`: a visitor who goes through `resolveSlug` while `BusinessLifecycle` renames.
11. Proofs about `RlsPool`, `MediaUpload` and `Analytics`; the counting properties of
    `Accounts`; the refinement of `Listing` and the visitor of `Cards`.
12. `save()` as the SELECTs, the comparison and the UPDATE that it is, in `BusinessLifecycle` and
    `Accounts`; requests and runs that cross the end of a grace.

To come:

13. `LockoutBoundsGuesses` for any number of logins in flight, with the bound that their
    number implies: what is model-checked is of two.
14. A weaker hypothesis than one request at a time for the properties of `Cards`: updates of
    different listings do not disturb each other.

## 3. How the models are made

One action per awaited call.  What a handler keeps in its local variables over an
`await` is a field of `req[r]`, so a later step acts on what an earlier one read.
`req[r].pc` names the call the handler is at; a request that is refused before it
changes anything simply does not start.  Handlers that throw end the request and
leave what their earlier statements wrote.  Database rows are records in a function
from ids to rows or `Null`; a unique index is a guard, and its violation an action
(`Conflict`) of its own; `ON DELETE CASCADE` is part of the deleting action.
`Fail` is a call that is refused or a process that dies there.

Descriptive columns, wording, validation of formats, hashing and layout are
abstracted.  A name is a model value, a slug is that name with the numeric suffix
of `generateUniqueSlug`.  Time counts days in `BusinessLifecycle` and `Erasure` and
instants (one per lifetime that matters) elsewhere.

Some definitions come in variants (`ApprovedRow`, `ApprovedRowUnverified`): the
variant is a mutation, used to see that a property notices the bug.

## 4. The modules

### 4.1 `BusinessLifecycle`

Tables `biz`, `card`, `redirects`, `audit`; `fresh` are ids that no row has used; `req`,
`job`, `now`, `fails`.

| handler | actions |
|---|---|
| `create` | `CreateCount`, `ProbeTaken`*, `ProbeFree`, `CreateSave`, `CreateCard`, `AuditLog` |
| `update` | `UpdateLoad`, the probe, `UpdateRedirect`, `UpdateReject` or `UpdateSelect`, `UpdateSelectCard` and `UpdateWrite`, `UpdateCard`, `AuditLog` |
| `softDelete` | `SoftDeleteLoad`, `SoftDeleteWrite`, `AuditLog` |
| `restore` | `RestoreLoad`, `RestoreWrite` |
| `approve` | `ApproveLoad`, `ApproveWrite`, `AuditLog` |
| `flag` | `FlagWrite`, `AuditLog` |
| nightly purge | `JobStart`, `JobDelete`, `JobAudit`, `JobFail` |

`bizRepo.save(biz)` is TypeORM's `save`: it SELECTs the stored row (`UpdateSelect`) and the card that
is saved along with it (`UpdateSelectCard`; `cascade: true`), compares them with the entity that
`UpdateLoad` read, and in one transaction UPDATEs the columns that differed and INSERTs what
the SELECT did not find (`UpdateWrite`, with `Saved` for what a table holds then).  What
changed between the load and the SELECT is written back to what it was, what changes after
it is kept unless its column had differed already.  This is what makes updates race with
everything else.  `RowRefused` and `CardRefused` are the constraints that refuse the
transaction.  The media of a listing, which the cascade saves too, are left out: no handler
changes them through the listing.

Two variables are history: `crossed` has the listings of which an UPDATE met a row that was not the
one SELECTed, `reprieved` those that a restore wrote while the purge had them on its list.

`Listing` is the promise, a state machine per listing: unborn, pending, active,
flagged, deleted, purged.  `BusinessRefinement` reads it off the tables.  One request at a
time implements it (`biz_serial`, and the theorem `ListingsKeepTheirPromise`); concurrent requests
do not, by `biz_stale_save`.

### 4.2 The proof modules

`BusinessProofs` extends `Cards`, and so has `BusinessLifecycle`, the refinement and the visitor in
view; `AccountsProofs`, `AnalyticsProofs`, `ErasureProofs`, `MediaProofs`, `ReadCacheProofs`,
`RlsPoolProofs` and `SessionsProofs` extend the module of their name (`MediaProofs` that of
`MediaUpload`).  See section 6.

### 4.3 `RlsPool`

Each handler is a program of awaited calls (`Program`), `begin` and `commit` around the
callback of `run()`.  A statement of the callback takes a connection of its own, while
`begin` holds the one of the transaction: `held` and `conn` of a request.  `Acquire`,
`Enqueue`, `Release` and `Timeout` are node-postgres, modelled from how it is configured in
`database.module.ts` (`max`, `connectionTimeoutMillis`); they are the external entries of the
map.  A refused statement raises, unwinds the open transactions with `Rollback` and
answers; only `AuditService.log` swallows it; and COMMIT itself may be refused (`CommitRefused`),
which unwinds the same way.  At the end of the transaction `SET LOCAL` leaves the setting an
empty string on the connection (`Empty`), as PostgreSQL does with a parameter it has not
declared: not NULL, as before the first transaction, and no tenant.

### 4.4 `Sessions`

`login` in steps (read, argon2, write counter or reset, issue tokens), Google sign-in,
`refreshTokens`, `logout` through `JwtAccessStrategy.validate`, suspension.  Redis keys carry
their expiry.  `guesses` counts wrong passwords since the last reset of the counter.

### 4.5 `Accounts`

`register` and `loginWithGoogle` insert a row and complete it with a second save;
`verifyEmail`, `changeRole`, the reset link, the hourly cleanup and the enrolment in MFA
interleave with them.  The second save is a SELECT and an UPDATE like the save of
`BusinessLifecycle`: of a registration it writes back every column that somebody changed between
the first save and the SELECT: the verification and the Google link of a sign-in in
between, and a second factor confirmed by then.

| handler | actions |
|---|---|
| `register` | `RegisterFind`, `RegisterSave`, `RegisterSelect`, `RegisterTenant`, `RegisterMail` |
| `verifyEmail` | `VerifyFind`, `VerifyWrite` |
| `loginWithGoogle` | `GoogleFind`, then `GoogleSave`, `GoogleSelect` and `GoogleTenant`, or `GoogleLink` |
| `changeRole` | `RoleFind`, `RoleWrite` |
| `requestPasswordReset`, `confirmPasswordReset` | `ResetFind`, `ResetStore`, `ResetMail`; `ConfirmGet`, `ConfirmWrite`, `ConfirmDel` |
| `setupMfa`, `confirmMfa` | the guard's `Admit`, then `SetupFind`, `SetupStore` or `EnrolGet`, `EnrolWrite`, `EnrolDel`, or `Refused` |

`Admit` is `JwtAccessStrategy.validate`: it lets nobody in whose row is not verified at that
moment, and the row may change before the handler reads it again.  `changeRole` writes any of
the three roles.  `Conflict` is the unique index on `email`.  `uses`, `worn` and `entered` are
history: password changes per link, secrets in force since MFA was last off, accounts that
were ever verified.  `Remember` keeps the last two in every step.

### 4.6 `Erasure`

The two deletion columns, written by users and admins, and the daily job.  `elapsed`
remembers the users whose scheduled day passed while the deletion was pending.

### 4.7 `MediaUpload`

| call of `upload` | actions |
|---|---|
| `checkUploadRateLimit` | `RateCount` (INCR and the verdict), `RateExpire` |
| `bizRepo.findOne`, `mediaRepo.count` and the checks of the file | `FindBusiness`, `CountFiles` or `Refuse` |
| the uploads to R2 | `PutBasic` or `PutPartly`, `PutBanner` |
| `mediaRepo.save` | `SaveRow`, or `Conflict` when the business was purged meanwhile |
| `queueMalwareScan` | `QueueScan` |

The last call, `audit.log`, touches none of this state.  `Delete` is a step without effect:
`MediaService.delete` reads `storage_key`, which `media-file.entity.ts:58` does not select, and
throws before it deletes anything.  `getPresignedUploadUrl` computes a URL.

### 4.8 `Analytics`

`Track` appends to the Redis list.  A run of `flushEventQueue` is `FlushStart`, one `Pop` per
LPOP, `PopEnd`, and one `Insert` or `Refused` for the whole batch; two runs may overlap,
because the cron does not wait and several processes may run it.  What was popped is in a
local variable until the insert: `Fail` loses it.  An event is `ok` unless its row breaks a
constraint from the start; one whose business is purged meanwhile breaks the foreign key.
`CreatePartition` stands for both jobs that make the partition of the next month.

### 4.9 `ReadCache`

`Miss`, one `Read` per parallel query, `Store` with SETEX; a hit changes nothing.  `Change`
stands for whatever another request or job does to what the queries select.  `KeyOf` maps
questions to keys: the dashboard leaves the tenant out of its key, so two questions may
share one.  `Tick` drops the entries that have expired, and `Span` bounds a request.

### 4.10 `Cards`

A visitor keeps the address of a listing on the air (`Bookmark`) and asks there later
(`GetCard`).  `FindListing` and `FindRedirect` are the two reads of `resolveSlug`; every step of
`BusinessLifecycle` may come between them.  The variable `visit` is declared there, so that both
share one `vars`, and nothing in it touches it.  The second read takes any redirect of
the slug, since the query has no order.  `biz_serial` runs on this module.  A redirect leaves
`getCard` as an exception, and `Filtered` is what `GlobalExceptionFilter` makes of it: the
status stays, the address does not.

## 5. The runs

Deadlock is checked in every run.

| run | bounds | shows |
|---|---|---|
| `biz_concurrent` | 2 ids, 1 owner, 1 name, 2 requests of every kind but `flag`, one day | what is on the air has its approval in the audit log, and when it loses its verified mark, under all interleavings of two requests |
| `biz_serial` | 1 listing, 3 names, 1 request, 1 visitor, 1 failure, 3 redirects, grace 1, days 0-2 | refinement of `Listing`, purge in the end, and an address of a listing stays known and leads on, whatever renames run |
| `rls_pool` | 3 connections, 2 requests, every handler, 1 refused statement | pool conservation, tenant confinement, answers |
| `sessions` | 1 user, 3 pairs, 2 requests, 2 attempts | lockout and rotation under races |
| `accounts` | 1 address, 1 link, 4 secrets, 2 requests, 1 failure, instants 0-1 | proof of verification, tenant, what a second save undoes, how often a reset link can be used, replaced secrets |
| `erasure` | 2 users, 2 requests, grace 1, days 0-3 | grace, whole schedules, completion |
| `media` | an owner and a stranger, 1 business, 3 files, 2 uploads, cap 1, 1 failure | cap under parallel uploads, row against bucket and queue, what a failure leaves |
| `analytics` | 3 events, 1 business, 2 runs, batches of 2, 1 failure, months 0-1 | no event twice, loss per crash and per bad event, partitions, drained queue |
| `read_cache` | 2 items, 2 questions with one key, 2 queries, 2 readers, lifetime 2, instants 0-4 | how stale an answer can be |

Runs that are expected to fail show a disagreement between the code and what the
repository says of it:

| run | property | what happens |
|---|---|---|
| `biz_stale_save` | `DeletionClearedOnRestoreOnly` | an update in flight undoes a soft delete |
| `biz_purge_race` | `PurgeOnlyExpired` | a restore at the end of the grace succeeds and the business is purged all the same |
| `rls_context` | `CallbackSeesTenant` | the callback's statements run without the tenant setting |

Why the bounds are enough:

- Grace 1 and two or three days contain the life of a deletion: written, in grace, on
  its last day, expired, purged.
- `RequestSpan` is the number of days a request or a run of the purge may last.  In
  `biz_purge_race` it is 1: a restore begins on the last day of a grace and ends after it, beside
  a run of the job that began in between.  A purged listing can come back from there: an
  update that loaded it between the restore and the deletion by id saves it, and `save()`
  inserts what its SELECT does not find.  That this happens in no other way is
  `ReturnsOnlyIfReprieved`, which is proved (`ReturnsAreReprieved` of section 6) for every
  number of days a request may last, as long as two in a row are over before a grace is.
- A listing on the air can lose its verified mark.  An update that loaded the pending row
  SELECTs the row after an approval and a restore or a flag, and the listing is approved again
  before the UPDATE: `crossed` holds it then, and `VerifiedUnlessCrossed` says that this is the
  only way.  Two requests in flight, and no `flag`, are enough to get there.
- In `biz_concurrent`, `MaxBusinesses = 1` with two ids reaches the cap; one name for two ids
  makes every slug collide; `MaxSuffix = 1` lets both be created.  No day passes, so the purge
  has nothing to do there: `biz_serial` has it beside one request, `biz_purge_race` beside two.
  Its requests need no day to pass to cross each other.  `flag` writes its row in one step, and
  for the crossing of two saves a delete and a restore do the same; it is in `biz_serial`.  The
  theorems about the properties are of every kind of request and any number of days.
- In `biz_serial` three names and three redirects let a listing move on, come back and go on
  to the third, and have renames rejected or cut off in between.  Its promises are of one
  request at a time: with two, `biz_stale_save` shows what they do to each other.  One
  listing is enough there, since the promises are of a listing; two listings that collide
  are in `biz_concurrent`.
- In `accounts` two requests are enough for the hard races: the one that created the account
  waits for its second save while the other signs in through Google, sets MFA up and
  confirms it, one after the other.  Four secrets let two enrolments overlap twice.  One link
  and two requests let both be past its GET when the first deletes it, and a failed DEL
  lets one in again.  One instant is enough for each life time to end before or after a step:
  verification mails live until the first one, links and pending secrets end with it.
  What holds for more requests is proved (section 6).
- In `analytics` three events overfill a batch of two, so that both runs carry something, and
  two months have one boundary, with and without the job before it.
- In `read_cache` a lifetime of 2 and a span of 1 let an entry be stored late, be overwritten
  by an older answer, and expire within the five instants.
- A `create` opens one transaction inside another and needs a third connection for the
  statements in between: three connections let one of them complete and let two of them
  exhaust the pool and wait on each other.  With two connections none would ever commit.
  All eight programs are started.
- Two attempts and two requests let both read the same counter; three pairs let a rotated
  token be replayed and rotated again.  `MaxGuesses` and `MaxCount` only cut off counting.
- In `media` a cap of one and two uploads let both pass the count; three files let a third
  upload start after the first two; a rate limit of 2 and a window of 1 let a counter be
  created, reach its limit and run out.
- Symmetry is used in runs that check no liveness.

### Fairness

- `biz_serial`: weak fairness of the job's own steps.  `ScheduleModule.forRoot` and the
  provider in `app.module.ts` make the cron fire every night and node runs the
  continuations; requests are not assumed to come.  Failures are bounded by `MaxFails`.
- `rls_pool`: weak fairness of each request's next step and of each waiting request's
  timeout: node runs continuations and timers, PostgreSQL answers.
- `erasure`: weak fairness of starting the job, strong fairness of each of its deletes: a
  run may die again and again, but not at the same user for ever.
- `analytics`: weak fairness of starting a run and of each run's steps: the cron fires every
  hour and node runs the continuations of its awaits.  Failures are bounded by `MaxFails`;
  purges, the partition job and new events are not assumed.

## 6. What is proved

The theorems hold for all values of the constants that satisfy the named assumptions of the
module (`ConstantsAssumption`, `NullAssumption` and `AnswerAssumption` for `BusinessLifecycle`
and `Cards`, `AccountsAssumption`, `AnalyticsAssumption`, `ErasureAssumption`, `MediaAssumption`,
`PoolAssumption`, `ReadCacheAssumption`, `SessionsAssumption`): any numbers of ids, addresses,
requests, connections and readers and any bounds.  The assumptions say that numbers are numbers,
that `Null` is none of the values it stands beside, and that the sets a property counts are
finite.  A theorem that needs more says so in its statement.

| module | theorem | states |
|---|---|---|
| `BusinessProofs` | `TypeCorrect` | `Spec => []TypeOK` |
| | `TypesAndLocals` | `Spec => []IInv` |
| | `VerifiedIfNotCrossed` | `Spec => []VerifiedUnlessCrossed` |
| | `ActiveLeavesTrace` | `Spec => []ActiveIsTraced`, when entries of approvals are kept (`"approved" \in Logged`) |
| | `ReturnsAreReprieved` | `Spec => ReturnsOnlyIfReprieved`, when `Short` |
| | `OldDeletionsStay` | `Spec => ClearedByRestoreOrEarly`, when `Short` |
| | `ListingsKeepTheirPromise` | `CardsSpec => ImplementsListing`, when `Alone` and `RequestSpan = 0` |
| | `RedirectsLeadHome` | `CardsSpec => []OldAddressLeadsHome`, when `Alone` and `RequestSpan = 0` |
| | `KnownAddresses` | `CardsSpec => KnownAddressIsAnswered`, when `Alone` and `RequestSpan = 0` |
| `RlsPoolProofs` | `TypeCorrect` | `Spec => []TypeOK` |
| | `ConnectionsConserved` | `Spec => []Conserved` |
| | `TenantsConfined` | `Spec => []TenantConfined` |
| `SessionsProofs` | `TypeCorrect` | `Spec => []TypeOK` |
| | `LimitBringsLock` | `Spec => []CountedOutIsLocked` |
| | `OnlyEarlierLoginLifts` | `Spec => LockLiftedByEarlierLogin` |
| | `ReplayIsRefused` | `Spec => ReplayRefused` |
| `AccountsProofs` | `TypeCorrect` | `Spec => []TypeOK` |
| | `VerifiedHasItsProof` | `Spec => []VerifiedHasProof` |
| | `TenantComes` | `Spec => []TenantUnlessFailed` |
| | `OnlySecondSavesUndo` | `Spec => UndoneBySecondSaveOnly` |
| | `LinksRunOut` | `Spec => []LinkUsesBounded` |
| | `SecretsRunOut` | `Spec => []SecretsBounded` |
| `ErasureProofs` | `TypeCorrect` | `Spec => []TypeOK` |
| | `SchedulesAreWhole` | `Spec => []ScheduleWhole` |
| | `ErasedOnlyAfterGrace` | `Spec => ErasedAfterGraceOnly` |
| `MediaProofs` | `TypeCorrect` | `Spec => []TypeOK` |
| | `VariantsAlwaysStored` | `Spec => []VariantsStored` |
| | `StoredFilesQueued` | `Spec => []StoredIsQueued` |
| | `OrphansAreExplained` | `Spec => []OrphansExplained` |
| | `CountersRunOut` | `Spec => []CounterRunsOut` |
| | `CapHolds` | `Spec => []CapOverrunBounded` |
| `AnalyticsProofs` | `TypeCorrect` | `Spec => []TypeOK` |
| | `NothingCountedTwice` | `Spec => []StoredAtMostOnce` |
| | `LossIsBounded` | `Spec => []LossBounded` |
| | `DefaultPartitionExplained` | `Spec => []DefaultOnlyAfterMiss` |
| `ReadCacheProofs` | `TypeCorrect` | `Spec => []TypeOK` |
| | `StaleIsBounded` | `Spec => []StaleBounded` |

Two hypotheses restrict the behaviours:

- `Short`: `2 * RequestSpan <= Grace`, two requests in a row are over before a grace is.  A request
  lasts seconds and the grace 30 days.  Requests and runs may still begin before the end of a
  grace and end after it, which is where the races are.  `OldDeletionsStay` says what the
  hypothesis leaves of "cleared on restore": a stale save clears a deletion only while it
  is as young as two requests last (`biz_stale_save` shows one), afterwards only a restore does.
- `Alone` and `RequestSpan = 0`: one request at a time, `\A r, s \in Requests : r = s`, on its day, with
  the purge, failures and the visitor beside it.  This is what the refinement and the
  visitor are checked under too; the runs that expect a violation show what two requests do.

The type invariants are not inductive: a later step writes what an earlier one kept, so what
a request holds at each `pc` has to be known.  Each module adds that, and then what its
property needs.

- `BusinessProofs`.  `IInv`: a request past its load holds a business id, an update a row, and so
  on.  For `VerifiedUnlessCrossed` the same holds one level up: a row kept by an update may
  come back at any time, so the invariant also says that every kept row that is active is
  verified, its listing crossed or not; and unless the UPDATE crosses, the columns it keeps and
  those it writes make up the row the update loaded (`SavedWhole`).  `ActiveIsTraced` needs in
  addition that a kept active row has its approval logged or under way: an approval seen by
  a load is logged by the time the row is written back, or its request is still at `audit`;
  an UPDATE takes the status from the kept row or from the stored one, so this needs no
  `crossed`.
- `DayInv`, for the end of a grace.  An update or a soft delete found its listing live on the day it
  began, so a deletion of that listing is no older than that, and by `Short` its grace has not
  ended: the listing is not on the list of the job, unless a restore wrote it while it was
  (`OnRow`).  What is on the list and was not reprieved is expired, and stays so.
- `AloneInv`, for the refinement.  What the one update loaded is still what is stored
  (`AloneOK`), so its save changes the slug only; and the two dates of a deletion are set together
  and only a deletion suspends (`Consistent`), so the columns amount to a state of `Listing`.
  `ListingActions` then says which change of one listing is which move, and
  `StepsPromised` goes through the steps: `CreateSave` submits, `ApproveWrite` approves or, of a
  deleted row, stutters, `FlagWrite` flags likewise, `SoftDeleteWrite` deletes, `RestoreWrite`
  restores, within the grace by `DayInv`, and `JobDelete` purges, after it by `DayInv`.
- `VisitInv`, for the visitor.  `OldAddressLeadsHome` is not inductive, since other listings'
  redirects may be what leads home and a purge takes them away.  `OwnWay` follows only the
  redirects of the listing itself: these go only with their row, and each rename has stored
  its redirect before it saves (`AloneOK`).  Once the listing has left its address, such a
  redirect starts there, which is what the second read of `resolveSlug` finds.
- `RlsPoolProofs`.  `IInv`: a request holds as many connections as its handler has
  transactions open at that statement (`Depth`), each once; who is in the queue waits and is
  there once; and a connection that carries a tenant is held by a request of that tenant.
- `AccountsProofs`.  `TInv`: the types, and what a request holds (`LocalOK`): from its insert
  on, its address has a row.  `PInv`: who may be verified, linked and armed while a second
  save is to come.  A row is created by one request (`OneCreator`), which sends the mail
  after its second save; so as long as that save is outstanding nobody has answered a mail,
  and a verified or armed account can only have been let in by Google: `ProofOK` says so, of the
  stored row and of the one the save has SELECTed, and it is why a second save demotes or
  disarms only accounts that are linked to Google.  `ResavedOK` says what its UPDATE leaves in
  each column.
  `CInv` counts.  A link that is still stored has been used at most once per request that is
  about to delete it and once per failure (`LinkLeft`).  The secrets an account has worn or may
  still come to wear are those that requests hold and the one in Redis (`Reach`); once MFA is
  on they are within the bound, or every request is busy with this account, and then nobody
  is free to fetch the one in Redis before it is replaced or deleted (`SecretsLeft`).
- `SessionsProofs`.  `IInv`: a login that compares a password kept a row that was not locked
  when it read it; a rotation past its revocation holds a pair that is spent, and so is the
  parent of every pair: its revocation key outlives it (`Spent`), which is what refuses the
  replay.
- `ErasureProofs`.  `IInv`: beside the types and whole schedules, every day that has passed
  with the deletion pending has been noticed (`DueNoticed`), and the job holds only users
  for whom that is so, also if the deletion was cancelled or moved since it listed them.
- `MediaProofs`.  `FilesInv`: an upload's file is its own (`OwnFiles`), nobody has touched a file
  that is not named yet (`Untouched`), and where an upload stands says what it has stored
  (`Placed`).  The properties with a failure count need a set that grows by one element at
  most, and only in a step that counts a failure.
- `AnalyticsProofs`.  `IInv`: an event is in one place at most (`OnePlace`): the queue, one
  batch or the table.  That is what makes an insert store it once, and what a failed run
  loses be no more than the batch it carries.
- `ReadCacheProofs`.  `IInv`: what a query has seen of an item is true or the item has
  changed since the request began (`Read1`), and an entry that is still there is younger
  than its lifetime (`Entry1`), so that the two durations add up.

Only model-checked: the liveness properties (`ExpiredEventuallyPurged`, `EveryRequestAnswered`,
`DueIsErased` and `QueueDrains`), since fairness and ENABLED are outside the prover's reach.
Of the invariants and action properties of the passing runs all are proved but
`LockoutBoundsGuesses`, which is checked for two logins in flight: with three the sum it allows
is too small, since the last of them may overwrite what two others have counted.

## 7. What is not modelled

- `listCards`, and what a visitor would do with a redirect if it reached one: `Cards` shows that
  a way from an old address exists, not that the redirect `resolveSlug` happens to pick is
  on it.  After renames from a to b, back to a and on to c, the redirects of a lead to b
  and to c, and a visitor who is always sent to b goes round in a circle.
- The day counters of `track`, which nothing reads; ranking and paging of search.
- Row level security policies themselves.  `RlsPool` models which connection carries which
  tenant, not what a policy lets through: that depends on the role the deployment
  connects with.
- The order of several node processes' jobs: two instances would both run the crons.  The
  purge by id is idempotent, the audit entry would be doubled.
- What Sharp makes of an image, and the ClamAV worker, which is not in the tree: a file in
  the scan queue is where `MediaUpload` ends.
- Guards, interceptors, metrics and configuration have no state of their own;
  docker, nginx, CI and the static front end are outside.

## 8. Disagreements seen while modelling

Those that a run shows are in section 5 and, with the lines, under "findings" in
`PROJECT.json`.  These follow from the code without a run; the models do what the code does:

- Between the SELECT and the UPDATE of a `save` (`businesses/business.service.ts:178`) other requests
  write, and a listing may end up on the air without its verified mark, which `approve` sets
  together with the status: `VerifiedUnlessCrossed` is as much as holds.
- `approve` loads the business without its card (`businesses/business.service.ts:251`), so
  the branch that publishes the card is never taken; line 86 says "published after admin
  approval".
- `logout` blacklists the `jti` of the object that `JwtAccessStrategy.validate` returns, a row of
  `users` without one: the key is `blacklist:undefined` (`auth/auth.service.ts:305`);
  `auth/auth.controller.ts:146` says "Logout and revoke tokens".
- `AnalyticsController.track` passes the tenant `public` (`analytics/analytics.controller.ts:79`),
  where the comment says the service resolves it.  The service puts it in the event, the
  column is a `uuid`, and the insert of the whole batch is refused.  In `Analytics` such an
  event is one that is not `ok`.
- The key of the dashboard's cache has no tenant (`analytics/analytics.service.ts:81`), while its
  queries do: an answer computed for one tenant is returned to another.
- `MediaService.delete` always throws (section 4.7).
- `listCards` asks `findAllForOwner` for the businesses of an owner whose id is `public`
  (`businesses/cards.controller.ts:62-66`), where line 60 says it "only returns active, non-deleted
  records": `owner_id` is a `uuid`, so PostgreSQL refuses the query.
- A redirect never reaches the visitor.  `getCard` throws it as an exception with status 301 whose
  response is `{statusCode, url}` (`businesses/cards.controller.ts:90-99`); `GlobalExceptionFilter`
  takes `message` and `error` from a response and builds a body of its own without `url` and
  without a `Location` header (`common/filters/global-exception.filter.ts:62-68`).  Line 82 of
  the controller says "Slug has moved", "follow redirect".  This is `Filtered` in `Cards`.
- An update that loaded a listing before another one renamed it saves the old slug back, by the
  same save that `biz_stale_save` is about, and stores no redirect from the slug that was in
  force in between; `businesses/entities/business-card.entity.ts:41` says "Changes stored in
  slug_redirects table".  It is why the two properties of `Cards` are of one request at a
  time.
