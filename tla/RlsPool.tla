------------------------------ MODULE RlsPool ------------------------------
(***************************************************************************)
(* RlsContextService (database/rls-context.service.ts) over the TypeORM    *)
(* connection pool that database.module.ts configures.                     *)
(*                                                                         *)
(* run() opens a transaction: one pooled connection carries BEGIN, SET     *)
(* LOCAL app.current_tenant and COMMIT, and is held meanwhile.  The        *)
(* callback, however, uses repositories of the data source, and each of    *)
(* their statements takes a connection of its own.  A request is therefore *)
(* a chain of acquire and release steps on one shared, bounded pool, with  *)
(* a timeout on every wait.                                                *)
(***************************************************************************)
EXTENDS Naturals, Sequences, FiniteSets

SX == INSTANCE SequencesExt

CONSTANTS
    Conns,      \* the connections of the pool: max, 20 in database.module.ts
    Requests,   \* requests in flight
    Tenants,
    TenantOf,   \* the tenant each request acts for
    Handlers,   \* the handlers clients may call
    MaxFails,   \* bound: statements the database refuses
    Null,
    Empty       \* '', what PostgreSQL leaves of a custom setting after SET LOCAL

\* What a handler asks of the pool, one entry per awaited call: "begin" and
\* "commit" bracket the callback of run(), "query" is a repository call, "audit"
\* is the save of AuditService.log, whose errors are swallowed.
Program ==
    [publicRead |-> <<"query">>,
     flag       |-> <<"query", "audit">>,
     approve    |-> <<"query", "query", "audit", "query">>,
     ownerRead  |-> <<"begin", "query", "commit">>,
     restore    |-> <<"query", "query", "begin", "query", "commit">>,
     softDelete |-> <<"begin", "query", "commit", "begin", "query", "commit", "audit">>,
     update     |-> <<"begin", "query", "commit", "query", "query", "query",
                      "begin", "query", "query", "commit", "audit">>,
     create     |-> <<"query", "query", "query", "begin", "query", "query", "audit",
                      "begin", "query", "commit", "commit">>]

AllHandlers == DOMAIN Program
MaxSteps    == 11

ASSUME PoolAssumption ==
    /\ Handlers \subseteq AllHandlers
    /\ MaxFails \in Nat
    /\ TenantOf \in [Requests -> Tenants]
    /\ Null \notin Conns /\ {Null, Empty} \cap Tenants = {}

VARIABLES
    free,       \* idle connections
    queue,      \* requests that wait for one, first come first served
    tenantOf,   \* app.current_tenant on each connection
    req,        \* the requests
    fails

vars == <<free, queue, tenantOf, req, fails>>

Off == [st |-> "off", call |-> Null, ip |-> 0, held |-> <<>>, conn |-> Null]

Init ==
    /\ free = Conns
    /\ queue = <<>>
    /\ tenantOf = [c \in Conns |-> Null]
    /\ req = [r \in Requests |-> Off]
    /\ fails = 0

\* The statement a request is at, and whether its handler is through.
Op(q)       == Program[q.call][q.ip]
Finished(q) == q.ip > Len(Program[q.call])

----------------------------------------------------------------------------
(* The pool *)

\* A connection comes back: it goes straight to the first waiting request, and
\* only without one to the idle set.  q is the new state of the requests.
Release(c, q) ==
    IF queue = <<>>
      THEN free' = free \cup {c} /\ queue' = queue /\ req' = q
      ELSE /\ free' = free
           /\ queue' = Tail(queue)
           /\ req' = [q EXCEPT ![Head(queue)].st = "exec", ![Head(queue)].conn = c]

\* The next statement of r needs a connection.
Wants(r) == /\ req[r].st = "run" /\ ~Finished(req[r])
            /\ Op(req[r]) \in {"begin", "query", "audit"}

Acquire(r) ==
    /\ Wants(r) /\ free # {}
    /\ \E c \in free :
         /\ free' = free \ {c}
         /\ req' = [req EXCEPT ![r].st = "exec", ![r].conn = c]
    /\ UNCHANGED <<queue, tenantOf, fails>>

Enqueue(r) ==
    /\ Wants(r) /\ free = {}
    /\ queue' = Append(queue, r)
    /\ req' = [req EXCEPT ![r].st = "wait"]
    /\ UNCHANGED <<free, tenantOf, fails>>

\* An error reaches the handler: the callback's transactions are rolled back,
\* innermost first.  An error in the audit log goes no further.  The mutation
\* never settles the promise.
RaisedNowhere(q) == q
Raised(q) == IF Op(q) = "audit" THEN [q EXCEPT !.st = "run", !.ip = @ + 1, !.conn = Null]
                                ELSE [q EXCEPT !.st = "unwind", !.conn = Null]

\* connectionTimeoutMillis has passed in the queue; the mutation leaves the request
\* there.
TimeoutInQueue(r) ==
    /\ req[r].st = "wait"
    /\ req' = [req EXCEPT ![r] = Raised(@)]
    /\ UNCHANGED <<free, queue, tenantOf, fails>>
Timeout(r) ==
    /\ req[r].st = "wait"
    /\ \E i \in DOMAIN queue : queue[i] = r /\ queue' = SX!RemoveAt(queue, i)
    /\ req' = [req EXCEPT ![r] = Raised(@)]
    /\ UNCHANGED <<free, tenantOf, fails>>

----------------------------------------------------------------------------
(* A request *)

Start(r) ==
    /\ req[r].st = "off"
    /\ \E h \in Handlers :
         req' = [req EXCEPT ![r] = [Off EXCEPT !.st = "run", !.call = h, !.ip = 1]]
    /\ UNCHANGED <<free, queue, tenantOf, fails>>

\* dataSource.transaction: BEGIN and the two SET LOCAL; the connection is kept.
Begin(r) ==
    LET c == req[r].conn IN
    /\ req[r].st = "exec" /\ Op(req[r]) = "begin"
    /\ tenantOf' = [tenantOf EXCEPT ![c] = TenantOf[r]]
    /\ req' = [req EXCEPT ![r].st = "run", ![r].ip = @ + 1, ![r].conn = Null,
                          ![r].held = Append(@, c)]
    /\ UNCHANGED <<free, queue, fails>>

\* A repository call, on whatever connection the pool gave.
Query(r) ==
    /\ req[r].st = "exec" /\ Op(req[r]) \in {"query", "audit"}
    /\ Release(req[r].conn, [req EXCEPT ![r].st = "run", ![r].ip = @ + 1, ![r].conn = Null])
    /\ UNCHANGED <<tenantOf, fails>>

\* The database refuses the statement.
Refused(r) ==
    /\ req[r].st = "exec" /\ fails < MaxFails
    /\ fails' = fails + 1
    /\ Release(req[r].conn, [req EXCEPT ![r] = Raised(@)])
    /\ UNCHANGED tenantOf

Last(s)      == s[Len(s)]

\* What is still held after the innermost transaction ended; the mutation goes on
\* using a connection it has given back.
FrontKept(s) == s
Front(s)     == SubSeq(s, 1, Len(s) - 1)

\* SET LOCAL ends with the transaction, and the setting, which the server did not
\* know before, stays on the connection as an empty string; the mutation: SET.
KeepSetting(c)  == tenantOf
ResetSetting(c) == [tenantOf EXCEPT ![c] = Empty]

\* The callback has returned: COMMIT, and the connection goes back.
Commit(r) ==
    LET c == Last(req[r].held) IN
    /\ req[r].st = "run" /\ ~Finished(req[r]) /\ Op(req[r]) = "commit"
    /\ tenantOf' = ResetSetting(c)
    /\ Release(c, [req EXCEPT ![r].ip = @ + 1, ![r].held = Front(@)])
    /\ UNCHANGED fails

\* COMMIT fails: transaction() rolls back, as if the callback had thrown.
CommitRefused(r) ==
    /\ req[r].st = "run" /\ ~Finished(req[r]) /\ Op(req[r]) = "commit"
    /\ fails < MaxFails
    /\ fails' = fails + 1
    /\ req' = [req EXCEPT ![r].st = "unwind"]
    /\ UNCHANGED <<free, queue, tenantOf>>

\* The callback threw: ROLLBACK, and the error goes on to the caller.
Rollback(r) ==
    LET c == Last(req[r].held) IN
    /\ req[r].st = "unwind" /\ req[r].held # <<>>
    /\ tenantOf' = ResetSetting(c)
    /\ Release(c, [req EXCEPT ![r].held = Front(@)])
    /\ UNCHANGED fails

Respond(r) ==
    /\ \/ req[r].st = "run" /\ Finished(req[r])
       \/ req[r].st = "unwind" /\ req[r].held = <<>>
    /\ req' = [req EXCEPT ![r] = Off]
    /\ UNCHANGED <<free, queue, tenantOf, fails>>

Run(r)  == \/ Acquire(r) \/ Enqueue(r) \/ Begin(r) \/ Query(r)
           \/ Commit(r) \/ Rollback(r) \/ Respond(r)
Step(r) == Start(r) \/ Run(r) \/ Timeout(r) \/ Refused(r) \/ CommitRefused(r)

Next == \E r \in Requests : Step(r)
Spec == Init /\ [][Next]_vars

\* node keeps running continuations, and the timer of a waiting request fires.
FairSpec == Spec /\ \A r \in Requests : WF_vars(Run(r)) /\ WF_vars(Timeout(r))

----------------------------------------------------------------------------
(* Properties *)

\* Everything is of its type, and who is in the queue is waiting.
TypeOK ==
    /\ free \subseteq Conns
    /\ queue \in Seq(Requests) /\ \A i \in DOMAIN queue : req[queue[i]].st = "wait"
    /\ tenantOf \in [Conns -> Tenants \cup {Null, Empty}]
    /\ req \in [Requests -> [st: {"off", "run", "wait", "exec", "unwind"},
                             call: AllHandlers \cup {Null},
                             ip: 0 .. MaxSteps + 1, held: Seq(Conns), conn: Conns \cup {Null}]]
    /\ fails \in 0 .. MaxFails

\* The connections a request has out: its open transactions and its statement.
HeldBy(r) == {req[r].held[i] : i \in DOMAIN req[r].held} \cup ({req[r].conn} \ {Null})

\* No connection is lost and none is used twice, however statements fail, time
\* out and unwind: each is idle or out with exactly one request, in one role
\* (RlsContextService.run, the pool).
Conserved ==
    /\ \A c \in Conns : c \in free \/ \E r \in Requests : c \in HeldBy(r)
    /\ \A r \in Requests :
         /\ HeldBy(r) \cap free = {}
         /\ \A s \in Requests \ {r} : HeldBy(r) \cap HeldBy(s) = {}
         /\ Cardinality(HeldBy(r)) = Len(req[r].held) + (IF req[r].conn = Null THEN 0 ELSE 1)

\* SET LOCAL never outlives its transaction: the tenant on a connection is that
\* of the request whose transaction it carries, and there is none on a
\* connection that is idle or runs a plain repository call, so one tenant's
\* setting never meets another's statements (RlsContextService.run).
TenantConfined ==
    \A c \in Conns : tenantOf[c] \in Tenants =>
        \E r \in Requests : /\ tenantOf[c] = TenantOf[r]
                            /\ \E i \in DOMAIN req[r].held : req[r].held[i] = c

\* Each request is answered, even when all connections are held by callbacks
\* that wait for one more: the timeouts break the circle (database.module.ts
\* connectionTimeoutMillis).
EveryRequestAnswered == \A r \in Requests : req[r].st # "off" ~> req[r].st = "off"

\* Every repository call inside a callback of run() sees the tenant's setting
\* (rls-context.service.ts: "All queries inside the callback will have RLS
\* applied for tenantId").
CallbackSeesTenant ==
    \A r \in Requests :
        req[r].st = "exec" /\ Op(req[r]) = "query" /\ req[r].held # <<>>
            => tenantOf[req[r].conn] = TenantOf[r]
=============================================================================
