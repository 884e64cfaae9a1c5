----------------------------- MODULE ReadCache -----------------------------
(***************************************************************************)
(* The read-through cache in Redis behind SearchService.search             *)
(* (search/search.service.ts) and AnalyticsService.getDashboard            *)
(* (analytics/analytics.service.ts): GET the key; on a miss send several   *)
(* queries at once, SETEX what they return, and answer with it.  Nothing   *)
(* invalidates an entry, so it is as wrong as its lifetime allows.         *)
(*                                                                         *)
(* An item is what a query selects: an active listing, or a stored event.  *)
(* An answer tells for each query which items it saw; ranking, paging and  *)
(* counting are functions of that.                                         *)
(***************************************************************************)
EXTENDS Naturals

CONSTANTS
    Items,
    Questions,  \* combinations of filters, or of business, days and tenant
    Keys,
    KeyOf,      \* the cache key of a question
    Matches,    \* the items a question is about
    Queries,    \* the queries of a question: two in search, three in getDashboard
    Readers,    \* requests that may be in flight together
    Ttl,        \* SEARCH_CACHE_TTL, and 300 in getDashboard
    Span,       \* bound: how long a request may take
    MaxTime,    \* bound: last instant
    Null

Answer  == [Queries -> SUBSET Items]
Entry   == [q: Questions, answer: Answer, exp: Nat]
Request == [pc: {"idle", "read"}, q: Questions \cup {Null}, answer: Answer,
            todo: SUBSET Queries, since: Nat]

ASSUME ReadCacheAssumption ==
    /\ KeyOf \in [Questions -> Keys]
    /\ Matches \in [Questions -> SUBSET Items]
    /\ Ttl \in Nat \ {0} /\ Span \in Nat /\ MaxTime \in Nat
    /\ Null \notin Questions \cup Entry

VARIABLES
    present,  \* the items that are in the database and selectable now
    changed,  \* history: when each item last came or went
    cache,    \* search:<filters> and dashboard:<business>:<days>
    req,
    now

vars == <<present, changed, cache, req, now>>

Nothing == [k \in Queries |-> {}]
Idle    == [pc |-> "idle", q |-> Null, answer |-> Nothing, todo |-> {}, since |-> 0]

Init ==
    /\ present \in SUBSET Items
    /\ changed = [i \in Items |-> 0]
    /\ cache = [k \in Keys |-> Null]
    /\ req = [r \in Readers |-> Idle]
    /\ now = 0

At(r, pc) == req[r].pc = pc

----------------------------------------------------------------------------
\* GET finds nothing.  A hit is answered at once and changes nothing.
Miss(r, q) ==
    /\ At(r, "idle") /\ cache[KeyOf[q]] = Null
    /\ req' = [req EXCEPT ![r] = [pc |-> "read", q |-> q, answer |-> Nothing,
                                    todo |-> Queries, since |-> now]]
    /\ UNCHANGED <<present, changed, cache, now>>

\* One of the parallel queries reaches the database, each on its own connection.
Read(r, k) ==
    /\ k \in req[r].todo
    /\ req' = [req EXCEPT ![r].answer[k] = present \cap Matches[req[r].q],
                          ![r].todo = @ \ {k}]
    /\ UNCHANGED <<present, changed, cache, now>>

\* When an entry goes; the mutations give it all the time there is, and none.
ExpiryNever == MaxTime + Ttl
ExpiryUnset == Null
Expiry      == now + Ttl

\* SETEX, over whatever a faster request has put there meanwhile.
Store(r) ==
    /\ At(r, "read") /\ req[r].todo = {}
    /\ cache' = [cache EXCEPT ![KeyOf[req[r].q]] =
                    [q |-> req[r].q, answer |-> req[r].answer, exp |-> Expiry]]
    /\ req' = [req EXCEPT ![r] = Idle]
    /\ UNCHANGED <<present, changed, now>>

\* A query or Redis fails: nothing is stored.
Fail(r) ==
    /\ At(r, "read")
    /\ req' = [req EXCEPT ![r] = Idle]
    /\ UNCHANGED <<present, changed, cache, now>>

\* Other requests: a listing is approved, flagged, deleted or restored; events
\* are flushed, or purged with their business.
Change(i) ==
    /\ present' = IF i \in present THEN present \ {i} ELSE present \cup {i}
    /\ changed' = [changed EXCEPT ![i] = now]
    /\ UNCHANGED <<cache, req, now>>

\* Time passes, and Redis drops the entries whose time has come.
Tick ==
    /\ now < MaxTime
    /\ \A r \in Readers : At(r, "read") => now < req[r].since + Span
    /\ now' = now + 1
    /\ cache' = [k \in Keys |->
                    IF cache[k] # Null /\ cache[k].exp <= now' THEN Null ELSE cache[k]]
    /\ UNCHANGED <<present, changed, req>>

Next ==
    \/ \E r \in Readers : \/ \E q \in Questions : Miss(r, q)
                          \/ \E k \in Queries : Read(r, k)
                          \/ Store(r) \/ Fail(r)
    \/ \E i \in Items : Change(i)
    \/ Tick

Spec == Init /\ [][Next]_vars

----------------------------------------------------------------------------
(* Properties *)

TypeOK ==
    /\ present \subseteq Items
    /\ changed \in [Items -> 0 .. MaxTime]
    /\ cache \in [Keys -> Entry \cup {Null}]
    /\ req \in [Readers -> Request]
    /\ now \in 0 .. MaxTime

\* What the cache says of an item is true, or the item changed less than a
\* lifetime and a request ago: a listing that is gone is not shown for longer, nor
\* one that came left out, however slow queries overwrite faster ones; and the
\* queries of an answer disagree about no other items (search, getDashboard).
StaleBounded ==
    \A k \in Keys : cache[k] # Null =>
        \A s \in Queries, i \in Matches[cache[k].q] :
            (i \in cache[k].answer[s]) # (i \in present) => now < changed[i] + Ttl + Span
=============================================================================
