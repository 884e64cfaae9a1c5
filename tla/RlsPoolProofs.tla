--------------------------- MODULE RlsPoolProofs ---------------------------
(***************************************************************************)
(* What RlsPool promises for any pool, requests, tenants and refusals.     *)
(***************************************************************************)
EXTENDS RlsPool, SequenceTheorems, FiniteSetTheorems, TLAPS

\* The transactions that are open before each statement of a handler, and after
\* the last one.
Depth ==
    [publicRead |-> <<0, 0>>,
     flag       |-> <<0, 0, 0>>,
     approve    |-> <<0, 0, 0, 0, 0>>,
     ownerRead  |-> <<0, 1, 1, 0>>,
     restore    |-> <<0, 0, 0, 1, 1, 0>>,
     softDelete |-> <<0, 1, 1, 0, 1, 1, 0, 0>>,
     update     |-> <<0, 1, 1, 0, 0, 0, 0, 1, 1, 1, 0, 0>>,
     create     |-> <<0, 0, 0, 0, 1, 1, 1, 1, 2, 2, 1, 0>>]

Request == [st: {"off", "run", "wait", "exec", "unwind"},
            call: AllHandlers \cup {Null},
            ip: 0 .. MaxSteps + 1, held: Seq(Conns), conn: Conns \cup {Null}]

HeldIn(q)  == {q.held[i] : i \in DOMAIN q.held}
OwnedBy(q) == HeldIn(q) \cup ({q.conn} \ {Null})

\* The statement of a request that waits for a connection, or runs on one.
Stated(q) == q.ip <= Len(Program[q.call]) /\ Op(q) \in {"begin", "query", "audit"}

\* A request holds one connection per transaction its handler has open, each once.
Placed(q) ==
    /\ q.st # "off" => q.call \in AllHandlers /\ q.ip \in 1 .. Len(Program[q.call]) + 1
    /\ q.st = "off" => q = Off
    /\ q.st \in {"run", "wait", "exec"} => Len(q.held) = Depth[q.call][q.ip]
    /\ q.st \in {"wait", "exec"} => Stated(q)
    /\ q.conn # Null <=> q.st = "exec"
    /\ q.conn \notin HeldIn(q)
    /\ \A i, j \in DOMAIN q.held : q.held[i] = q.held[j] => i = j

\* Whoever is in the queue waits, and is there once.
QueueOK ==
    /\ \A i \in DOMAIN queue : req[queue[i]].st = "wait"
    /\ \A i, j \in DOMAIN queue : queue[i] = queue[j] => i = j

\* Every connection is idle or out with one request.
Owned ==
    /\ \A c \in Conns : c \in free \/ \E r \in Requests : c \in HeldBy(r)
    /\ \A r \in Requests : /\ HeldBy(r) \cap free = {}
                           /\ \A s \in Requests \ {r} : HeldBy(r) \cap HeldBy(s) = {}

Types ==
    /\ free \subseteq Conns
    /\ queue \in Seq(Requests)
    /\ tenantOf \in [Conns -> Tenants \cup {Null, Empty}]
    /\ req \in [Requests -> Request]
    /\ fails \in 0 .. MaxFails

IInv ==
    /\ Types
    /\ \A r \in Requests : Placed(req[r])
    /\ QueueOK
    /\ Owned
    /\ TenantConfined

----------------------------------------------------------------------------
(* Sequences *)

\* What is left of a queue without its i-th entry.
LEMMA RemoveAtOK ==
    ASSUME NEW S, NEW s \in Seq(S), NEW i \in 1 .. Len(s)
    PROVE  /\ SX!RemoveAt(s, i) \in Seq(S)
           /\ Len(SX!RemoveAt(s, i)) = Len(s) - 1
           /\ \A j \in 1 .. Len(s) - 1 :
                SX!RemoveAt(s, i)[j] = IF j < i THEN s[j] ELSE s[j + 1]
  <1> DEFINE a == SubSeq(s, 1, i - 1)
             b == SubSeq(s, i + 1, Len(s))
  <1>1. a \in Seq(S) /\ Len(a) = i - 1 /\ \A j \in 1 .. i - 1 : a[j] = s[j]
    BY SubSeqProperties
  <1>2. b \in Seq(S) /\ Len(b) = Len(s) - i /\ \A j \in 1 .. Len(s) - i : b[j] = s[j + i]
    BY SubSeqProperties
  <1>3. SX!RemoveAt(s, i) = a \o b
    BY DEF SX!RemoveAt
  <1> HIDE DEF a, b
  <1>4. /\ a \o b \in Seq(S)
        /\ Len(a \o b) = Len(a) + Len(b)
        /\ \A j \in 1 .. Len(a) + Len(b) :
             (a \o b)[j] = IF j <= Len(a) THEN a[j] ELSE b[j - Len(a)]
    BY <1>1, <1>2, ConcatProperties
  <1>5. Len(a \o b) = Len(s) - 1
    BY <1>1, <1>2, <1>4
  <1>6. ASSUME NEW j \in 1 .. Len(s) - 1
        PROVE  (a \o b)[j] = IF j < i THEN s[j] ELSE s[j + 1]
    <2>1. (a \o b)[j] = IF j <= Len(a) THEN a[j] ELSE b[j - Len(a)]
      BY <1>1, <1>2, <1>4
    <2>2. CASE j < i
      BY <1>1, <2>1, <2>2
    <2>3. CASE ~(j < i)
      <3>1. j - (i - 1) \in 1 .. Len(s) - i
        BY <2>3
      <3> QED BY <1>1, <1>2, <2>1, <2>3, <3>1
    <2> QED BY <2>2, <2>3
  <1> QED BY <1>3, <1>4, <1>5, <1>6

\* The innermost transaction and the others.
LEMMA FrontLast ==
    ASSUME NEW S, NEW s \in Seq(S), s # <<>>
    PROVE  /\ Last(s) = s[Len(s)] /\ Last(s) \in S
           /\ Front(s) \in Seq(S) /\ Len(Front(s)) = Len(s) - 1
           /\ Len(s) \in Nat \ {0}
           /\ \A j \in 1 .. Len(s) - 1 : Front(s)[j] = s[j]
  <1> DEFINE n == Len(s) - 1
             t == SubSeq(s, 1, n)
  <1>1. Len(s) \in Nat \ {0} /\ Last(s) = s[Len(s)] /\ Last(s) \in S
    BY EmptySeq DEF Last
  <1>2. \A i \in 1 .. n : s[i] \in S
    OBVIOUS
  <1>3. n \in Nat /\ n \in Int /\ 1 \in Int
    BY <1>1
  <1>4. Front(s) = t
    BY DEF Front
  <1> HIDE DEF n
  <1>5. /\ t \in Seq(S)
        /\ Len(t) = IF 1 <= n THEN n - 1 + 1 ELSE 0
        /\ \A i \in 1 .. n - 1 + 1 : t[i] = s[1 + i - 1]
    BY <1>2, <1>3, SubSeqProperties
  <1> HIDE DEF t
  <1>6. Len(t) = n /\ \A i \in 1 .. n : t[i] = s[i]
    BY <1>3, <1>5
  <1> QED BY <1>1, <1>4, <1>5, <1>6 DEF n

\* As many connections as entries, when each is there once.
LEMMA CountDistinct ==
    ASSUME NEW S, NEW s \in Seq(S), \A i, j \in DOMAIN s : s[i] = s[j] => i = j
    PROVE  /\ IsFiniteSet({s[i] : i \in DOMAIN s})
           /\ Cardinality({s[i] : i \in DOMAIN s}) = Len(s)
  <1> DEFINE T == {s[i] : i \in DOMAIN s}
             n == Len(s)
  <1>1. n \in Nat /\ s \in [1 .. n -> T] /\ DOMAIN s = 1 .. n
    BY LenProperties
  <1>2. s \in Injection(1 .. n, T) /\ s \in Surjection(1 .. n, T)
    BY <1>1 DEF Injection, Surjection, IsInjective
  <1> HIDE DEF T, n
  <1>3. IsFiniteSet(1 .. n) /\ Cardinality(1 .. n) = n
    <2>1. 1 \in Int /\ n \in Int /\ n >= 0
      BY <1>1
    <2>2. IsFiniteSet(1 .. n) /\ Cardinality(1 .. n) = IF 1 > n THEN 0 ELSE n - 1 + 1
      BY <2>1, FS_Interval
    <2> QED BY <2>1, <2>2
  <1>4. IsFiniteSet(T) /\ Cardinality(T) = Cardinality(1 .. n)
    BY <1>2, <1>3, FS_Surjection
  <1> QED BY <1>3, <1>4 DEF T, n

----------------------------------------------------------------------------
(* The handlers *)

\* Every handler opens and closes its transactions in pairs.
LEMMA ProgramOK ==
    ASSUME NEW h \in AllHandlers
    PROVE  /\ Len(Program[h]) \in 1 .. MaxSteps
           /\ Depth[h][1] = 0 /\ Depth[h][Len(Program[h]) + 1] = 0
           /\ \A i \in 1 .. Len(Program[h]) :
                /\ Depth[h][i] \in Nat
                /\ Program[h][i] \in {"begin", "query", "audit", "commit"}
                /\ Program[h][i] = "begin" => Depth[h][i + 1] = Depth[h][i] + 1
                /\ Program[h][i] = "commit" => /\ Depth[h][i] > 0
                                               /\ Depth[h][i + 1] = Depth[h][i] - 1
                /\ Program[h][i] \in {"query", "audit"} => Depth[h][i + 1] = Depth[h][i]
  <1>1. h \in {"publicRead", "flag", "approve", "ownerRead", "restore", "softDelete", "update",
               "create"}
    BY DEF AllHandlers, Program
  <1>2. CASE h = "publicRead"
    BY <1>2 DEF Program, Depth, MaxSteps
  <1>3. CASE h = "flag"
    BY <1>3 DEF Program, Depth, MaxSteps
  <1>4. CASE h = "approve"
    BY <1>4 DEF Program, Depth, MaxSteps
  <1>5. CASE h = "ownerRead"
    BY <1>5 DEF Program, Depth, MaxSteps
  <1>6. CASE h = "restore"
    BY <1>6 DEF Program, Depth, MaxSteps
  <1>7. CASE h = "softDelete"
    BY <1>7 DEF Program, Depth, MaxSteps
  <1>8. CASE h = "update"
    BY <1>8 DEF Program, Depth, MaxSteps
  <1>9. CASE h = "create"
    BY <1>9 DEF Program, Depth, MaxSteps
  <1> QED BY <1>1, <1>2, <1>3, <1>4, <1>5, <1>6, <1>7, <1>8, <1>9

----------------------------------------------------------------------------
(* What a step of one request does to the pool *)

LEMMA RequestOK ==
    ASSUME IInv, NEW r \in Requests
    PROVE  /\ req[r] \in Request /\ Placed(req[r])
           /\ req[r].st # "off" => /\ req[r].call \in AllHandlers /\ req[r].ip \in Nat \ {0}
                                   /\ Len(Program[req[r].call]) \in 1 .. MaxSteps
           /\ HeldBy(r) = OwnedBy(req[r])
  <1>1. req[r] \in Request /\ Placed(req[r])
    BY DEF IInv, Types
  <1>2. req[r].st # "off" => /\ req[r].call \in AllHandlers /\ req[r].ip \in Nat \ {0}
                             /\ Len(Program[req[r].call]) \in 1 .. MaxSteps
    BY <1>1, ProgramOK DEF Placed, MaxSteps
  <1> QED BY <1>1, <1>2 DEF HeldBy, OwnedBy, HeldIn

LEMMA MoveOK ==
    ASSUME IInv, NEW r \in Requests, NEW q \in Request, req' = [req EXCEPT ![r] = q]
    PROVE  /\ req' \in [Requests -> Request]
           /\ \A s \in Requests : req'[s] = IF s = r THEN q ELSE req[s]
  BY DEF IInv, Types

\* A request and the idle set exchange connections.
LEMMA ExchangeOwned ==
    ASSUME IInv, NEW r \in Requests, NEW q,
           \A s \in Requests : req'[s] = IF s = r THEN q ELSE req[s],
           free' \cup OwnedBy(q) = free \cup HeldBy(r), free' \cap OwnedBy(q) = {}
    PROVE  Owned'
  <1>1. \A s \in Requests : HeldBy(s)' = IF s = r THEN OwnedBy(q) ELSE HeldBy(s)
    BY DEF HeldBy, OwnedBy, HeldIn
  <1>2. ASSUME NEW s \in Requests \ {r}
        PROVE  HeldBy(s) \cap (free' \cup OwnedBy(q)) = {}
    BY DEF IInv, Owned
  <1>3. ASSUME NEW c \in Conns
        PROVE  c \in free' \/ \E s \in Requests : c \in HeldBy(s)'
    BY <1>1 DEF IInv, Owned
  <1>4. ASSUME NEW s \in Requests
        PROVE  /\ HeldBy(s)' \cap free' = {}
               /\ \A t \in Requests \ {s} : HeldBy(s)' \cap HeldBy(t)' = {}
    <2>1. HeldBy(s)' \cap free' = {}
      BY <1>1, <1>2
    <2>2. ASSUME NEW t \in Requests \ {s}
          PROVE  HeldBy(s)' \cap HeldBy(t)' = {}
      BY <1>1, <1>2 DEF IInv, Owned
    <2> QED BY <2>1, <2>2
  <1> QED BY <1>3, <1>4 DEF Owned

\* One request hands a connection to another.
LEMMA HandOverOwned ==
    ASSUME IInv, NEW r \in Requests, NEW h \in Requests \ {r}, NEW q, NEW p, NEW c \in Conns,
           \A s \in Requests : req'[s] = IF s = r THEN q ELSE IF s = h THEN p ELSE req[s],
           free' = free,
           HeldBy(r) = OwnedBy(q) \cup {c}, c \notin OwnedBy(q),
           OwnedBy(p) = HeldBy(h) \cup {c}
    PROVE  Owned'
  <1>1. \A s \in Requests : HeldBy(s)' = IF s = r THEN OwnedBy(q)
                                         ELSE IF s = h THEN OwnedBy(p) ELSE HeldBy(s)
    BY DEF HeldBy, OwnedBy, HeldIn
  <1>2. ASSUME NEW d \in Conns
        PROVE  d \in free' \/ \E s \in Requests : d \in HeldBy(s)'
    BY <1>1 DEF IInv, Owned
  <1>3. ASSUME NEW s \in Requests
        PROVE  HeldBy(s)' \cap free' = {}
    BY <1>1 DEF IInv, Owned
  <1>4. ASSUME NEW s \in Requests, NEW t \in Requests \ {s}
        PROVE  HeldBy(s)' \cap HeldBy(t)' = {}
    BY <1>1 DEF IInv, Owned
  <1> QED BY <1>2, <1>3, <1>4 DEF Owned

\* The queue stays right while nobody in it moves.
LEMMA QueueKept ==
    ASSUME IInv, NEW r \in Requests, req[r].st # "wait",
           \A s \in Requests \ {r} : req'[s] = req[s], queue' = queue
    PROVE  QueueOK'
  <1>1. \A i \in DOMAIN queue : queue[i] \in Requests
    BY DEF IInv, Types
  <1> QED BY <1>1 DEF IInv, QueueOK

\* No connection gets a tenant, and none that has one leaves its transaction.
LEMMA TenantKept ==
    ASSUME IInv,
           \A c \in Conns : tenantOf'[c] \in Tenants => tenantOf'[c] = tenantOf[c],
           \A s \in Requests : \A c \in HeldIn(req[s]) :
               c \in Conns /\ tenantOf'[c] \in Tenants => c \in HeldIn(req'[s])
    PROVE  TenantConfined'
  <1> SUFFICES ASSUME NEW c \in Conns, tenantOf'[c] \in Tenants
               PROVE  \E s \in Requests : tenantOf'[c] = TenantOf[s]
                                          /\ \E i \in DOMAIN req'[s].held : req'[s].held[i] = c
    BY DEF TenantConfined
  <1>1. tenantOf'[c] = tenantOf[c]
    OBVIOUS
  <1>2. PICK s \in Requests : tenantOf[c] = TenantOf[s]
                              /\ \E i \in DOMAIN req[s].held : req[s].held[i] = c
    BY <1>1 DEF IInv, TenantConfined
  <1>3. c \in HeldIn(req'[s])
    BY <1>2 DEF HeldIn
  <1> QED BY <1>1, <1>2, <1>3 DEF HeldIn

----------------------------------------------------------------------------
(* A connection comes back *)

LEMMA ReleaseInv ==
    ASSUME IInv, NEW r \in Requests, NEW q \in Request, NEW c \in Conns,
           req[r].st # "wait", q.st \in {"run", "unwind"}, Placed(q),
           HeldBy(r) = OwnedBy(q) \cup {c}, c \notin OwnedBy(q),
           HeldIn(req[r]) \subseteq HeldIn(q) \cup {c},
           c \in HeldIn(req[r]) => tenantOf'[c] \notin Tenants,
           tenantOf' \in [Conns -> Tenants \cup {Null, Empty}],
           \A d \in Conns : tenantOf'[d] \in Tenants => tenantOf'[d] = tenantOf[d],
           fails' \in 0 .. MaxFails,
           Release(c, [req EXCEPT ![r] = q])
    PROVE  IInv'
  <1> DEFINE h == Head(queue)
             p == [req[h] EXCEPT !.st = "exec", !.conn = c]
  <1>1. req \in [Requests -> Request] /\ queue \in Seq(Requests) /\ free \subseteq Conns
    BY DEF IInv, Types
  <1>2. CASE queue = <<>>
    <2>1. /\ free' = free \cup {c} /\ queue' = queue /\ req' = [req EXCEPT ![r] = q]
      BY <1>2 DEF Release
    <2>2. /\ req' \in [Requests -> Request]
          /\ \A s \in Requests : req'[s] = IF s = r THEN q ELSE req[s]
      BY <2>1, MoveOK
    <2>3. Owned'
      <3>1. HeldBy(r) \cap free = {}
        BY DEF IInv, Owned
      <3> QED BY <2>1, <2>2, <3>1, ExchangeOwned
    <2>4. QueueOK'
      BY <2>1, <2>2, QueueKept
    <2>5. TenantConfined'
      BY <2>2, TenantKept
    <2>6. Types'
      BY <1>1, <2>1, <2>2 DEF Types
    <2>7. \A s \in Requests : Placed(req[s])'
      BY <2>2 DEF IInv, Placed, Stated, HeldIn, Op
    <2> QED BY <2>3, <2>4, <2>5, <2>6, <2>7 DEF IInv
  <1>3. CASE queue # <<>>
    <2>1. /\ free' = free /\ queue' = Tail(queue)
          /\ req' = [[req EXCEPT ![r] = q] EXCEPT ![h].st = "exec", ![h].conn = c]
      BY <1>3 DEF Release
    <2>2. h \in Requests /\ h = queue[1] /\ 1 \in DOMAIN queue
          /\ Tail(queue) \in Seq(Requests) /\ Len(Tail(queue)) = Len(queue) - 1
          /\ Len(queue) \in Nat
          /\ \A i \in 1 .. Len(queue) - 1 : Tail(queue)[i] = queue[i + 1]
      BY <1>1, <1>3
    <2>3. req[h].st = "wait" /\ h # r
      BY <2>2 DEF IInv, QueueOK
    <2>4. req[h] \in Request /\ Placed(req[h]) /\ req[h].conn = Null /\ HeldBy(h) = OwnedBy(req[h])
      BY <2>2, <2>3, RequestOK DEF Placed
    <2>5. /\ p \in Request /\ p.st = "exec" /\ p.conn = c /\ p.held = req[h].held
          /\ p.call = req[h].call /\ p.ip = req[h].ip
      BY <2>4 DEF Request
    <2>6. /\ req' \in [Requests -> Request]
          /\ \A s \in Requests : req'[s] = IF s = r THEN q ELSE IF s = h THEN p ELSE req[s]
      <3>1. [req EXCEPT ![r] = q][h] = req[h]
        BY <1>1, <2>2, <2>3
      <3>2. req' = [[req EXCEPT ![r] = q] EXCEPT ![h] = p]
        BY <2>1, <3>1
      <3> HIDE DEF p, h
      <3> QED BY <1>1, <2>2, <2>3, <2>5, <3>2
    <2> HIDE DEF p, h
    <2>7. c # Null
      BY PoolAssumption
    <2>8. HeldIn(p) = HeldIn(req[h]) /\ OwnedBy(p) = HeldBy(h) \cup {c}
      BY <2>4, <2>5, <2>7 DEF HeldIn, OwnedBy
    <2>9. c \notin HeldIn(req[h])
      <3>1. HeldBy(r) \cap HeldBy(h) = {}
        BY <2>2, <2>3 DEF IInv, Owned
      <3> QED BY <2>4, <3>1 DEF OwnedBy
    <2>10. Placed(p)
      BY <2>3, <2>4, <2>5, <2>7, <2>8, <2>9 DEF Placed, Stated, Op
    <2>11. Owned'
      <3>1. free' = free /\ h \in Requests \ {r} /\ OwnedBy(p) = HeldBy(h) \cup {c}
        BY <2>1, <2>2, <2>3, <2>8
      <3>2. \A s \in Requests : req'[s] = IF s = r THEN q ELSE IF s = h THEN p ELSE req[s]
        BY <2>6
      <3> QED BY <3>1, <3>2, HandOverOwned
    <2>12. QueueOK'
      <3>1. \A i \in DOMAIN queue : queue[i] \in Requests /\ queue[i] # r
        BY <1>1 DEF IInv, QueueOK
      <3>2. ASSUME NEW i \in DOMAIN queue'
            PROVE  /\ i \in 1 .. Len(queue) - 1 /\ i + 1 \in DOMAIN queue
                   /\ queue'[i] = queue[i + 1] /\ queue[i + 1] # h
        <4>1. i \in 1 .. Len(queue) - 1 /\ i + 1 \in DOMAIN queue /\ queue'[i] = queue[i + 1]
          BY <1>1, <2>1, <2>2
        <4> QED BY <2>2, <4>1 DEF IInv, QueueOK
      <3>3. \A i \in DOMAIN queue' : req'[queue'[i]].st = "wait"
        BY <2>6, <3>1, <3>2 DEF IInv, QueueOK
      <3>4. \A i, j \in DOMAIN queue' : queue'[i] = queue'[j] => i = j
        <4> SUFFICES ASSUME NEW i \in DOMAIN queue', NEW j \in DOMAIN queue', queue'[i] = queue'[j]
                     PROVE  i = j
          OBVIOUS
        <4>1. i + 1 = j + 1
          BY <3>2 DEF IInv, QueueOK
        <4> QED BY <3>2, <4>1
      <3> QED BY <3>3, <3>4 DEF QueueOK
    <2>13. TenantConfined'
      <3>1. ASSUME NEW s \in Requests, NEW d \in HeldIn(req[s]), d \in Conns,
                   tenantOf'[d] \in Tenants
            PROVE  d \in HeldIn(req'[s])
        BY <2>6, <2>8, <3>1
      <3> QED BY <3>1, TenantKept
    <2>14. Types'
      BY <1>1, <2>1, <2>2, <2>6 DEF Types
    <2>15. \A s \in Requests : Placed(req[s])'
      <3>1. \A s \in Requests : Placed(req'[s])
        BY <2>6, <2>10 DEF IInv
      <3> QED BY <3>1 DEF Placed, Stated, HeldIn, Op
    <2> QED BY <2>11, <2>12, <2>13, <2>14, <2>15 DEF IInv
  <1> QED BY <1>2, <1>3

----------------------------------------------------------------------------
(* The steps *)

LEMMA OffOK == Off \in Request /\ Placed(Off) /\ OwnedBy(Off) = {} /\ HeldIn(Off) = {}
               /\ Off.st = "off" /\ Off.held = <<>> /\ Off.conn = Null
  <1>1. Off \in Request /\ Off.st = "off" /\ Off.held = <<>> /\ Off.conn = Null
    BY DEF Off, Request, MaxSteps
  <1>2. HeldIn(Off) = {}
    BY <1>1 DEF HeldIn
  <1> QED BY <1>1, <1>2 DEF Placed, OwnedBy

LEMMA InitInv == Init => IInv
  <1> SUFFICES ASSUME Init PROVE IInv
    OBVIOUS
  <1>1. \A r \in Requests : req[r] = Off
    BY DEF Init
  <1>2. Types
    BY OffOK, PoolAssumption DEF Init, Types
  <1>3. Owned
    BY <1>1, OffOK DEF Init, Owned, HeldBy, OwnedBy, HeldIn
  <1> QED BY <1>1, <1>2, <1>3, OffOK, PoolAssumption DEF Init, IInv, QueueOK, TenantConfined

\* A step of one request that neither takes a tenant nor releases a connection.
LEMMA LocalInv ==
    ASSUME IInv, NEW r \in Requests, NEW q \in Request, Placed(q),
           req' = [req EXCEPT ![r] = q], HeldIn(q) = HeldIn(req[r]),
           free' \subseteq Conns, tenantOf' = tenantOf, fails' \in 0 .. MaxFails,
           free' \cup OwnedBy(q) = free \cup HeldBy(r), free' \cap OwnedBy(q) = {},
           queue' \in Seq(Requests), QueueOK'
    PROVE  IInv'
  <1>1. /\ req' \in [Requests -> Request]
        /\ \A s \in Requests : req'[s] = IF s = r THEN q ELSE req[s]
    BY MoveOK
  <1>2. Owned'
    BY <1>1, ExchangeOwned
  <1>3. TenantConfined'
    BY <1>1, TenantKept
  <1>4. Types'
    BY <1>1 DEF IInv, Types
  <1>5. \A s \in Requests : Placed(req[s])'
    BY <1>1 DEF IInv, Placed, Stated, HeldIn, Op
  <1> QED BY <1>2, <1>3, <1>4, <1>5 DEF IInv

LEMMA WantsOK ==
    ASSUME IInv, NEW r \in Requests, Wants(r)
    PROVE  req[r].st = "run" /\ Stated(req[r]) /\ req[r].conn = Null
           /\ OwnedBy(req[r]) = HeldIn(req[r])
  BY RequestOK DEF Wants, Finished, Stated, Placed, OwnedBy, MaxSteps

LEMMA AcquireInv ==
    ASSUME IInv, NEW r \in Requests, Acquire(r)
    PROVE  IInv'
  <1>1. PICK c \in free : /\ free' = free \ {c}
                          /\ req' = [req EXCEPT ![r].st = "exec", ![r].conn = c]
    BY DEF Acquire
  <1>2. c \in Conns /\ c # Null /\ UNCHANGED <<queue, tenantOf, fails>>
    BY PoolAssumption DEF Acquire, IInv, Types
  <1>3. req[r].st = "run" /\ Stated(req[r]) /\ OwnedBy(req[r]) = HeldIn(req[r])
        /\ req[r] \in Request /\ Placed(req[r]) /\ HeldBy(r) = OwnedBy(req[r])
    BY WantsOK, RequestOK DEF Acquire
  <1>4. PICK q \in Request : /\ q = [req[r] EXCEPT !.st = "exec", !.conn = c]
                             /\ q.st = "exec" /\ q.conn = c /\ q.held = req[r].held
                             /\ q.call = req[r].call /\ q.ip = req[r].ip
    <2> DEFINE p == [req[r] EXCEPT !.st = "exec", !.conn = c]
    <2>1. /\ p \in Request /\ p.st = "exec" /\ p.conn = c /\ p.held = req[r].held
          /\ p.call = req[r].call /\ p.ip = req[r].ip
      BY <1>2, <1>3 DEF Request
    <2> HIDE DEF p
    <2> QED BY <2>1 DEF p
  <1>5. req' = [req EXCEPT ![r] = q]
    BY <1>1, <1>4
  <1>6. HeldIn(q) = HeldIn(req[r]) /\ OwnedBy(q) = HeldBy(r) \cup {c} /\ HeldBy(r) \cap free = {}
    BY <1>2, <1>3, <1>4 DEF HeldIn, OwnedBy, IInv, Owned
  <1>7. Placed(q)
    BY <1>2, <1>3, <1>4, <1>6 DEF Placed, Stated, Op
  <1>8. QueueOK'
    BY <1>2, <1>3, <1>4, <1>5, MoveOK, QueueKept
  <1>9. /\ free' \cup OwnedBy(q) = free \cup HeldBy(r) /\ free' \cap OwnedBy(q) = {}
        /\ free' \subseteq Conns /\ queue' \in Seq(Requests)
    BY <1>1, <1>2, <1>6 DEF IInv, Types
  <1> QED BY <1>2, <1>5, <1>6, <1>7, <1>8, <1>9, LocalInv DEF IInv, Types

LEMMA EnqueueInv ==
    ASSUME IInv, NEW r \in Requests, Enqueue(r)
    PROVE  IInv'
  <1>1. queue' = Append(queue, r) /\ req' = [req EXCEPT ![r].st = "wait"]
        /\ UNCHANGED <<free, tenantOf, fails>>
    BY DEF Enqueue
  <1>2. req[r].st = "run" /\ Stated(req[r]) /\ req[r].conn = Null
        /\ req[r] \in Request /\ Placed(req[r]) /\ HeldBy(r) = OwnedBy(req[r])
    BY WantsOK, RequestOK DEF Enqueue
  <1>3. PICK q \in Request : /\ q = [req[r] EXCEPT !.st = "wait"]
                             /\ q.st = "wait" /\ q.conn = Null /\ q.held = req[r].held
                             /\ q.call = req[r].call /\ q.ip = req[r].ip
    <2> DEFINE p == [req[r] EXCEPT !.st = "wait"]
    <2>1. /\ p \in Request /\ p.st = "wait" /\ p.conn = Null /\ p.held = req[r].held
          /\ p.call = req[r].call /\ p.ip = req[r].ip
      BY <1>2 DEF Request
    <2> HIDE DEF p
    <2> QED BY <2>1 DEF p
  <1>4. req' = [req EXCEPT ![r] = q]
    BY <1>1, <1>3
  <1>5. HeldIn(q) = HeldIn(req[r]) /\ OwnedBy(q) = HeldBy(r) /\ HeldBy(r) \cap free = {}
    BY <1>2, <1>3 DEF HeldIn, OwnedBy, IInv, Owned
  <1>6. Placed(q)
    BY <1>2, <1>3, <1>5 DEF Placed, Stated, Op
  <1>7. queue \in Seq(Requests) /\ queue' \in Seq(Requests)
    BY <1>1 DEF IInv, Types
  <1>8. QueueOK'
    <2>1. \A s \in Requests : req'[s] = IF s = r THEN q ELSE req[s]
      BY <1>3, <1>4, MoveOK
    <2>2. \A i \in DOMAIN queue : queue[i] \in Requests \ {r}
      BY <1>2, <1>7 DEF IInv, QueueOK
    <2>3. /\ DOMAIN queue' = 1 .. Len(queue) + 1 /\ Len(queue) \in Nat
          /\ DOMAIN queue = 1 .. Len(queue)
          /\ \A i \in 1 .. Len(queue) + 1 :
               queue'[i] = IF i <= Len(queue) THEN queue[i] ELSE r
      BY <1>1, <1>7
    <2>4. ASSUME NEW i \in DOMAIN queue'
          PROVE  req'[queue'[i]].st = "wait"
      <3>1. CASE i \in DOMAIN queue
        <4>1. queue'[i] = queue[i]
          BY <2>3, <3>1
        <4> QED BY <2>1, <2>2, <3>1, <4>1 DEF IInv, QueueOK
      <3>2. CASE i \notin DOMAIN queue
        <4>1. queue'[i] = r
          BY <2>3, <3>2
        <4> QED BY <1>3, <2>1, <4>1
      <3> QED BY <3>1, <3>2
    <2>5. \A i, j \in DOMAIN queue' : queue'[i] = queue'[j] => i = j
      BY <2>2, <2>3 DEF IInv, QueueOK
    <2> QED BY <2>4, <2>5 DEF QueueOK
  <1>9. /\ free' \cup OwnedBy(q) = free \cup HeldBy(r) /\ free' \cap OwnedBy(q) = {}
        /\ free' \subseteq Conns
    BY <1>1, <1>5 DEF IInv, Types
  <1> QED BY <1>1, <1>4, <1>5, <1>6, <1>7, <1>8, <1>9, LocalInv DEF IInv, Types

\* The place after a statement.
LEMMA NextStatement ==
    ASSUME IInv, NEW r \in Requests, req[r].st \in {"run", "wait", "exec"},
           req[r].ip <= Len(Program[req[r].call])
    PROVE  LET o  == req[r]
               ip == o.ip + 1
           IN  /\ ip \in 1 .. Len(Program[o.call]) + 1 /\ ip \in 0 .. MaxSteps + 1
               /\ Op(o) = "begin" => Depth[o.call][ip] = Len(o.held) + 1
               /\ Op(o) = "commit" => Len(o.held) > 0 /\ Depth[o.call][ip] = Len(o.held) - 1
               /\ Op(o) \in {"query", "audit"} => Depth[o.call][ip] = Len(o.held)
  <1> DEFINE o == req[r]
  <1>1. /\ o.call \in AllHandlers /\ o.ip \in Nat \ {0} /\ Len(o.held) = Depth[o.call][o.ip]
        /\ Len(Program[o.call]) \in 1 .. MaxSteps
    BY RequestOK DEF Placed
  <1>2. PICK n \in 1 .. MaxSteps : n = Len(Program[o.call])
    BY <1>1
  <1>3. PICK i \in Nat \ {0} : i = o.ip
    BY <1>1
  <1>4. i <= n /\ n \in Nat /\ n <= 11 /\ 0 .. 12 = 0 .. MaxSteps + 1
    <2>1. i <= n
      BY <1>2, <1>3
    <2> QED BY <2>1 DEF MaxSteps
  <1>5. i \in 1 .. n /\ i + 1 \in 1 .. n + 1 /\ i + 1 \in 0 .. 12
    BY <1>4
  <1>6. /\ Op(o) = "begin" => Depth[o.call][i + 1] = Depth[o.call][i] + 1
        /\ Op(o) = "commit" => /\ Depth[o.call][i] > 0
                               /\ Depth[o.call][i + 1] = Depth[o.call][i] - 1
        /\ Op(o) \in {"query", "audit"} => Depth[o.call][i + 1] = Depth[o.call][i]
    BY <1>1, <1>2, <1>3, <1>5, ProgramOK DEF Op
  <1> QED BY <1>1, <1>2, <1>3, <1>4, <1>5, <1>6

\* An error leaves a request in a place it may be in, without the connection it used.
LEMMA RaisedOK ==
    ASSUME IInv, NEW r \in Requests, req[r].st \in {"wait", "exec"}
    PROVE  LET q == Raised(req[r]) IN
           /\ q \in Request /\ q.st \in {"run", "unwind"} /\ Placed(q)
           /\ HeldIn(q) = HeldIn(req[r]) /\ OwnedBy(q) = HeldIn(req[r])
  <1> DEFINE o == req[r]
             q == Raised(o)
             ip == o.ip + 1
  <1>1. /\ o \in Request /\ Placed(o) /\ o.call \in AllHandlers /\ o.ip \in Nat \ {0}
        /\ Len(Program[o.call]) \in 1 .. MaxSteps /\ Stated(o)
    BY RequestOK DEF Placed
  <1>2. CASE Op(o) = "audit"
    <2>1. /\ ip \in 1 .. Len(Program[o.call]) + 1 /\ ip \in 0 .. MaxSteps + 1
          /\ Depth[o.call][ip] = Len(o.held)
      BY <1>1, <1>2, NextStatement DEF Stated
    <2>2. q = [o EXCEPT !.st = "run", !.ip = ip, !.conn = Null]
      BY <1>2 DEF Raised
    <2> HIDE DEF ip
    <2>3. /\ q \in Request /\ q.st = "run" /\ q.ip = ip /\ q.conn = Null /\ q.held = o.held
          /\ q.call = o.call
      BY <1>1, <2>1, <2>2 DEF Request
    <2>4. HeldIn(q) = HeldIn(o) /\ OwnedBy(q) = HeldIn(o) /\ Null \notin HeldIn(o)
      BY <1>1, <2>3, PoolAssumption DEF HeldIn, OwnedBy, Request
    <2>5. Placed(q)
      BY <1>1, <2>1, <2>3, <2>4 DEF Placed
    <2> QED BY <2>3, <2>4, <2>5
  <1>3. CASE Op(o) # "audit"
    <2>1. q = [o EXCEPT !.st = "unwind", !.conn = Null]
      BY <1>3 DEF Raised
    <2>2. /\ q \in Request /\ q.st = "unwind" /\ q.ip = o.ip /\ q.conn = Null /\ q.held = o.held
          /\ q.call = o.call
      BY <1>1, <2>1 DEF Request
    <2>3. HeldIn(q) = HeldIn(o) /\ OwnedBy(q) = HeldIn(o) /\ Null \notin HeldIn(o)
      BY <1>1, <2>2, PoolAssumption DEF HeldIn, OwnedBy, Request
    <2>4. Placed(q)
      BY <1>1, <2>2, <2>3 DEF Placed
    <2> QED BY <2>2, <2>3, <2>4
  <1> QED BY <1>2, <1>3

LEMMA TimeoutInv ==
    ASSUME IInv, NEW r \in Requests, Timeout(r)
    PROVE  IInv'
  <1>1. PICK i \in DOMAIN queue : queue[i] = r /\ queue' = SX!RemoveAt(queue, i)
    BY DEF Timeout
  <1>2. PICK q : q = Raised(req[r])
    OBVIOUS
  <1>3. req[r].st = "wait" /\ req' = [req EXCEPT ![r] = q] /\ UNCHANGED <<free, tenantOf, fails>>
    BY <1>2 DEF Timeout
  <1>4. /\ q \in Request /\ Placed(q) /\ HeldIn(q) = HeldIn(req[r]) /\ OwnedBy(q) = HeldIn(req[r])
    BY <1>2, <1>3, RaisedOK
  <1>5. HeldBy(r) = HeldIn(req[r]) /\ HeldBy(r) \cap free = {}
    <2>1. req[r].conn = Null /\ HeldBy(r) = OwnedBy(req[r]) /\ req[r] \in Request
      BY <1>3, RequestOK DEF Placed
    <2> QED BY <2>1 DEF OwnedBy, IInv, Owned
  <1>6. /\ queue \in Seq(Requests) /\ queue' \in Seq(Requests) /\ Len(queue') = Len(queue) - 1
        /\ Len(queue) \in Nat /\ i \in 1 .. Len(queue)
        /\ \A j \in 1 .. Len(queue) - 1 : queue'[j] = IF j < i THEN queue[j] ELSE queue[j + 1]
    <2>1. queue \in Seq(Requests) /\ Len(queue) \in Nat /\ i \in 1 .. Len(queue)
      BY DEF IInv, Types
    <2> QED BY <1>1, <2>1, RemoveAtOK
  <1>7. QueueOK'
    <2>1. \A s \in Requests : req'[s] = IF s = r THEN q ELSE req[s]
      BY <1>3, <1>4, MoveOK
    <2> DEFINE old(j) == IF j < i THEN j ELSE j + 1
    <2>2. ASSUME NEW j \in DOMAIN queue'
          PROVE  old(j) \in DOMAIN queue /\ old(j) # i /\ queue'[j] = queue[old(j)] /\ j \in Nat
      <3>1. j \in 1 .. Len(queue) - 1
        BY <1>6
      <3> QED BY <1>6, <3>1
    <2>3. \A j \in DOMAIN queue' : queue'[j] \in Requests \ {r} /\ req[queue'[j]].st = "wait"
      BY <1>1, <1>6, <2>2 DEF IInv, QueueOK
    <2>4. \A j \in DOMAIN queue' : req'[queue'[j]].st = "wait"
      BY <2>1, <2>3
    <2>5. \A j, k \in DOMAIN queue' : queue'[j] = queue'[k] => j = k
      <3> SUFFICES ASSUME NEW j \in DOMAIN queue', NEW k \in DOMAIN queue', queue'[j] = queue'[k]
                   PROVE  j = k
        OBVIOUS
      <3>1. old(j) = old(k)
        <4> HIDE DEF old
        <4> QED BY <2>2 DEF IInv, QueueOK
      <3> QED BY <1>6, <2>2, <3>1
    <2> QED BY <2>4, <2>5 DEF QueueOK
  <1>8. /\ free' \cup OwnedBy(q) = free \cup HeldBy(r) /\ free' \cap OwnedBy(q) = {}
        /\ free' \subseteq Conns
    BY <1>3, <1>4, <1>5 DEF IInv, Types
  <1> QED BY <1>3, <1>4, <1>6, <1>7, <1>8, LocalInv DEF IInv, Types

LEMMA StartInv ==
    ASSUME IInv, NEW r \in Requests, Start(r)
    PROVE  IInv'
  <1>1. PICK h \in Handlers :
        req' = [req EXCEPT ![r] = [Off EXCEPT !.st = "run", !.call = h, !.ip = 1]]
    BY DEF Start
  <1>2. h \in AllHandlers /\ req[r].st = "off" /\ UNCHANGED <<free, queue, tenantOf, fails>>
    BY PoolAssumption DEF Start
  <1>3. PICK q : q = [Off EXCEPT !.st = "run", !.call = h, !.ip = 1]
    OBVIOUS
  <1>4. /\ q \in Request /\ q.st = "run" /\ q.call = h /\ q.ip = 1 /\ q.held = <<>> /\ q.conn = Null
    <2>1. h \in AllHandlers \cup {Null} /\ 1 \in 0 .. MaxSteps + 1
      BY <1>2 DEF MaxSteps
    <2> QED BY <1>3, <2>1, OffOK DEF Request
  <1>5. HeldIn(q) = {} /\ OwnedBy(q) = {} /\ HeldIn(req[r]) = {} /\ HeldBy(r) = {}
    <2>1. HeldIn(q) = {}
      BY <1>4 DEF HeldIn
    <2>2. req[r] = Off /\ HeldBy(r) = OwnedBy(req[r])
      BY <1>2, RequestOK DEF Placed
    <2> QED BY <1>4, <2>1, <2>2, OffOK DEF OwnedBy
  <1>6. Placed(q)
    <2>1. Len(Program[h]) \in Nat /\ Depth[h][1] = 0
      BY <1>2, ProgramOK DEF MaxSteps
    <2> QED BY <1>2, <1>4, <1>5, <2>1 DEF Placed
  <1>7. QueueOK'
    BY <1>1, <1>2, <1>3, <1>4, MoveOK, QueueKept
  <1>8. req' = [req EXCEPT ![r] = q]
    BY <1>1, <1>3
  <1>9. /\ free' \cup OwnedBy(q) = free \cup HeldBy(r) /\ free' \cap OwnedBy(q) = {}
        /\ free' \subseteq Conns /\ queue' \in Seq(Requests)
    BY <1>2, <1>5 DEF IInv, Types
  <1> QED BY <1>2, <1>4, <1>5, <1>6, <1>7, <1>8, <1>9, LocalInv DEF IInv, Types

LEMMA RespondInv ==
    ASSUME IInv, NEW r \in Requests, Respond(r)
    PROVE  IInv'
  <1>1. req' = [req EXCEPT ![r] = Off] /\ UNCHANGED <<free, queue, tenantOf, fails>>
    BY DEF Respond
  <1>2. /\ req[r] \in Request /\ Placed(req[r]) /\ HeldBy(r) = OwnedBy(req[r])
        /\ req[r].st \in {"run", "unwind"}
    BY RequestOK DEF Respond
  <1>3. req[r].held = <<>>
    <2>1. CASE req[r].st = "run" /\ Finished(req[r])
      <3>1. /\ req[r].call \in AllHandlers /\ Len(Program[req[r].call]) \in 1 .. MaxSteps
            /\ req[r].ip = Len(Program[req[r].call]) + 1
        BY <1>2, <2>1, RequestOK DEF Finished, Placed, MaxSteps
      <3>2. Len(req[r].held) = 0
        BY <1>2, <2>1, <3>1, ProgramOK DEF Placed
      <3> QED BY <1>2, <3>2, EmptySeq DEF Request
    <2> QED BY <2>1 DEF Respond
  <1>4. HeldIn(req[r]) = {} /\ HeldBy(r) = {}
    <2>1. HeldIn(req[r]) = {}
      BY <1>3 DEF HeldIn
    <2> QED BY <1>2, <2>1 DEF OwnedBy, Placed
  <1>5. QueueOK'
    BY <1>1, <1>2, OffOK, MoveOK, QueueKept
  <1> QED BY <1>1, <1>4, <1>5, OffOK, LocalInv DEF IInv, Types

\* A COMMIT that fails leaves the transaction to be rolled back.
LEMMA CommitRefusedInv ==
    ASSUME IInv, NEW r \in Requests, CommitRefused(r)
    PROVE  IInv'
  <1> DEFINE o == req[r]
             q == [o EXCEPT !.st = "unwind"]
  <1>1. /\ o \in Request /\ Placed(o) /\ HeldBy(r) = OwnedBy(o) /\ o.st = "run"
    BY RequestOK DEF CommitRefused
  <1>2. /\ q \in Request /\ q.st = "unwind" /\ q.held = o.held /\ q.conn = o.conn
        /\ q.call = o.call /\ q.ip = o.ip
    BY <1>1 DEF Request
  <1>3. req' = [req EXCEPT ![r] = q] /\ UNCHANGED <<free, queue, tenantOf>>
        /\ fails' \in 0 .. MaxFails
    BY PoolAssumption DEF CommitRefused, IInv, Types
  <1> HIDE DEF q
  <1>4. HeldIn(q) = HeldIn(o) /\ OwnedBy(q) = HeldBy(r) /\ HeldBy(r) \cap free = {}
    BY <1>1, <1>2 DEF HeldIn, OwnedBy, IInv, Owned
  <1>5. Placed(q)
    BY <1>1, <1>2, <1>4 DEF Placed
  <1>6. QueueOK'
    BY <1>1, <1>2, <1>3, MoveOK, QueueKept
  <1> QED BY <1>2, <1>3, <1>4, <1>5, <1>6, LocalInv DEF IInv, Types

\* What a request knows of its place while a statement runs.
LEMMA ExecOK ==
    ASSUME IInv, NEW r \in Requests, req[r].st = "exec"
    PROVE  /\ req[r] \in Request /\ Placed(req[r]) /\ Stated(req[r])
           /\ req[r].call \in AllHandlers /\ req[r].conn \in Conns /\ req[r].conn # Null
           /\ HeldBy(r) = HeldIn(req[r]) \cup {req[r].conn} /\ req[r].conn \notin HeldIn(req[r])
  <1>1. req[r] \in Request /\ Placed(req[r]) /\ HeldBy(r) = OwnedBy(req[r])
    BY RequestOK
  <1> QED BY <1>1 DEF Placed, OwnedBy, Request

\* BEGIN: the connection carries the transaction from here on, and its tenant.
LEMMA BeginInv ==
    ASSUME IInv, NEW r \in Requests, Begin(r)
    PROVE  IInv'
  <1> DEFINE o == req[r]
             c == req[r].conn
  <1>1. /\ o.st = "exec" /\ Op(o) = "begin" /\ UNCHANGED <<free, queue, fails>>
        /\ tenantOf' = [tenantOf EXCEPT ![c] = TenantOf[r]]
    BY DEF Begin
  <1>2. /\ o \in Request /\ Placed(o) /\ Stated(o) /\ c \in Conns /\ c # Null
        /\ HeldBy(r) = HeldIn(o) \cup {c} /\ c \notin HeldIn(o)
    BY <1>1, ExecOK
  <1>3. PICK held \in Seq(Conns) : held = Append(o.held, c)
    <2>1. o.held \in Seq(Conns)
      BY <1>2 DEF Request
    <2> HIDE DEF o, c
    <2> QED BY <1>2, <2>1, AppendProperties
  <1>4. /\ o.held \in Seq(Conns) /\ Len(o.held) \in Nat /\ Len(held) = Len(o.held) + 1
        /\ DOMAIN o.held = 1 .. Len(o.held) /\ DOMAIN held = 1 .. Len(o.held) + 1
        /\ \A i \in 1 .. Len(o.held) : held[i] = o.held[i]
        /\ held[Len(o.held) + 1] = c
    BY <1>2, <1>3, AppendProperties DEF Request
  <1>5. PICK ip \in 0 .. MaxSteps + 1 :
          ip = o.ip + 1 /\ ip \in 1 .. Len(Program[o.call]) + 1 /\ Depth[o.call][ip] = Len(held)
    BY <1>1, <1>2, <1>4, NextStatement DEF Stated
  <1>6. PICK q \in Request :
          /\ req' = [req EXCEPT ![r] = q]
          /\ q.st = "run" /\ q.ip = ip /\ q.conn = Null /\ q.held = held /\ q.call = o.call
    <2> DEFINE p == [o EXCEPT !.st = "run", !.ip = ip, !.conn = Null, !.held = held]
    <2>1. p \in Request /\ p.st = "run" /\ p.ip = ip /\ p.conn = Null /\ p.held = held
          /\ p.call = o.call
      BY <1>2 DEF Request
    <2>2. req' = [req EXCEPT ![r] = p]
      BY <1>3, <1>5 DEF Begin
    <2> HIDE DEF p
    <2> QED BY <2>1, <2>2
  <1> HIDE DEF o, c
  <1>7. HeldIn(q) = HeldIn(o) \cup {c}
    <2>1. \A i \in DOMAIN held : held[i] \in HeldIn(o) \cup {c}
      BY <1>4 DEF HeldIn
    <2>2. \A x \in HeldIn(o) \cup {c} : \E i \in DOMAIN held : held[i] = x
      BY <1>4 DEF HeldIn
    <2>3. HeldIn(q) = {held[i] : i \in DOMAIN held}
      BY <1>6 DEF HeldIn
    <2> QED BY <2>1, <2>2, <2>3
  <1>8. Placed(q)
    <2>1. \A i, j \in DOMAIN held : held[i] = held[j] => i = j
      <3> SUFFICES ASSUME NEW i \in DOMAIN held, NEW j \in DOMAIN held, held[i] = held[j]
                   PROVE  i = j
        OBVIOUS
      <3>1. \A k \in DOMAIN o.held : o.held[k] # c
        BY <1>2 DEF HeldIn
      <3> QED BY <1>2, <1>4, <3>1 DEF Placed
    <2>2. Null \notin HeldIn(q)
      BY <1>2, <1>6, PoolAssumption DEF HeldIn, Request
    <2> QED BY <1>1, <1>2, <1>5, <1>6, <2>1, <2>2 DEF Placed
  <1>9. /\ req' \in [Requests -> Request]
        /\ \A s \in Requests : req'[s] = IF s = r THEN q ELSE req[s]
    BY <1>6, MoveOK
  <1>10. OwnedBy(q) = HeldBy(r) /\ HeldBy(r) \cap free = {}
    <2>1. Null \notin HeldIn(q)
      BY <1>6, <1>8 DEF Placed
    <2> QED BY <1>2, <1>6, <1>7 DEF OwnedBy, IInv, Owned
  <1>11. Owned'
    BY <1>1, <1>9, <1>10, ExchangeOwned
  <1>12. QueueOK'
    BY <1>1, <1>9, QueueKept DEF o
  <1>13. Types'
    BY <1>1, <1>9, PoolAssumption DEF IInv, Types
  <1>14. TenantConfined'
    <2> SUFFICES ASSUME NEW d \in Conns, tenantOf'[d] \in Tenants
                 PROVE  \E s \in Requests : tenantOf'[d] = TenantOf[s] /\ d \in HeldIn(req'[s])
      BY DEF TenantConfined, HeldIn
    <2>1. CASE d = c
      <3>1. tenantOf'[d] = TenantOf[r]
        BY <1>1, <2>1 DEF IInv, Types
      <3> QED BY <1>7, <1>9, <2>1, <3>1
    <2>2. CASE d # c
      <3>1. tenantOf'[d] = tenantOf[d]
        BY <1>1, <2>2 DEF IInv, Types
      <3>2. PICK s \in Requests : tenantOf[d] = TenantOf[s] /\ d \in HeldIn(req[s])
        BY <3>1 DEF IInv, TenantConfined, HeldIn
      <3>3. d \in HeldIn(req'[s])
        BY <1>7, <1>9, <3>2 DEF o
      <3> QED BY <3>1, <3>2, <3>3
    <2> QED BY <2>1, <2>2
  <1>15. \A s \in Requests : Placed(req[s])'
    <2>1. \A s \in Requests : Placed(req'[s])
      BY <1>8, <1>9 DEF IInv
    <2> QED BY <2>1 DEF Placed, Stated, HeldIn, Op
  <1> QED BY <1>11, <1>12, <1>13, <1>14, <1>15 DEF IInv

\* A repository call, or a statement that fails: the connection was a plain one.
LEMMA StatementInv ==
    ASSUME IInv, NEW r \in Requests, Query(r) \/ Refused(r)
    PROVE  IInv'
  <1> DEFINE o == req[r]
             c == req[r].conn
  <1>1. o.st = "exec" /\ tenantOf' = tenantOf /\ fails' \in 0 .. MaxFails
    BY PoolAssumption DEF Query, Refused, IInv, Types
  <1>2. /\ o \in Request /\ Placed(o) /\ Stated(o) /\ c \in Conns /\ c # Null
        /\ HeldBy(r) = HeldIn(o) \cup {c} /\ c \notin HeldIn(o)
    BY <1>1, ExecOK
  <1>3. PICK q \in Request :
          /\ Release(c, [req EXCEPT ![r] = q])
          /\ q.st \in {"run", "unwind"} /\ Placed(q)
          /\ HeldIn(q) = HeldIn(o) /\ OwnedBy(q) = HeldIn(o)
    <2>1. CASE Refused(r)
      BY <1>1, <2>1, RaisedOK DEF Refused
    <2>2. CASE Query(r)
      <3>1. PICK ip \in 0 .. MaxSteps + 1 :
              /\ ip = o.ip + 1 /\ ip \in 1 .. Len(Program[o.call]) + 1
              /\ Depth[o.call][ip] = Len(o.held)
        BY <1>1, <1>2, <2>2, NextStatement DEF Stated, Query
      <3> DEFINE p == [o EXCEPT !.st = "run", !.ip = ip, !.conn = Null]
      <3>2. p \in Request /\ p.st = "run" /\ p.ip = ip /\ p.conn = Null /\ p.held = o.held
            /\ p.call = o.call
        BY <1>2 DEF Request
      <3>3. Release(c, [req EXCEPT ![r] = p])
        BY <2>2, <3>1 DEF Query
      <3> HIDE DEF p, o
      <3>4. Null \notin HeldIn(o)
        BY <1>2, PoolAssumption DEF HeldIn, Request
      <3>5. HeldIn(p) = HeldIn(o) /\ OwnedBy(p) = HeldIn(o)
        BY <3>2, <3>4 DEF HeldIn, OwnedBy
      <3>6. Placed(p)
        BY <1>1, <1>2, <3>1, <3>2, <3>4, <3>5 DEF Placed
      <3> QED BY <3>2, <3>3, <3>5, <3>6
    <2> QED BY <2>1, <2>2
  <1>4. \A d \in Conns : tenantOf'[d] \in Tenants => tenantOf'[d] = tenantOf[d]
    BY <1>1
  <1>5. tenantOf' \in [Conns -> Tenants \cup {Null, Empty}]
    BY <1>1 DEF IInv, Types
  <1> QED BY <1>1, <1>2, <1>3, <1>4, <1>5, ReleaseInv

\* COMMIT and ROLLBACK: the innermost transaction ends, and its tenant with it.
LEMMA EndInv ==
    ASSUME IInv, NEW r \in Requests, Commit(r) \/ Rollback(r)
    PROVE  IInv'
  <1> DEFINE o == req[r]
             c == Last(o.held)
  <1>1. /\ o \in Request /\ Placed(o) /\ o.held \in Seq(Conns) /\ HeldBy(r) = OwnedBy(o)
        /\ o.st \in {"run", "unwind"} /\ o.conn = Null
    BY RequestOK DEF Commit, Rollback, Placed, Request
  <1>2. tenantOf' = [tenantOf EXCEPT ![c] = Empty] /\ fails' = fails
    BY DEF Commit, Rollback, ResetSetting
  <1>3. o.held # <<>>
        /\ \E ip \in 0 .. MaxSteps + 1 :
             /\ Commit(r) => /\ ip = o.ip + 1 /\ ip \in 1 .. Len(Program[o.call]) + 1
                             /\ Depth[o.call][ip] = Len(o.held) - 1
             /\ Rollback(r) => ip = o.ip
    <2>1. CASE Commit(r)
      <3>1. o.st = "run" /\ Op(o) = "commit" /\ o.ip <= Len(Program[o.call]) /\ ~Rollback(r)
        <4>1. o.ip \in Nat /\ Len(Program[o.call]) \in Nat
          BY <2>1, RequestOK DEF Commit, MaxSteps
        <4> QED BY <2>1, <4>1 DEF Commit, Rollback, Finished
      <3>2. Len(o.held) > 0
        BY <3>1, NextStatement
      <3>3. o.held # <<>>
        BY <3>2
      <3> QED BY <3>1, <3>3, NextStatement
    <2>2. CASE Rollback(r)
      BY <1>1, <2>2 DEF Commit, Rollback, Request
    <2> QED BY <2>1, <2>2
  <1>4. PICK ip \in 0 .. MaxSteps + 1 :
             /\ Commit(r) => /\ ip = o.ip + 1 /\ ip \in 1 .. Len(Program[o.call]) + 1
                             /\ Depth[o.call][ip] = Len(o.held) - 1
             /\ Rollback(r) => ip = o.ip
    BY <1>3
  <1>5. /\ c = o.held[Len(o.held)] /\ c \in Conns /\ Front(o.held) \in Seq(Conns)
        /\ Len(Front(o.held)) = Len(o.held) - 1 /\ Len(o.held) \in Nat \ {0}
        /\ \A j \in 1 .. Len(o.held) - 1 : Front(o.held)[j] = o.held[j]
    BY <1>1, <1>3, FrontLast
  <1>6. PICK held \in Seq(Conns) : held = Front(o.held)
    BY <1>5
  <1>7. PICK q \in Request :
          /\ Release(c, [req EXCEPT ![r] = q])
          /\ q.st = o.st /\ q.ip = ip /\ q.conn = Null /\ q.held = held /\ q.call = o.call
    <2> DEFINE p == [o EXCEPT !.ip = ip, !.held = held]
    <2>1. p \in Request /\ p.st = o.st /\ p.ip = ip /\ p.conn = Null /\ p.held = held
          /\ p.call = o.call
      BY <1>1 DEF Request
    <2>2. Release(c, [req EXCEPT ![r] = p])
      <3>1. CASE Commit(r)
        BY <1>4, <1>6, <3>1 DEF Commit
      <3>2. CASE Rollback(r)
        <4>1. p = [o EXCEPT !.held = held]
          BY <1>1, <1>4, <3>2 DEF Request
        <4>2. Release(c, [req EXCEPT ![r].held = held])
          BY <1>6, <3>2 DEF Rollback
        <4>3. [req EXCEPT ![r].held = held] = [req EXCEPT ![r] = [o EXCEPT !.held = held]]
          OBVIOUS
        <4> HIDE DEF p, o, c
        <4> QED BY <4>1, <4>2, <4>3
      <3> QED BY <3>1, <3>2
    <2> HIDE DEF p
    <2> QED BY <2>1, <2>2
  <1> HIDE DEF c
  <1>8. HeldIn(o) = HeldIn(q) \cup {c} /\ c \notin HeldIn(q)
    <2>1. /\ DOMAIN o.held = 1 .. Len(o.held) /\ DOMAIN held = 1 .. Len(o.held) - 1
          /\ \A j \in DOMAIN held : held[j] = o.held[j]
      BY <1>1, <1>5, <1>6
    <2>2. \A x \in HeldIn(o) : x = c \/ \E j \in DOMAIN held : held[j] = x
      BY <1>5, <2>1 DEF HeldIn
    <2>3. ASSUME NEW j \in DOMAIN held
          PROVE  held[j] \in HeldIn(o) /\ held[j] # c
      <3>1. j \in DOMAIN o.held /\ Len(o.held) \in DOMAIN o.held /\ j # Len(o.held)
        BY <1>5, <2>1
      <3>2. o.held[j] # o.held[Len(o.held)]
        BY <1>1, <3>1 DEF Placed
      <3> QED BY <1>5, <2>1, <3>1, <3>2 DEF HeldIn
    <2>4. c \in HeldIn(o)
      BY <1>5, <2>1 DEF HeldIn
    <2> QED BY <1>7, <2>2, <2>3, <2>4 DEF HeldIn
  <1>9. Placed(q)
    <2>1. \A i, j \in DOMAIN held : held[i] = held[j] => i = j
      BY <1>1, <1>5, <1>6 DEF Placed
    <2>2. Null \notin HeldIn(q)
      BY <1>7, PoolAssumption DEF HeldIn, Request
    <2>3. q.call \in AllHandlers /\ q.ip \in 1 .. Len(Program[q.call]) + 1
          /\ (q.st = "run" => Len(held) = Depth[q.call][q.ip])
      BY <1>1, <1>4, <1>5, <1>6, <1>7 DEF Placed, Commit, Rollback
    <2> QED BY <1>1, <1>7, <2>1, <2>2, <2>3 DEF Placed
  <1>10. HeldBy(r) = OwnedBy(q) \cup {c} /\ c \notin OwnedBy(q)
    BY <1>1, <1>5, <1>7, <1>8, PoolAssumption DEF OwnedBy
  <1>11. /\ tenantOf' \in [Conns -> Tenants \cup {Null, Empty}] /\ tenantOf'[c] \notin Tenants
         /\ \A d \in Conns : tenantOf'[d] \in Tenants => tenantOf'[d] = tenantOf[d]
    BY <1>2, <1>5, PoolAssumption DEF IInv, Types
  <1>12. fails' \in 0 .. MaxFails
    BY <1>2 DEF IInv, Types
  <1> QED BY <1>1, <1>5, <1>7, <1>8, <1>9, <1>10, <1>11, <1>12, ReleaseInv

----------------------------------------------------------------------------
LEMMA NextInv == IInv /\ [Next]_vars => IInv'
  <1> SUFFICES ASSUME IInv, [Next]_vars PROVE IInv'
    OBVIOUS
  <1>1. ASSUME NEW r \in Requests, Step(r) PROVE IInv'
    BY <1>1, AcquireInv, EnqueueInv, TimeoutInv, StartInv, BeginInv, StatementInv, EndInv,
       RespondInv, CommitRefusedInv
    DEF Step, Run
  <1>2. CASE UNCHANGED vars
    <2>1. Types'
      BY <1>2 DEF vars, IInv, Types
    <2>2. QueueOK'
      BY <1>2 DEF vars, IInv, QueueOK
    <2>3. Owned'
      BY <1>2 DEF vars, IInv, Owned, HeldBy
    <2>4. TenantConfined'
      BY <1>2 DEF vars, IInv, TenantConfined
    <2>5. \A r \in Requests : Placed(req[r])'
      BY <1>2 DEF vars, IInv, Placed, Stated, HeldIn, Op
    <2> QED BY <2>1, <2>2, <2>3, <2>4, <2>5 DEF IInv
  <1> QED BY <1>1, <1>2 DEF Next

LEMMA SpecInv == Spec => []IInv
  BY InitInv, NextInv, PTL DEF Spec

\* Pool, queue, settings and requests keep their types (RlsContextService.run).
THEOREM TypeCorrect == Spec => []TypeOK
  <1>1. IInv => TypeOK
    BY DEF IInv, Types, QueueOK, Request, TypeOK
  <1> QED BY <1>1, SpecInv, PTL

\* A tenant's setting is only ever on a connection that carries a transaction of a
\* request of that tenant (RlsContextService.run: SET LOCAL).
THEOREM TenantsConfined == Spec => []TenantConfined
  BY SpecInv, PTL DEF IInv

\* No connection is lost and none is used twice, however statements fail, time out
\* and unwind (RlsContextService.run, the pool).
THEOREM ConnectionsConserved == Spec => []Conserved
  <1>1. IInv => Conserved
    <2> SUFFICES ASSUME IInv, NEW r \in Requests
                 PROVE  Cardinality(HeldBy(r))
                          = Len(req[r].held) + (IF req[r].conn = Null THEN 0 ELSE 1)
      BY DEF IInv, Owned, Conserved
    <2>1. /\ req[r] \in Request /\ Placed(req[r]) /\ HeldBy(r) = OwnedBy(req[r])
          /\ req[r].held \in Seq(Conns) /\ Len(req[r].held) \in Nat
      BY RequestOK DEF Request
    <2>2. IsFiniteSet(HeldIn(req[r])) /\ Cardinality(HeldIn(req[r])) = Len(req[r].held)
      BY <2>1, CountDistinct DEF HeldIn, Placed
    <2>3. CASE req[r].conn = Null
      <3>1. HeldBy(r) = HeldIn(req[r])
        BY <2>1, <2>3 DEF OwnedBy
      <3> QED BY <2>1, <2>2, <2>3, <3>1
    <2>4. CASE req[r].conn # Null
      <3>1. HeldBy(r) = HeldIn(req[r]) \cup {req[r].conn} /\ req[r].conn \notin HeldIn(req[r])
        BY <2>1, <2>4 DEF OwnedBy, Placed
      <3>2. Cardinality(HeldIn(req[r]) \cup {req[r].conn}) = Cardinality(HeldIn(req[r])) + 1
        BY <2>2, <3>1, FS_AddElement
      <3> QED BY <2>1, <2>2, <2>4, <3>1, <3>2
    <2> QED BY <2>3, <2>4
  <1> QED BY <1>1, SpecInv, PTL
=============================================================================
