--------------------------- MODULE SessionsProofs ---------------------------
(***************************************************************************)
(* What Sessions promises for any users, token pairs, requests in flight   *)
(* and life times: a counter at its limit comes with a lock, a lock is     *)
(* lifted only by a login that had read the account before, and a refresh  *)
(* token that was exchanged is not accepted again.                         *)
(***************************************************************************)
EXTENDS Sessions, TLAPS

\* The refresh token of p can no longer be used: its key outlives it.
Spent(p, pairs, keys) ==
    p \in Pairs /\ pairs[p] # Null /\ keys[p] # Null /\ keys[p] >= pairs[p].refreshExp

\* What a request keeps over its awaits: a login the row it read, which was not
\* locked; a rotation the pair, which it has spent before it signs another.
LocalOK(q, pairs, keys, t) ==
    /\ q.pc # "idle" => q.u \in Users
    /\ q.pc \in {"verify", "reset"} =>
          q.row \in UserRow /\ q.p = Null /\ (q.row.lock = Null \/ q.row.lock <= t)
    /\ q.pc \in {"revoke", "find", "who", "blacklist", "revoke_out"} =>
          q.p \in Pairs /\ pairs[q.p] # Null
    /\ q.pc \in {"find", "issue"} /\ q.p # Null => Spent(q.p, pairs, keys)

\* A pair is signed for a life time from now at most, and its parent is spent.
PairsOK(pairs, keys, t) ==
    \A p \in Pairs : pairs[p] # Null =>
        /\ pairs[p].refreshExp <= t + RefreshTtl
        /\ pairs[p].parent # Null => Spent(pairs[p].parent, pairs, keys)

IInv ==
    /\ TypeOK
    /\ CountedOutIsLocked
    /\ PairsOK(pair, revoked, now)
    /\ \A r \in Requests : LocalOK(req[r], pair, revoked, now)

\* What a step may do to tables and keys: no pair goes, and none becomes usable.
Shared ==
    /\ user' \in [Users -> UserRow]
    /\ pair' \in [Pairs -> Pair \cup {Null}]
    /\ revoked' \in [Pairs -> Instants \cup {Null}]
    /\ blacklist' \subseteq Pairs \cup {Null}
    /\ now' \in 0 .. MaxTime /\ now <= now'
    /\ guesses' \in [Users -> 0 .. MaxGuesses]
    /\ CountedOutIsLocked'
    /\ PairsOK(pair', revoked', now')
    /\ \A p \in Pairs : pair[p] # Null => pair'[p] = pair[p]
    /\ \A p \in Pairs : Spent(p, pair, revoked) => Spent(p, pair', revoked')

----------------------------------------------------------------------------
LEMMA SameShared ==
    ASSUME IInv, UNCHANGED <<user, pair, revoked, blacklist, now, guesses>>
    PROVE  Shared
  BY DEF IInv, TypeOK, Shared, CountedOutIsLocked

LEMMA SameUsers ==
    ASSUME IInv, UNCHANGED <<pair, revoked, blacklist, now>>,
           user' \in [Users -> UserRow], guesses' \in [Users -> 0 .. MaxGuesses],
           CountedOutIsLocked'
    PROVE  Shared
  BY DEF IInv, TypeOK, Shared

LEMMA IdleOK ==
    ASSUME NEW pairs, NEW keys, NEW t
    PROVE  Idle \in Request /\ LocalOK(Idle, pairs, keys, t)
  BY DEF Idle, Request, LocalOK

\* A request that a step leaves alone still holds what it needs.
LEMMA StaysOK ==
    ASSUME IInv, Shared, NEW q \in Request, LocalOK(q, pair, revoked, now)
    PROVE  LocalOK(q, pair', revoked', now')
  <1>1. now \in Nat /\ now' \in Nat /\ now <= now'
    BY SessionsAssumption DEF IInv, TypeOK, Shared
  <1>2. q.row \in UserRow => q.row.lock = Null \/ q.row.lock \in Nat
    BY SessionsAssumption DEF UserRow, Instants
  <1>3. q.p \in Pairs /\ pair[q.p] # Null => pair'[q.p] # Null
    BY DEF Shared
  <1>4. Spent(q.p, pair, revoked) => Spent(q.p, pair', revoked')
    BY DEF Shared, Spent
  <1> QED BY <1>1, <1>2, <1>3, <1>4 DEF LocalOK

LEMMA MoveInv ==
    ASSUME IInv, Shared, NEW r \in Requests, NEW q \in Request,
           LocalOK(q, pair', revoked', now'), req' = [req EXCEPT ![r] = q]
    PROVE  IInv'
  <1>1. TypeOK'
    BY DEF IInv, TypeOK, Shared
  <1>2. ASSUME NEW s \in Requests PROVE LocalOK(req'[s], pair', revoked', now')
    <2>1. CASE s = r
      BY <2>1 DEF IInv, TypeOK
    <2>2. CASE s # r
      <3>1. req'[s] = req[s] /\ req[s] \in Request /\ LocalOK(req[s], pair, revoked, now)
        BY <2>2 DEF IInv, TypeOK
      <3> QED BY <3>1, StaysOK
    <2> QED BY <2>1, <2>2
  <1> QED BY <1>1, <1>2 DEF IInv, Shared

LEMMA FinishInv ==
    ASSUME IInv, Shared, NEW r \in Requests, Finish(r)
    PROVE  IInv'
  BY IdleOK, MoveInv DEF Finish

LEMMA GotoInv ==
    ASSUME IInv, Shared, NEW r \in Requests, NEW pc, Goto(r, pc),
           \/ pc = "reset" /\ req[r].pc = "verify"
           \/ pc = "issue" /\ req[r].pc \in {"reset", "find"}
           \/ pc = "find" /\ req[r].pc = "revoke" /\ Spent(req[r].p, pair', revoked')
           \/ pc = "blacklist" /\ req[r].pc = "who"
           \/ pc = "revoke_out" /\ req[r].pc = "blacklist"
    PROVE  IInv'
  <1> DEFINE q == [req[r] EXCEPT !.pc = pc]
  <1>1. req[r] \in Request /\ LocalOK(req[r], pair', revoked', now')
    BY StaysOK DEF IInv, TypeOK
  <1>2. q \in Request /\ q.pc = pc /\ q.u = req[r].u /\ q.p = req[r].p /\ q.row = req[r].row
    BY <1>1 DEF Request
  <1> HIDE DEF q
  <1>3. LocalOK(q, pair', revoked', now')
    BY <1>1, <1>2 DEF LocalOK
  <1>4. req' = [req EXCEPT ![r] = q]
    BY DEF Goto, q
  <1> QED BY <1>2, <1>3, <1>4, MoveInv

\* The steps that only start a request.
LEMMA StartInv ==
    ASSUME IInv, NEW r \in Requests,
           \/ \E u \in Users : LoginRead(r, u) \/ GoogleLogin(r, u) \/ SuspendFind(r, u)
           \/ \E p \in Pairs : RefreshCheck(r, p) \/ ValidateToken(r, p)
    PROVE  IInv'
  <1>1. UNCHANGED <<user, pair, revoked, blacklist, now, guesses>>
    BY DEF LoginRead, GoogleLogin, SuspendFind, RefreshCheck, ValidateToken
  <1>2. Shared
    BY <1>1, SameShared
  <1>3. ASSUME NEW u \in Users, LoginRead(r, u) PROVE IInv'
    <2> DEFINE q == [Idle EXCEPT !.pc = "verify", !.u = u, !.row = user[u]]
    <2>1. user[u] \in UserRow /\ (user[u].lock = Null \/ user[u].lock <= now)
      <3>1. user[u] \in UserRow /\ now \in Nat
        BY SessionsAssumption DEF IInv, TypeOK
      <3>2. user[u].lock = Null \/ user[u].lock \in Nat
        BY <3>1, SessionsAssumption DEF UserRow, Instants
      <3>3. ~(user[u].lock # Null /\ user[u].lock > now)
        BY <1>3 DEF LoginRead, IsLocked
      <3> QED BY <3>1, <3>2, <3>3
    <2>2. q \in Request /\ LocalOK(q, pair', revoked', now')
      BY <1>1, <2>1 DEF Idle, Request, LocalOK
    <2> QED BY <1>2, <1>3, <2>2, MoveInv DEF LoginRead
  <1>4. ASSUME NEW u \in Users, NEW pc \in {"issue", "suspend"},
               req' = [req EXCEPT ![r] = [Idle EXCEPT !.pc = pc, !.u = u]]
        PROVE  IInv'
    <2> DEFINE q == [Idle EXCEPT !.pc = pc, !.u = u]
    <2>1. q \in Request /\ LocalOK(q, pair', revoked', now')
      BY DEF Idle, Request, LocalOK
    <2> QED BY <1>2, <1>4, <2>1, MoveInv
  <1>5. ASSUME NEW p \in Pairs, NEW pc \in {"revoke", "who"}, Signed(p),
               req' = [req EXCEPT ![r] = [Idle EXCEPT !.pc = pc, !.u = pair[p].user, !.p = p]]
        PROVE  IInv'
    <2> DEFINE q == [Idle EXCEPT !.pc = pc, !.u = pair[p].user, !.p = p]
    <2>1. pair[p].user \in Users
      BY <1>5 DEF Signed, IInv, TypeOK, Pair
    <2>2. q \in Request /\ LocalOK(q, pair', revoked', now')
      BY <1>1, <1>5, <2>1 DEF Idle, Request, LocalOK, Signed
    <2> QED BY <1>2, <1>5, <2>2, MoveInv
  <1> QED BY <1>3, <1>4, <1>5
          DEF GoogleLogin, SuspendFind, RefreshCheck, ValidateToken, GoodRefresh

\* The steps that go on, or end, without a write.
LEMMA ReadInv ==
    ASSUME IInv, NEW r \in Requests,
           \/ LoginRefuse(r) \/ LoginPass(r) \/ RefreshFind(r) \/ ValidateUser(r) \/ Fail(r)
    PROVE  IInv'
  <1>1. Shared
    BY SameShared DEF LoginRefuse, LoginPass, RefreshFind, ValidateUser, Fail
  <1> QED BY <1>1, FinishInv, GotoInv
          DEF LoginRefuse, LoginPass, RefreshFind, ValidateUser, Fail, At

\* The writes to the users table; a counter that reaches its limit brings the lock.
LEMMA UserInv ==
    ASSUME IInv, NEW r \in Requests,
           \/ LoginFail(r) \/ LoginReset(r) \/ SuspendWrite(r)
           \/ \E u \in Users : Activate(r, u)
    PROVE  IInv'
  <1>1. req[r].pc # "idle" => req[r].u \in Users /\ user[req[r].u] \in UserRow
    BY DEF IInv, TypeOK, LocalOK
  <1>2. CASE LoginFail(r)
    <2> DEFINE u == req[r].u
               n == req[r].row.attempts + 1
               row == FailedRow(u, req[r].row)
    <2>1. u \in Users /\ user[u] \in UserRow /\ req[r].row \in UserRow
          /\ req[r].row.attempts < MaxCount
      BY <1>1, <1>2 DEF LoginFail, At, IInv, LocalOK
    <2>2. n \in 0 .. MaxCount /\ now + Lockout \in Instants
      BY <2>1, SessionsAssumption DEF UserRow, Instants, IInv, TypeOK
    <2>3. row \in UserRow /\ row.attempts = n /\ (n >= MaxAttempts => row.lock # Null)
      <3>1. now + Lockout # Null
        BY SessionsAssumption DEF IInv, TypeOK
      <3> HIDE DEF n
      <3>2. FailedRow(u, req[r].row) =
              [user[u] EXCEPT !.attempts = n,
                              !.lock = IF n >= MaxAttempts THEN now + Lockout ELSE user[u].lock]
        BY <2>1 DEF FailedRow, n, UserRow
      <3> QED BY <2>1, <2>2, <3>1, <3>2 DEF UserRow
    <2>4. user' = [user EXCEPT ![u] = row] /\ Finish(r)
          /\ guesses' = [guesses EXCEPT ![u] = @ + 1] /\ guesses[u] < MaxGuesses
          /\ UNCHANGED <<pair, revoked, blacklist, now>>
      BY <1>2 DEF LoginFail
    <2> HIDE DEF row
    <2>5. user' \in [Users -> UserRow] /\ CountedOutIsLocked'
      BY <2>1, <2>3, <2>4 DEF IInv, TypeOK, CountedOutIsLocked
    <2>6. guesses' \in [Users -> 0 .. MaxGuesses]
      BY <2>1, <2>4, SessionsAssumption DEF IInv, TypeOK
    <2> QED BY <2>4, <2>5, <2>6, SameUsers, FinishInv
  <1>3. CASE LoginReset(r)
    <2> DEFINE u == req[r].u
               row == [user[u] EXCEPT !.attempts = 0, !.lock = Null]
    <2>1. u \in Users /\ user[u] \in UserRow
      BY <1>1, <1>3 DEF LoginReset, At
    <2>2. row \in UserRow /\ row.attempts = 0
      <3>1. 0 \in 0 .. MaxCount
        BY SessionsAssumption
      <3>2. row.attempts = 0 /\ row.lock = Null /\ row.suspended = user[u].suspended
        BY <2>1 DEF UserRow
      <3> QED BY <2>1, <3>1, <3>2 DEF UserRow
    <2>3. user' = [user EXCEPT ![u] = row]
      BY <1>3, <2>1 DEF LoginReset, IInv, TypeOK
    <2> HIDE DEF row
    <2>4. user' \in [Users -> UserRow] /\ CountedOutIsLocked'
      BY <2>1, <2>2, <2>3, SessionsAssumption DEF IInv, TypeOK, CountedOutIsLocked
    <2>5. guesses' \in [Users -> 0 .. MaxGuesses]
      BY <1>3, <2>1, SessionsAssumption DEF LoginReset, IInv, TypeOK
    <2> QED BY <1>3, <2>4, <2>5, SameUsers, GotoInv DEF LoginReset, At
  <1>4. ASSUME NEW u \in Users, NEW b \in BOOLEAN, user' = [user EXCEPT ![u].suspended = b],
               UNCHANGED <<pair, revoked, blacklist, now, guesses>>
        PROVE  Shared
    <2> DEFINE row == [user[u] EXCEPT !.suspended = b]
    <2>1. user[u] \in UserRow
      BY DEF IInv, TypeOK
    <2>2. row \in UserRow /\ row.attempts = user[u].attempts /\ row.lock = user[u].lock
      BY <2>1 DEF UserRow
    <2>3. user' = [user EXCEPT ![u] = row]
      BY <1>4
    <2> HIDE DEF row
    <2>4. user' \in [Users -> UserRow] /\ CountedOutIsLocked'
      BY <2>2, <2>3 DEF IInv, TypeOK, CountedOutIsLocked
    <2> QED BY <1>4, <2>4, SameUsers DEF IInv, TypeOK
  <1>5. CASE SuspendWrite(r)
    BY <1>1, <1>4, <1>5, FinishInv DEF SuspendWrite, At
  <1>6. ASSUME NEW u \in Users, Activate(r, u) PROVE IInv'
    <2>1. Shared /\ UNCHANGED req
      BY <1>4, <1>6 DEF Activate
    <2> QED BY <2>1, StaysOK DEF IInv, TypeOK, Shared
  <1> QED BY <1>2, <1>3, <1>5, <1>6

\* Signing a pair: the one it replaces is spent.
LEMMA GenerateInv ==
    ASSUME IInv, NEW r \in Requests, GenerateTokens(r)
    PROVE  IInv'
  <1>1. PICK p \in Unsigned :
          pair' = [pair EXCEPT ![p] = [user |-> req[r].u, parent |-> req[r].p,
                                       accessExp |-> now + AccessTtl,
                                       refreshExp |-> now + RefreshTtl]]
    BY DEF GenerateTokens
  <1> DEFINE new == [user |-> req[r].u, parent |-> req[r].p, accessExp |-> now + AccessTtl,
                     refreshExp |-> now + RefreshTtl]
  <1>2. /\ req[r].pc = "issue" /\ req[r] \in Request /\ req[r].u \in Users
        /\ req[r].p # Null => Spent(req[r].p, pair, revoked)
    BY DEF GenerateTokens, At, IInv, TypeOK, LocalOK
  <1>3. now + AccessTtl \in Instants /\ now + RefreshTtl \in Instants /\ now \in Nat
    BY SessionsAssumption DEF Instants, IInv, TypeOK
  <1>4. new \in Pair /\ new.parent = req[r].p /\ new.refreshExp = now + RefreshTtl
    BY <1>2, <1>3 DEF Pair, Request
  <1>5. new # Null
    BY <1>4, SessionsAssumption
  <1> HIDE DEF new
  <1>6. /\ p \in Pairs /\ pair[p] = Null /\ pair'[p] = new
        /\ \A q \in Pairs \ {p} : pair'[q] = pair[q]
        /\ pair' \in [Pairs -> Pair \cup {Null}]
        /\ UNCHANGED <<user, revoked, blacklist, now, guesses>>
    BY <1>1, <1>4 DEF new, Unsigned, Signed, GenerateTokens, IInv, TypeOK
  <1>7. ASSUME NEW q, Spent(q, pair, revoked) PROVE Spent(q, pair', revoked')
    BY <1>6, <1>7 DEF Spent
  <1>8. PairsOK(pair', revoked', now')
    <2> SUFFICES ASSUME NEW q \in Pairs, pair'[q] # Null
                 PROVE  /\ pair'[q].refreshExp <= now' + RefreshTtl
                        /\ pair'[q].parent # Null => Spent(pair'[q].parent, pair', revoked')
      BY DEF PairsOK
    <2>1. CASE q = p
      BY <1>2, <1>3, <1>4, <1>6, <1>7, <2>1, SessionsAssumption
    <2>2. CASE q # p
      BY <1>6, <1>7, <2>2 DEF IInv, PairsOK
    <2> QED BY <2>1, <2>2
  <1>9. Shared
    BY <1>6, <1>7, <1>8 DEF Shared, IInv, TypeOK, CountedOutIsLocked
  <1> QED BY <1>9, FinishInv DEF GenerateTokens

\* The key outlives the token: it is set for a whole life time, or for what is left.
LEMMA RevokeInv ==
    ASSUME IInv, NEW r \in Requests, RefreshRevoke(r) \/ LogoutRevoke(r)
    PROVE  IInv'
  <1> DEFINE p == req[r].p
  <1>1. p \in Pairs /\ pair[p] # Null /\ pair[p] \in Pair
    BY DEF RefreshRevoke, LogoutRevoke, At, IInv, TypeOK, LocalOK
  <1>2. PICK t \in Instants : revoked' = [revoked EXCEPT ![p] = t] /\ t >= pair[p].refreshExp
    <2>1. CASE RefreshRevoke(r)
      <3>1. now + RefreshTtl \in Instants
        BY SessionsAssumption DEF Instants, IInv, TypeOK
      <3>2. revoked' = [revoked EXCEPT ![p] = now + RefreshTtl]
        BY <2>1 DEF RefreshRevoke, Revoked
      <3>3. now + RefreshTtl >= pair[p].refreshExp
        BY <1>1, SessionsAssumption DEF IInv, TypeOK, PairsOK, Pair, Instants
      <3> QED BY <3>1, <3>2, <3>3
    <2>2. CASE LogoutRevoke(r)
      <3>1. pair[p].refreshExp \in Instants /\ pair[p].refreshExp \in Nat
        BY <1>1, SessionsAssumption DEF Pair, Instants
      <3>2. revoked' = [revoked EXCEPT ![p] = pair[p].refreshExp]
        BY <2>2 DEF LogoutRevoke
      <3> DEFINE t == pair[p].refreshExp
      <3>3. t \in Instants /\ revoked' = [revoked EXCEPT ![p] = t] /\ t >= t
        BY <3>1, <3>2
      <3> HIDE DEF t
      <3>4. t >= pair[p].refreshExp
        BY <3>1 DEF t
      <3> QED BY <3>3, <3>4
    <2> QED BY <2>1, <2>2
  <1>3. t # Null
    BY SessionsAssumption DEF Instants
  <1>4. UNCHANGED <<user, pair, blacklist, now, guesses>>
    BY DEF RefreshRevoke, LogoutRevoke
  <1>5. revoked'[p] = t /\ \A q \in Pairs \ {p} : revoked'[q] = revoked[q]
    BY <1>1, <1>2 DEF IInv, TypeOK
  <1>6. ASSUME NEW q, Spent(q, pair, revoked) PROVE Spent(q, pair', revoked')
    BY <1>1, <1>2, <1>3, <1>4, <1>5, <1>6 DEF Spent
  <1>7. Spent(p, pair', revoked')
    BY <1>1, <1>2, <1>3, <1>4, <1>5 DEF Spent
  <1>8. PairsOK(pair', revoked', now')
    BY <1>4, <1>6 DEF IInv, PairsOK
  <1>9. revoked' \in [Pairs -> Instants \cup {Null}]
    BY <1>2 DEF IInv, TypeOK
  <1>10. Shared
    BY <1>4, <1>6, <1>8, <1>9 DEF Shared, IInv, TypeOK, CountedOutIsLocked
  <1> QED BY <1>7, <1>10, GotoInv, FinishInv DEF RefreshRevoke, LogoutRevoke, At

LEMMA BlacklistInv ==
    ASSUME IInv, NEW r \in Requests, LogoutBlacklist(r)
    PROVE  IInv'
  <1>1. Shared
    BY DEF LogoutBlacklist, JtiOfUser, Shared, IInv, TypeOK, CountedOutIsLocked
  <1> QED BY <1>1, FinishInv, GotoInv DEF LogoutBlacklist, At

LEMMA TickInv == IInv /\ Tick => IInv'
  <1> SUFFICES ASSUME IInv, Tick PROVE IInv'
    OBVIOUS
  <1>1. /\ now' \in 0 .. MaxTime /\ now <= now'
      /\ UNCHANGED <<user, pair, revoked, blacklist, req, guesses>>
    BY SessionsAssumption DEF Tick, IInv, TypeOK
  <1>2. PairsOK(pair', revoked', now')
    BY <1>1, SessionsAssumption DEF IInv, TypeOK, PairsOK, Pair, Instants
  <1>3. Shared
    BY <1>1, <1>2 DEF Shared, IInv, TypeOK, CountedOutIsLocked
  <1> QED BY <1>1, <1>3, StaysOK DEF IInv, TypeOK, Shared

LEMMA NextInv == IInv /\ [Next]_vars => IInv'
  <1> SUFFICES ASSUME IInv, [Next]_vars PROVE IInv'
    OBVIOUS
  <1>1. CASE UNCHANGED vars
    BY <1>1 DEF vars, IInv, TypeOK, CountedOutIsLocked
  <1>2. ASSUME NEW r \in Requests, Step(r) PROVE IInv'
    BY <1>2, StartInv, ReadInv, UserInv, GenerateInv, RevokeInv, BlacklistInv DEF Step
  <1> QED BY <1>1, <1>2, TickInv DEF Next

LEMMA InitInv == Init => IInv
  BY SessionsAssumption
  DEF Init, IInv, TypeOK, UserRow, Instants, Idle, Request, CountedOutIsLocked, PairsOK, LocalOK

LEMMA Invariant == Spec => []IInv
  BY InitInv, NextInv, PTL DEF Spec

----------------------------------------------------------------------------
\* The table, the keys and what the requests hold keep their types.
THEOREM TypeCorrect == Spec => []TypeOK
  <1>1. IInv => TypeOK
    BY DEF IInv
  <1> QED BY <1>1, Invariant, PTL

\* A counter at the limit comes with a lock, whatever stale counts any number of
\* logins write back.
THEOREM LimitBringsLock == Spec => []CountedOutIsLocked
  <1>1. IInv => CountedOutIsLocked
    BY DEF IInv
  <1> QED BY <1>1, Invariant, PTL

\* Whoever lifts a lock in force had read the account before it was locked.
THEOREM OnlyEarlierLoginLifts == Spec => LockLiftedByEarlierLogin
  <1>1. IInv /\ [Next]_vars =>
          [\A u \in Users : IsLocked(user[u]) /\ user'[u].lock = Null =>
             \E r \in Requests : At(r, "reset") /\ req[r].u = u /\ ~IsLocked(req[r].row)]_vars
    <2> SUFFICES ASSUME IInv, Next, NEW u \in Users, IsLocked(user[u]), user'[u].lock = Null
                 PROVE  \E r \in Requests : /\ At(r, "reset") /\ req[r].u = u
                                             /\ ~IsLocked(req[r].row)
      OBVIOUS
    <2>1. user[u] \in UserRow /\ user[u].lock # Null /\ now \in Nat
      BY SessionsAssumption DEF IInv, TypeOK, IsLocked
    <2>2. PICK r \in Requests : \/ LoginFail(r) \/ LoginReset(r) \/ SuspendWrite(r)
                                \/ \E v \in Users : Activate(r, v)
      BY <2>1 DEF Next, Step, Tick, LoginRead, GoogleLogin, SuspendFind, LoginRefuse, LoginPass,
                 GenerateTokens, RefreshCheck, ValidateToken, RefreshRevoke, RefreshFind,
                 ValidateUser, LogoutBlacklist, LogoutRevoke, Fail
    <2>3. req[r].pc # "idle" => req[r].u \in Users /\ user[req[r].u] \in UserRow
      BY DEF IInv, TypeOK, LocalOK
    <2>4. CASE LoginFail(r)
      <3> DEFINE v == req[r].u
                 n == req[r].row.attempts + 1
                 t == IF n >= MaxAttempts THEN now + Lockout ELSE user[v].lock
      <3>1. v \in Users /\ user[v] \in UserRow
        BY <2>3, <2>4 DEF LoginFail, At
      <3>2. user' = [user EXCEPT ![v] = FailedRow(v, req[r].row)]
        BY <2>4 DEF LoginFail
      <3>3. FailedRow(v, req[r].row).lock = t
        BY <3>1 DEF FailedRow, UserRow
      <3>4. now + Lockout # Null
        BY <2>1, SessionsAssumption
      <3>5. u = v => user'[u].lock = t
        BY <3>1, <3>2, <3>3 DEF IInv, TypeOK
      <3>6. u # v => user'[u] = user[u]
        BY <3>2 DEF IInv, TypeOK
      <3> HIDE DEF n
      <3> QED BY <2>1, <3>4, <3>5, <3>6
    <2>5. CASE LoginReset(r)
      <3>1. At(r, "reset") /\ req[r].u \in Users
        BY <2>3, <2>5 DEF LoginReset, At
      <3>2. u = req[r].u
        BY <2>1, <2>5, <3>1 DEF LoginReset, IInv, TypeOK
      <3>3. req[r].row \in UserRow /\ (req[r].row.lock = Null \/ req[r].row.lock <= now)
        BY <3>1 DEF At, IInv, LocalOK
      <3>4. req[r].row.lock # Null => req[r].row.lock \in Nat
        BY <3>3, SessionsAssumption DEF UserRow, Instants
      <3> QED BY <2>1, <3>1, <3>2, <3>3, <3>4 DEF IsLocked
    <2>6. ASSUME NEW v \in Users, NEW b, user' = [user EXCEPT ![v].suspended = b]
          PROVE  user'[u].lock = user[u].lock
      BY <2>1, <2>6 DEF IInv, TypeOK, UserRow
    <2>7. CASE SuspendWrite(r) \/ \E v \in Users : Activate(r, v)
      BY <2>1, <2>3, <2>6, <2>7 DEF SuspendWrite, Activate, At
    <2> QED BY <2>2, <2>4, <2>5, <2>7
  <1> QED BY <1>1, Invariant, PTL DEF Spec, LockLiftedByEarlierLogin

\* A refresh token for which another pair was signed is never accepted again, for
\* any number of rotations and logouts in flight.
THEOREM ReplayIsRefused == Spec => ReplayRefused
  <1>1. IInv /\ [Next]_vars =>
          [\A r \in Requests, p \in Pairs :
             At(r, "idle") /\ req'[r].pc = "revoke" /\ req'[r].p = p
                => \A q \in Pairs : Signed(q) => pair[q].parent # p]_vars
    <2> SUFFICES ASSUME IInv, Next, NEW r \in Requests, NEW p \in Pairs, At(r, "idle"),
                        req'[r].pc = "revoke", req'[r].p = p, NEW q \in Pairs, Signed(q),
                        pair[q].parent = p
                 PROVE  FALSE
      OBVIOUS
    <2>1. req[r].pc = "idle" /\ ~(UNCHANGED req)
      BY DEF At
    <2>2. PICK s \in Requests : Step(s)
      BY <2>1 DEF Next, Tick
    <2>3. s = r
      BY <2>1, <2>2
      DEF Step, LoginRead, GoogleLogin, SuspendFind, Activate, LoginFail, LoginRefuse, LoginPass,
          LoginReset, GenerateTokens, RefreshCheck, ValidateToken, RefreshRevoke, RefreshFind,
          ValidateUser, LogoutBlacklist, LogoutRevoke, SuspendWrite, Fail, Goto, Finish, IInv,
          TypeOK
    <2>4. PICK x \in Pairs : RefreshCheck(r, x)
      <3>1. \/ \E u \in Users : LoginRead(r, u) \/ GoogleLogin(r, u) \/ SuspendFind(r, u)
            \/ \E x \in Pairs : RefreshCheck(r, x) \/ ValidateToken(r, x)
        BY <2>1, <2>2, <2>3
        DEF Step, Activate, LoginFail, LoginRefuse, LoginPass, LoginReset, GenerateTokens,
            RefreshRevoke, RefreshFind, ValidateUser, LogoutBlacklist, LogoutRevoke, SuspendWrite,
            Fail, At
      <3>2. ASSUME NEW u \in Users, LoginRead(r, u) \/ GoogleLogin(r, u) \/ SuspendFind(r, u)
            PROVE  FALSE
        BY <3>2 DEF LoginRead, GoogleLogin, SuspendFind, Idle, IInv, TypeOK
      <3>3. ASSUME NEW x \in Pairs, ValidateToken(r, x) PROVE FALSE
        BY <3>3 DEF ValidateToken, Idle, IInv, TypeOK
      <3> QED BY <3>1, <3>2, <3>3
    <2>5. x = p
      BY <2>4 DEF RefreshCheck, Idle, IInv, TypeOK
    <2>6. pair[p] # Null /\ now < pair[p].refreshExp /\ ~(revoked[p] # Null /\ now < revoked[p])
      BY <2>4, <2>5 DEF RefreshCheck, GoodRefresh, IsRevoked, Signed
    <2>7. Spent(p, pair, revoked)
      BY SessionsAssumption DEF IInv, PairsOK, Signed
    <2>8. now \in Nat /\ pair[p].refreshExp \in Nat /\ (revoked[p] # Null => revoked[p] \in Nat)
      BY <2>6, SessionsAssumption DEF IInv, TypeOK, Pair, Instants
    <2> QED BY <2>6, <2>7, <2>8 DEF Spent
  <1> QED BY <1>1, Invariant, PTL DEF Spec, ReplayRefused

=============================================================================
