------------------------------ MODULE Sessions ------------------------------
(***************************************************************************)
(* Sign-in, token rotation and logout: AuthService (auth/auth.service.ts), *)
(* JwtAccessStrategy.validate and the admin's suspend and activate, over   *)
(* the users table and the Redis keys rt_revoked:* and blacklist:*.        *)
(*                                                                         *)
(* A request is a chain of actions, one per awaited call that reads or     *)
(* writes shared state; what it read is kept in req[r].  A pair is the     *)
(* access token and the refresh token that generateTokens signs together.  *)
(* Sign-in through Google is the one of an account already linked: the     *)
(* branches that create or link an account change no session state before  *)
(* they reach generateTokens.                                              *)
(***************************************************************************)
EXTENDS Naturals, FiniteSets

CONSTANTS
    Users,
    Pairs,        \* bound: the token pairs that may be signed
    Requests,     \* requests that may be in flight together
    Kinds,        \* operations clients may start
    MaxAttempts,  \* MAX_LOGIN_ATTEMPTS, 5 in the code
    Lockout,      \* LOCKOUT_MINUTES
    AccessTtl,    \* JWT_ACCESS_TTL
    RefreshTtl,   \* JWT_REFRESH_TTL
    MaxTime,      \* bound: last instant
    Mfa,          \* the users who have enabled MFA
    MaxGuesses,   \* bound: wrong passwords tried between two resets
    MaxCount,     \* bound: the counter of failed attempts
    Null

AllKinds == {"login", "google", "refresh", "logout", "suspend", "activate"}
Instants == 0 .. (MaxTime + Lockout + RefreshTtl)

\* Every account here has its address verified (module Accounts).
UserRow == [attempts: 0 .. MaxCount, lock: Instants \cup {Null}, suspended: BOOLEAN]
Pair    == [user: Users, parent: Pairs \cup {Null}, accessExp: Instants,
            refreshExp: Instants]
Request == [pc: {"idle", "verify", "reset", "issue", "revoke", "find", "who",
                 "blacklist", "revoke_out", "suspend"},
            u: Users \cup {Null}, p: Pairs \cup {Null}, row: UserRow \cup {Null}]

ASSUME SessionsAssumption ==
    /\ MaxAttempts \in Nat \ {0} /\ Lockout \in Nat /\ MaxTime \in Nat
    /\ AccessTtl \in Nat /\ RefreshTtl \in Nat /\ AccessTtl <= RefreshTtl
    /\ MaxGuesses \in Nat /\ MaxCount \in Nat
    /\ Mfa \subseteq Users
    /\ Kinds \subseteq AllKinds
    /\ Null \notin Users \cup Pairs \cup UserRow \cup Pair \cup Nat

VARIABLES
    user,       \* table users
    pair,       \* the pairs signed: Pairs -> Pair or Null
    revoked,    \* rt_revoked:<jti>: when the key expires, or Null
    blacklist,  \* the jti of the keys blacklist:<jti>; Null is undefined
    now,
    req,
    guesses     \* history: wrong passwords tried since the counter was reset

vars == <<user, pair, revoked, blacklist, now, req, guesses>>

Idle == [pc |-> "idle", u |-> Null, p |-> Null, row |-> Null]

Init ==
    /\ user = [u \in Users |-> [attempts |-> 0, lock |-> Null, suspended |-> FALSE]]
    /\ pair = [p \in Pairs |-> Null]
    /\ revoked = [p \in Pairs |-> Null]
    /\ blacklist = {}
    /\ now = 0
    /\ req = [r \in Requests |-> Idle]
    /\ guesses = [u \in Users |-> 0]

Begin(r, kind) == req[r].pc = "idle" /\ kind \in Kinds
At(r, pc)      == req[r].pc = pc
Goto(r, pc)    == req' = [req EXCEPT ![r].pc = pc]
Finish(r)      == req' = [req EXCEPT ![r] = Idle]

Signed(p)     == pair[p] # Null
Unsigned      == {p \in Pairs : ~Signed(p)}
IsLocked(row) == row.lock # Null /\ row.lock > now

\* Bound: whoever starts finds a pair left to sign.
Room == Cardinality({r \in Requests : req[r].pc # "idle"}) < Cardinality(Unsigned)

\* jwtService.verify, and GET rt_revoked:<jti> of a key whose time has not come
GoodRefresh(p) == Signed(p) /\ now < pair[p].refreshExp
IsRevoked(p)   == revoked[p] # Null /\ now < revoked[p]

----------------------------------------------------------------------------
(* AuthService.login *)

\* findOne by email, and the lockout check.
LoginRead(r, u) ==
    /\ Begin(r, "login") /\ Room
    /\ ~IsLocked(user[u])
    /\ req' = [req EXCEPT ![r] = [Idle EXCEPT !.pc = "verify", !.u = u, !.row = user[u]]]
    /\ UNCHANGED <<user, pair, revoked, blacklist, now, guesses>>

\* The row a failed attempt leaves, from the counter read before argon2.verify.
\* The mutations: the counter has to pass the limit; each failure writes both columns.
FailedRowLate(u, old) ==
    [user[u] EXCEPT !.attempts = old.attempts + 1,
                    !.lock = IF old.attempts + 1 > MaxAttempts THEN now + Lockout ELSE @]
FailedRowBoth(u, old) ==
    [user[u] EXCEPT !.attempts = old.attempts + 1,
                    !.lock = IF old.attempts + 1 >= MaxAttempts THEN now + Lockout ELSE Null]
FailedRow(u, old) ==
    [user[u] EXCEPT !.attempts = old.attempts + 1,
                    !.lock = IF old.attempts + 1 >= MaxAttempts THEN now + Lockout ELSE @]

\* argon2.verify says no
LoginFail(r) ==
    LET u == req[r].u IN
    /\ At(r, "verify") /\ guesses[u] < MaxGuesses /\ req[r].row.attempts < MaxCount
    /\ user' = [user EXCEPT ![u] = FailedRow(u, req[r].row)]
    /\ guesses' = [guesses EXCEPT ![u] = @ + 1]
    /\ Finish(r)
    /\ UNCHANGED <<pair, revoked, blacklist, now>>

\* argon2.verify says yes, then the checks on the row read before: refused
\* when suspended, and, under MFA, without a valid code.
Admitted(row) == ~row.suspended

LoginRefuse(r) ==
    /\ At(r, "verify")
    /\ Admitted(req[r].row) => req[r].u \in Mfa
    /\ Finish(r)
    /\ UNCHANGED <<user, pair, revoked, blacklist, now, guesses>>

LoginPass(r) ==
    /\ At(r, "verify") /\ Admitted(req[r].row)
    /\ Goto(r, "reset")
    /\ UNCHANGED <<user, pair, revoked, blacklist, now, guesses>>

LoginReset(r) ==
    LET u == req[r].u IN
    /\ At(r, "reset")
    /\ user' = [user EXCEPT ![u].attempts = 0, ![u].lock = Null]
    /\ guesses' = [guesses EXCEPT ![u] = 0]
    /\ Goto(r, "issue")
    /\ UNCHANGED <<pair, revoked, blacklist, now>>

\* AuthService.loginWithGoogle: no check of is_suspended or of the lock
GoogleLogin(r, u) ==
    /\ Begin(r, "google") /\ Room
    /\ req' = [req EXCEPT ![r] = [Idle EXCEPT !.pc = "issue", !.u = u]]
    /\ UNCHANGED <<user, pair, revoked, blacklist, now, guesses>>

\* generateTokens: sign both; rt_active:<jti>, which it sets, is read nowhere
GenerateTokens(r) ==
    /\ At(r, "issue")
    /\ \E p \in Unsigned :
         pair' = [pair EXCEPT ![p] =
                    [user |-> req[r].u, parent |-> req[r].p,
                     accessExp |-> now + AccessTtl, refreshExp |-> now + RefreshTtl]]
    /\ Finish(r)
    /\ UNCHANGED <<user, revoked, blacklist, now, guesses>>

----------------------------------------------------------------------------
(* AuthService.refreshTokens *)

RefreshCheck(r, p) ==
    /\ Begin(r, "refresh") /\ Room /\ GoodRefresh(p) /\ ~IsRevoked(p)
    /\ req' = [req EXCEPT ![r] =
                 [Idle EXCEPT !.pc = "revoke", !.u = pair[p].user, !.p = p]]
    /\ UNCHANGED <<user, pair, revoked, blacklist, now, guesses>>

\* SETEX rt_revoked; the mutations give the key the life of an access token, and
\* take seconds for milliseconds.
RevokedShort(p) == [revoked EXCEPT ![p] = now + AccessTtl]
RevokedLong(p)  == [revoked EXCEPT ![p] = now + 1000 * RefreshTtl]
Revoked(p)      == [revoked EXCEPT ![p] = now + RefreshTtl]

RefreshRevoke(r) ==
    /\ At(r, "revoke")
    /\ revoked' = Revoked(req[r].p)
    /\ Goto(r, "find")
    /\ UNCHANGED <<user, pair, blacklist, now, guesses>>

\* findOne by id; of a suspended user the refresh token is spent all the same
RefreshFind(r) ==
    /\ At(r, "find")
    /\ IF user[req[r].u].suspended THEN Finish(r) ELSE Goto(r, "issue")
    /\ UNCHANGED <<user, pair, revoked, blacklist, now, guesses>>

----------------------------------------------------------------------------
(* JwtAccessStrategy.validate, then AuthService.logout *)

\* The access token verifies and is not blacklisted...
ValidateToken(r, p) ==
    /\ Begin(r, "logout")
    /\ Signed(p) /\ now < pair[p].accessExp /\ p \notin blacklist
    /\ req' = [req EXCEPT ![r] = [Idle EXCEPT !.pc = "who", !.u = pair[p].user, !.p = p]]
    /\ UNCHANGED <<user, pair, revoked, blacklist, now, guesses>>

\* ... and its user is there and not suspended.
ValidateUser(r) ==
    /\ At(r, "who")
    /\ IF Admitted(user[req[r].u]) THEN Goto(r, "blacklist") ELSE Finish(r)
    /\ UNCHANGED <<user, pair, revoked, blacklist, now, guesses>>

\* What validate returns, request.user, is a row of users: it has no jti, so the
\* key logout sets is blacklist:undefined.
JtiOfUser == Null

LogoutBlacklist(r) ==
    /\ At(r, "blacklist")
    /\ blacklist' = blacklist \cup {JtiOfUser}
    /\ IF GoodRefresh(req[r].p) THEN Goto(r, "revoke_out") ELSE Finish(r)
    /\ UNCHANGED <<user, pair, revoked, now, guesses>>

\* rt_revoked of the cookie's token, for as long as the token would live; a TTL
\* of 0 sets a key that stays.
LogoutRevoke(r) ==
    LET p == req[r].p IN
    /\ At(r, "revoke_out")
    /\ revoked' = [revoked EXCEPT ![p] = pair[p].refreshExp]
    /\ Finish(r)
    /\ UNCHANGED <<user, pair, blacklist, now, guesses>>

----------------------------------------------------------------------------
(* AdminService *)

SuspendFind(r, u) ==
    /\ Begin(r, "suspend")
    /\ req' = [req EXCEPT ![r] = [Idle EXCEPT !.pc = "suspend", !.u = u]]
    /\ UNCHANGED <<user, pair, revoked, blacklist, now, guesses>>

SuspendWrite(r) ==
    /\ At(r, "suspend")
    /\ user' = [user EXCEPT ![req[r].u].suspended = TRUE]
    /\ Finish(r)
    /\ UNCHANGED <<pair, revoked, blacklist, now, guesses>>

Activate(r, u) ==
    /\ Begin(r, "activate")
    /\ user' = [user EXCEPT ![u].suspended = FALSE]
    /\ UNCHANGED <<pair, revoked, blacklist, now, req, guesses>>

----------------------------------------------------------------------------
\* Redis or the database refuses the awaited call, or the process dies there.
Fail(r) ==
    /\ req[r].pc # "idle"
    /\ Finish(r)
    /\ UNCHANGED <<user, pair, revoked, blacklist, now, guesses>>

Tick ==
    /\ now < MaxTime
    /\ now' = now + 1
    /\ UNCHANGED <<user, pair, revoked, blacklist, req, guesses>>

Step(r) ==
    \/ \E u \in Users : \/ LoginRead(r, u) \/ GoogleLogin(r, u)
                        \/ SuspendFind(r, u) \/ Activate(r, u)
    \/ LoginFail(r) \/ LoginRefuse(r) \/ LoginPass(r) \/ LoginReset(r)
    \/ GenerateTokens(r)
    \/ \E p \in Pairs : RefreshCheck(r, p) \/ ValidateToken(r, p)
    \/ RefreshRevoke(r) \/ RefreshFind(r)
    \/ ValidateUser(r) \/ LogoutBlacklist(r) \/ LogoutRevoke(r)
    \/ SuspendWrite(r)
    \/ Fail(r)

Next == (\E r \in Requests : Step(r)) \/ Tick
Spec == Init /\ [][Next]_vars

----------------------------------------------------------------------------
(* Properties *)

TypeOK ==
    /\ user \in [Users -> UserRow]
    /\ pair \in [Pairs -> Pair \cup {Null}]
    /\ revoked \in [Pairs -> Instants \cup {Null}]
    /\ blacklist \subseteq Pairs \cup {Null}
    /\ now \in 0 .. MaxTime
    /\ req \in [Requests -> Request]
    /\ guesses \in [Users -> 0 .. MaxGuesses]

\* A refresh token that has already been exchanged for a new pair is not
\* accepted again ("replay detection" of refreshTokens).  Two uses that both
\* read before either revokes do both succeed: GET and SETEX are two calls.
ReplayRefused ==
    [][\A r \in Requests, p \in Pairs :
          At(r, "idle") /\ req'[r].pc = "revoke" /\ req'[r].p = p
             => \A q \in Pairs : Signed(q) => pair[q].parent # p]_vars

\* A counter at the limit always comes with a lock, whatever stale counts the
\* requests write back (login).
CountedOutIsLocked ==
    \A u \in Users : user[u].attempts >= MaxAttempts => user[u].lock # Null

\* A lock in force is lifted by nobody but a login with the right password that
\* had read the account before the lock (login).
LockLiftedByEarlierLogin ==
    [][\A u \in Users : IsLocked(user[u]) /\ user'[u].lock = Null =>
          \E r \in Requests : At(r, "reset") /\ req[r].u = u /\ ~IsLocked(req[r].row)]_vars

\* Two requests that race on the counter get more than MaxAttempts guesses, since
\* each writes back what it read before; but no more than the sum of
\* 1 .. MaxAttempts until the first lock (login).
LockoutBoundsGuesses ==
    \A u \in Users : user[u].lock = Null => 2 * guesses[u] < MaxAttempts * (MaxAttempts + 1)
=============================================================================
