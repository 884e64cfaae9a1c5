------------------------------ MODULE Accounts ------------------------------
(***************************************************************************)
(* How an account comes to be and is proved to belong to its address:      *)
(* register, verifyEmail, loginWithGoogle and the password reset of        *)
(* AuthService (auth/auth.service.ts), changeRole of AdminService, and the *)
(* hourly cleanExpiredVerificationTokens of CleanupJobsService; and how it *)
(* gets its second factor: setupMfa and confirmMfa.                        *)
(*                                                                         *)
(* email is unique in the users table, so the table is a function of the   *)
(* address.  A request is a chain of actions, one per awaited call that    *)
(* reads or writes shared state.  Audit entries are left out.              *)
(***************************************************************************)
EXTENDS Naturals, FiniteSets

CONSTANTS
    Emails,
    Links,      \* bound: the reset links that may be sent
    Secrets,    \* bound: the MFA secrets that may be generated
    Requests,   \* requests that may be in flight together
    VerifyTtl,  \* 24 hours
    ResetTtl,   \* 15 minutes
    MfaTtl,     \* 10 minutes
    MaxTime,    \* bound: last instant
    MaxUses,    \* bound: password changes through one link
    MaxFails,   \* bound: calls that fail
    Null

Instants == 0 .. (MaxTime + VerifyTtl + ResetTtl + MfaTtl)
Roles    == {"visitor", "owner", "admin"}

\* vexp is Null when email_verification_token is; tenant tells whether tenant_id is
\* set; mfa is the secret in force, Null while mfa_enabled is FALSE.
UserRow == [verified: BOOLEAN, vexp: Instants \cup {Null}, google: BOOLEAN,
            role: Roles, tenant: BOOLEAN, mfa: Secrets \cup {Null}]
Link    == [e: Emails, exp: Instants, stored: BOOLEAN]
Pending == [secret: Secrets, exp: Instants]

RequestPc == {"idle", "reg_save", "reg_select", "reg_tenant", "reg_mail", "verify_write",
              "google_save", "google_select", "google_tenant", "google_link", "role_write",
              "reset_store", "reset_mail", "confirm_write", "confirm_del",
              "signed_in", "mfa_store", "mfa_write", "mfa_del"}
Request   == [pc: RequestPc, e: Emails \cup {Null}, row: UserRow \cup {Null},
              seen: UserRow \cup {Null}, role: Roles \cup {Null}, link: Links \cup {Null},
              secret: Secrets \cup {Null}]

ASSUME AccountsAssumption ==
    /\ VerifyTtl \in Nat /\ ResetTtl \in Nat /\ MfaTtl \in Nat /\ MaxTime \in Nat
    /\ MaxUses \in Nat /\ MaxFails \in Nat
    /\ IsFiniteSet(Requests) /\ IsFiniteSet(Secrets)
    /\ Null \notin Emails \cup Links \cup Secrets \cup Roles \cup Nat
    /\ Null \notin UserRow \cup Link \cup Pending
    /\ Emails \cap Links = {}

VARIABLES
    user,    \* table users, by email: row or Null
    link,    \* pwd_reset:<hash>: Links -> Link or Null
    mailed,  \* the addresses and links a mail has gone out for
    uses,    \* history: password changes through each link
    pending, \* mfa_pending:<id>: secret and expiry, or Null
    taken,   \* the secrets that setups have generated
    worn,    \* history: the secrets in force since MFA was last off
    entered, \* history: the accounts that were ever verified
    now,
    req,
    fails

mfa  == <<pending, taken>>
vars == <<user, link, mailed, uses, mfa, worn, entered, now, req, fails>>

Idle == [pc |-> "idle", e |-> Null, row |-> Null, seen |-> Null, role |-> Null,
         link |-> Null, secret |-> Null]

Init ==
    /\ user = [e \in Emails |-> Null]
    /\ link = [l \in Links |-> Null]
    /\ mailed = {}
    /\ uses = [l \in Links |-> 0]
    /\ pending = [e \in Emails |-> Null]
    /\ taken = {}
    /\ worn = [e \in Emails |-> {}]
    /\ entered = {}
    /\ now = 0
    /\ req = [r \in Requests |-> Idle]
    /\ fails = 0

\* The end of a life time in seconds; the mutation takes it for milliseconds.
ExpiryMillis(ttl) == now + 1000 * ttl
Expiry(ttl)       == now + ttl

Registered(e) == user[e] # Null
Free(r)       == req[r].pc = "idle"
At(r, pc)     == req[r].pc = pc
Goto(r, pc)   == req' = [req EXCEPT ![r].pc = pc]
Finish(r)     == req' = [req EXCEPT ![r] = Idle]
Start(r, pc, e) == req' = [req EXCEPT ![r] = [Idle EXCEPT !.pc = pc, !.e = e]]

\* The unique index on email refuses the insert: the handler throws.
Conflict(r) ==
    /\ req[r].pc \in {"reg_save", "google_save"} /\ Registered(req[r].e)
    /\ Finish(r)
    /\ UNCHANGED <<user, link, mailed, uses, now, fails, mfa>>

\* Insert the row and keep the entity for the second save.
Insert(r, row, pc) ==
    /\ ~Registered(req[r].e)
    /\ user' = [user EXCEPT ![req[r].e] = row]
    /\ req' = [req EXCEPT ![r].pc = pc, ![r].row = row]
    /\ UNCHANGED <<link, mailed, uses, now, fails, mfa>>

----------------------------------------------------------------------------
(* AuthService.register *)

RegisterFind(r, e) ==
    /\ Free(r) /\ ~Registered(e)
    /\ Start(r, "reg_save", e)
    /\ UNCHANGED <<user, link, mailed, uses, now, fails, mfa>>

\* The row of the first save; the mutations take the address on trust, and leave
\* the role to the default of the column.
NewRowTrusted == [verified |-> TRUE, vexp |-> Expiry(VerifyTtl), google |-> FALSE,
                  role |-> "owner", tenant |-> FALSE, mfa |-> Null]
NewRow == [verified |-> FALSE, vexp |-> Expiry(VerifyTtl), google |-> FALSE,
           role |-> "owner", tenant |-> FALSE, mfa |-> Null]

RegisterSave(r) == At(r, "reg_save") /\ Insert(r, NewRow, "reg_select")

\* The second save, with tenant_id set, SELECTs the stored row...
Select(r, pc) ==
    /\ req' = [req EXCEPT ![r].pc = pc, ![r].seen = user[req[r].e]]
    /\ UNCHANGED <<user, link, mailed, uses, now, fails, mfa>>

RegisterSelect(r) == At(r, "reg_select") /\ Select(r, "reg_tenant")

\* ... and UPDATEs every column of the entity that differed from it, also google_id
\* and mfa_enabled, which the first save left null and FALSE in the entity.  The
\* mutation forgets what the save is for.
ResavedRowOld(row) == row
ResavedRow(row)    == [row EXCEPT !.tenant = TRUE]

Resaved(q) ==
    LET new == ResavedRow(q.row)
    IN  [c \in DOMAIN new |-> IF new[c] = q.seen[c] THEN user[q.e][c] ELSE new[c]]

RegisterTenant(r) ==
    /\ At(r, "reg_tenant")
    /\ user' = [user EXCEPT ![req[r].e] = Resaved(req[r])]
    /\ Goto(r, "reg_mail")
    /\ UNCHANGED <<link, mailed, uses, now, fails, mfa>>

RegisterMail(r) ==
    /\ At(r, "reg_mail")
    /\ mailed' = mailed \cup {req[r].e}
    /\ Finish(r)
    /\ UNCHANGED <<user, link, uses, now, fails, mfa>>

----------------------------------------------------------------------------
(* AuthService.verifyEmail and cleanExpiredVerificationTokens *)

\* Whoever got the mail presents the token of the row.
VerifyFind(r, e) ==
    /\ Free(r) /\ e \in mailed
    /\ user[e].vexp # Null /\ user[e].vexp >= now /\ ~user[e].verified
    /\ Start(r, "verify_write", e)
    /\ UNCHANGED <<user, link, mailed, uses, now, fails, mfa>>

VerifyWrite(r) ==
    LET e == req[r].e IN
    /\ At(r, "verify_write")
    /\ user' = [user EXCEPT ![e].verified = TRUE, ![e].vexp = Null, ![e].role = "owner"]
    /\ Finish(r)
    /\ UNCHANGED <<link, mailed, uses, now, fails, mfa>>

Outdated(e) == Registered(e) /\ ~user[e].verified /\ user[e].vexp # Null /\ user[e].vexp < now

CleanTokens ==
    /\ \E e \in Emails : Outdated(e)
    /\ user' = [e \in Emails |-> IF Outdated(e) THEN [user[e] EXCEPT !.vexp = Null] ELSE user[e]]
    /\ UNCHANGED <<link, mailed, uses, now, req, fails, mfa>>

----------------------------------------------------------------------------
(* AuthService.loginWithGoogle, up to generateTokens *)

GoogleFind(r, e) ==
    /\ Free(r) /\ (Registered(e) => ~user[e].google)
    /\ Start(r, IF Registered(e) THEN "google_link" ELSE "google_save", e)
    /\ UNCHANGED <<user, link, mailed, uses, now, fails, mfa>>

GoogleRow == [verified |-> TRUE, vexp |-> Null, google |-> TRUE, role |-> "owner",
              tenant |-> FALSE, mfa |-> Null]

GoogleSave(r) == At(r, "google_save") /\ Insert(r, GoogleRow, "google_select")

GoogleSelect(r) == At(r, "google_select") /\ Select(r, "google_tenant")

GoogleTenant(r) ==
    /\ At(r, "google_tenant")
    /\ user' = [user EXCEPT ![req[r].e] = Resaved(req[r])]
    /\ Finish(r)
    /\ UNCHANGED <<link, mailed, uses, now, fails, mfa>>

\* The mutation links an account as unverified until its own mail is answered.
LinkedRowAsIs(row) == [row EXCEPT !.google = TRUE, !.verified = FALSE]
LinkedRow(row)     == [row EXCEPT !.google = TRUE, !.verified = TRUE]

GoogleLink(r) ==
    LET e == req[r].e IN
    /\ At(r, "google_link")
    /\ user' = [user EXCEPT ![e] = LinkedRow(@)]
    /\ Finish(r)
    /\ UNCHANGED <<link, mailed, uses, now, fails, mfa>>

----------------------------------------------------------------------------
(* AdminService.changeRole *)

RoleFind(r, e, role) ==
    /\ Free(r) /\ Registered(e)
    /\ req' = [req EXCEPT ![r] = [Idle EXCEPT !.pc = "role_write", !.e = e, !.role = role]]
    /\ UNCHANGED <<user, link, mailed, uses, now, fails, mfa>>

RoleWrite(r) ==
    /\ At(r, "role_write")
    /\ user' = [user EXCEPT ![req[r].e].role = req[r].role]
    /\ Finish(r)
    /\ UNCHANGED <<link, mailed, uses, now, fails, mfa>>

----------------------------------------------------------------------------
(* AuthService.requestPasswordReset and confirmPasswordReset *)

ResetFind(r, e) ==
    /\ Free(r) /\ Registered(e)
    /\ Cardinality({q \in Requests : At(q, "reset_store")})
          < Cardinality({l \in Links : link[l] = Null})
    /\ Start(r, "reset_store", e)
    /\ UNCHANGED <<user, link, mailed, uses, now, fails, mfa>>

ResetStore(r) ==
    /\ At(r, "reset_store")
    /\ \E l \in Links :
         /\ link[l] = Null
         /\ link' = [link EXCEPT ![l] =
                        [e |-> req[r].e, exp |-> Expiry(ResetTtl), stored |-> TRUE]]
         /\ req' = [req EXCEPT ![r].pc = "reset_mail", ![r].link = l]
    /\ UNCHANGED <<user, mailed, uses, now, fails, mfa>>

ResetMail(r) ==
    /\ At(r, "reset_mail")
    /\ mailed' = mailed \cup {req[r].link}
    /\ Finish(r)
    /\ UNCHANGED <<user, link, uses, now, fails, mfa>>

\* GET pwd_reset:<hash>; the password is hashed before the next call.
ConfirmGet(r, l) ==
    /\ Free(r) /\ l \in mailed
    /\ link[l].stored /\ now < link[l].exp
    /\ req' = [req EXCEPT ![r] = [Idle EXCEPT !.pc = "confirm_write", !.e = link[l].e,
                                              !.link = l]]
    /\ UNCHANGED <<user, link, mailed, uses, now, fails, mfa>>

ConfirmWrite(r) ==
    LET l == req[r].link IN
    /\ At(r, "confirm_write") /\ uses[l] < MaxUses
    /\ uses' = [uses EXCEPT ![l] = @ + 1]
    /\ Goto(r, "confirm_del")
    /\ UNCHANGED <<user, link, mailed, now, fails, mfa>>

\* DEL pwd_reset:<hash>; the mutation leaves the link to its time.
LeftToExpire(l) == link
Consumed(l)     == [link EXCEPT ![l].stored = FALSE]

ConfirmDel(r) ==
    /\ At(r, "confirm_del")
    /\ link' = Consumed(req[r].link)
    /\ Finish(r)
    /\ UNCHANGED <<user, mailed, uses, now, fails, mfa>>

----------------------------------------------------------------------------
(* AuthService.setupMfa and confirmMfa, of a user who has signed in before: the *)
(* guard of the route reads the row once more (JwtAccessStrategy.validate).     *)

Admit(r, e) ==
    /\ Free(r) /\ Registered(e) /\ user[e].verified
    /\ Start(r, "signed_in", e)
    /\ UNCHANGED <<user, link, mailed, uses, now, fails, mfa>>

\* MFA is on already, nothing is pending, or the code is wrong.
Refused(r) ==
    /\ At(r, "signed_in")
    /\ Finish(r)
    /\ UNCHANGED <<user, link, mailed, uses, now, fails, mfa>>

\* findOneOrFail, and generateSecret; the mutation does not look at mfa_enabled.
AnyAccount(e) == Registered(e)
MaySetUp(e)   == Registered(e) /\ user[e].mfa = Null

SetupFind(r) ==
    /\ At(r, "signed_in") /\ MaySetUp(req[r].e)
    /\ \E s \in Secrets \ taken :
         /\ taken' = taken \cup {s}
         /\ req' = [req EXCEPT ![r].pc = "mfa_store", ![r].secret = s]
    /\ UNCHANGED <<user, link, mailed, uses, pending, now, fails>>

SetupStore(r) ==
    /\ At(r, "mfa_store")
    /\ pending' = [pending EXCEPT ![req[r].e] =
                       [secret |-> req[r].secret, exp |-> Expiry(MfaTtl)]]
    /\ Finish(r)
    /\ UNCHANGED <<user, link, mailed, uses, taken, now, fails>>

\* GET mfa_pending:<id>; the code is verified against what it returns.
EnrolGet(r) ==
    LET e == req[r].e IN
    /\ At(r, "signed_in")
    /\ pending[e] # Null /\ now < pending[e].exp
    /\ req' = [req EXCEPT ![r].pc = "mfa_write", ![r].secret = pending[e].secret]
    /\ UNCHANGED <<user, link, mailed, uses, now, fails, mfa>>

EnrolWrite(r) ==
    /\ At(r, "mfa_write")
    /\ user' = [user EXCEPT ![req[r].e].mfa = req[r].secret]
    /\ Goto(r, "mfa_del")
    /\ UNCHANGED <<link, mailed, uses, now, fails, mfa>>

EnrolDel(r) ==
    /\ At(r, "mfa_del")
    /\ pending' = [pending EXCEPT ![req[r].e] = Null]
    /\ Finish(r)
    /\ UNCHANGED <<user, link, mailed, uses, taken, now, fails>>

----------------------------------------------------------------------------
\* A call fails or the process dies there; what was written before stays.  A mail
\* that fails is lost and nothing else: EmailService.send swallows the error.
Fail(r) ==
    /\ ~Free(r) /\ fails < MaxFails
    /\ fails' = fails + 1
    /\ Finish(r)
    /\ UNCHANGED <<user, link, mailed, uses, now, mfa>>

Tick ==
    /\ now < MaxTime
    /\ now' = now + 1
    /\ UNCHANGED <<user, link, mailed, uses, req, fails, mfa>>

Step(r) ==
    \/ \E e \in Emails : \/ RegisterFind(r, e) \/ VerifyFind(r, e) \/ GoogleFind(r, e)
                         \/ ResetFind(r, e) \/ Admit(r, e)
                         \/ \E role \in Roles : RoleFind(r, e, role)
    \/ \E l \in Links : ConfirmGet(r, l)
    \/ RegisterSave(r) \/ RegisterSelect(r) \/ RegisterTenant(r) \/ RegisterMail(r)
    \/ VerifyWrite(r) \/ GoogleSave(r) \/ GoogleSelect(r) \/ GoogleTenant(r)
    \/ GoogleLink(r) \/ RoleWrite(r)
    \/ ResetStore(r) \/ ResetMail(r) \/ ConfirmWrite(r) \/ ConfirmDel(r)
    \/ Refused(r) \/ SetupFind(r) \/ SetupStore(r)
    \/ EnrolGet(r) \/ EnrolWrite(r) \/ EnrolDel(r)
    \/ Conflict(r) \/ Fail(r)

Remember ==
    /\ worn' = [e \in Emails |-> IF ~Registered(e)' \/ user'[e].mfa = Null THEN {}
                                 ELSE worn[e] \cup {user'[e].mfa}]
    /\ entered' = entered \cup {e \in Emails : Registered(e)' /\ user'[e].verified}

Next == ((\E r \in Requests : Step(r)) \/ CleanTokens \/ Tick) /\ Remember
Spec == Init /\ [][Next]_vars

----------------------------------------------------------------------------
(* Properties *)

TypeOK ==
    /\ user \in [Emails -> UserRow \cup {Null}]
    /\ link \in [Links -> Link \cup {Null}]
    /\ mailed \subseteq Emails \cup Links
    /\ uses \in [Links -> 0 .. MaxUses]
    /\ pending \in [Emails -> Pending \cup {Null}]
    /\ taken \subseteq Secrets
    /\ worn \in [Emails -> SUBSET Secrets]
    /\ entered \subseteq Emails
    /\ now \in 0 .. MaxTime
    /\ req \in [Requests -> Request]
    /\ fails \in 0 .. MaxFails

\* An address counts as verified only if its mail went out, or Google vouched
\* for it; no second save, role change or cleanup says otherwise (verifyEmail,
\* register, loginWithGoogle).
VerifiedHasProof ==
    \A e \in Emails : Registered(e) /\ user[e].verified => e \in mailed \/ user[e].google

\* An account without a tenant_id is one still being created, as long as
\* nothing fails: whoever signs in otherwise acts for a tenant ("tenant_id =
\* own user ID", register and loginWithGoogle).
BeingCreated(e) ==
    \E r \in Requests : /\ req[r].e = e
                       /\ req[r].pc \in {"reg_select", "reg_tenant",
                                         "google_select", "google_tenant"}
TenantUnlessFailed ==
    \A e \in Emails : Registered(e) /\ ~user[e].tenant => fails > 0 \/ BeingCreated(e)

\* A verified address is unverified again, or its Google link is taken off, only by
\* the second save of a registration; its second factor is, only by that save or
\* the one of a sign-in through Google; and in each case the account was linked to
\* Google (register, loginWithGoogle, confirmMfa).
Demoted(e)  == \/ user[e].verified /\ ~user'[e].verified
               \/ user[e].google /\ ~user'[e].google
Disarmed(e) == user[e].mfa # Null /\ user'[e].mfa = Null

UndoneBySecondSave ==
    \A e \in Emails : Registered(e) =>
        /\ Demoted(e) \/ Disarmed(e) => user[e].google
        /\ Demoted(e) => \E r \in Requests : At(r, "reg_tenant") /\ req[r].e = e
        /\ Disarmed(e) => \E r \in Requests :
                             req[r].pc \in {"reg_tenant", "google_tenant"} /\ req[r].e = e

UndoneBySecondSaveOnly == [][UndoneBySecondSave]_vars

\* The requests that may still change a password through a link.
Holding(l) == {r \in Requests : At(r, "confirm_write") /\ req[r].link = l}

\* A reset link changes the password once per request that was let in before
\* the first one deleted it, and once more per failure before the deletion; one
\* that is deleted lets nobody in ("Consume token", confirmPasswordReset).
LinkUsesBounded ==
    \A l \in Links : uses[l] + Cardinality(Holding(l)) <= Cardinality(Requests) + fails

\* Once MFA is on, the secret is replaced at most once per set-up or confirmation
\* that was under way, and once more per failure: a set-up is refused from then on,
\* but confirmMfa does not look again.
SecretsBounded == \A e \in Emails : Cardinality(worn[e]) <= Cardinality(Requests) + fails
=============================================================================
