--------------------------- MODULE AccountsProofs ---------------------------
(***************************************************************************)
(* What Accounts promises for any addresses, links, secrets, requests in   *)
(* flight, failures and life times.  First the types, with what a request  *)
(* keeps in its locals (TInv); then who may be verified, linked and armed  *)
(* while a registration has its second save still to come (PInv); last how *)
(* often a reset link and an enrolment may still be used (CInv).           *)
(***************************************************************************)
EXTENDS Accounts, FiniteSetTheorems, TLAPS

\* Where a request holds an address that has a row.
OnRow == {"reg_select", "reg_tenant", "reg_mail", "verify_write", "google_select",
          "google_tenant", "google_link", "role_write", "signed_in", "mfa_store",
          "mfa_write", "mfa_del"}

\* A second save is still to come (Unsaved), and its SELECT is done (Saving).
Unsaved == {"reg_select", "reg_tenant", "google_select", "google_tenant"}
Saving  == {"reg_tenant", "google_tenant"}
USE DEF Unsaved, Saving

LocalOK(q, users, links) ==
    /\ q.pc # "idle" => q.e \in Emails
    /\ q.pc \in OnRow => users[q.e] # Null
    /\ q.pc \in Unsaved => q.row \in UserRow
    /\ q.pc \in Saving => q.seen \in UserRow
    /\ q.pc = "role_write" => q.role \in Roles
    /\ q.pc \in {"reset_mail", "confirm_write", "confirm_del"} =>
          q.link \in Links /\ links[q.link] # Null
    /\ q.pc \in {"mfa_store", "mfa_write"} => q.secret \in Secrets

TInv ==
    /\ TypeOK
    /\ \A r \in Requests : LocalOK(req[r], user, link)
    /\ \A l \in Links : l \in mailed => link[l] # Null
    /\ \A e \in Emails : e \in mailed \cup entered => Registered(e)

\* What a step may do to the tables: rows and links are never removed.
Tables ==
    /\ user' \in [Emails -> UserRow \cup {Null}]
    /\ \A e \in Emails : Registered(e) => Registered(e)'
    /\ link' \in [Links -> Link \cup {Null}]
    /\ \A l \in Links : link[l] # Null => link'[l] # Null
    /\ mailed' \subseteq Emails \cup Links
    /\ \A l \in Links : l \in mailed' => link'[l] # Null
    /\ \A e \in Emails : e \in mailed' => Registered(e)'
    /\ uses' \in [Links -> 0 .. MaxUses]
    /\ pending' \in [Emails -> Pending \cup {Null}]
    /\ taken' \subseteq Secrets
    /\ now' \in 0 .. MaxTime
    /\ fails' \in 0 .. MaxFails

----------------------------------------------------------------------------
(* Types *)

LEMMA IdleOK == Idle \in Request /\ LocalOK(Idle, user, link) /\ LocalOK(Idle, user', link')
  BY DEF Idle, Request, RequestPc, LocalOK, OnRow

LEMMA RememberOK ==
    ASSUME TInv, Remember, user' \in [Emails -> UserRow \cup {Null}]
    PROVE  worn' \in [Emails -> SUBSET Secrets] /\ entered' \subseteq Emails
  <1>1. ASSUME NEW e \in Emails, Registered(e)', user'[e].mfa # Null
        PROVE  user'[e].mfa \in Secrets
    <2>1. user'[e] \in UserRow
      BY <1>1 DEF Registered
    <2> QED BY <1>1, <2>1 DEF UserRow
  <1> QED BY <1>1 DEF Remember, TInv, TypeOK

LEMMA MoveOK ==
    ASSUME TInv, Remember, Tables, NEW r \in Requests, NEW q \in Request, LocalOK(q, user', link'),
           req' = [req EXCEPT ![r] = q]
    PROVE  TInv'
  <1>1. worn' \in [Emails -> SUBSET Secrets] /\ entered' \subseteq Emails
    BY RememberOK DEF Tables
  <1>2. TypeOK'
    BY <1>1 DEF TInv, TypeOK, Tables
  <1>3. ASSUME NEW s \in Requests, s # r PROVE LocalOK(req'[s], user', link')
    <2>1. req'[s] = req[s] /\ LocalOK(req[s], user, link) /\ req[s] \in Request
      BY <1>3 DEF TInv, TypeOK
    <2> QED BY <2>1 DEF LocalOK, Tables, OnRow, Registered
  <1>4. req'[r] = q
    BY DEF TInv, TypeOK
  <1>5. \A e \in Emails : e \in mailed' \cup entered' => Registered(e)'
    BY DEF TInv, Tables, Remember
  <1> QED BY <1>2, <1>3, <1>4, <1>5 DEF TInv, Tables

\* The tables of a step that leaves some of them alone.
LEMMA SameTables ==
    ASSUME TInv
    PROVE  /\ UNCHANGED user => /\ user' \in [Emails -> UserRow \cup {Null}]
                                /\ \A e \in Emails : Registered(e) => Registered(e)'
           /\ UNCHANGED link => /\ link' \in [Links -> Link \cup {Null}]
                                /\ \A l \in Links : link[l] # Null => link'[l] # Null
           /\ UNCHANGED mailed => mailed' \subseteq Emails \cup Links
           /\ UNCHANGED <<link, mailed>> => \A l \in Links : l \in mailed' => link'[l] # Null
           /\ UNCHANGED <<user, mailed>> => \A e \in Emails : e \in mailed' => Registered(e)'
           /\ UNCHANGED uses => uses' \in [Links -> 0 .. MaxUses]
           /\ UNCHANGED pending => pending' \in [Emails -> Pending \cup {Null}]
           /\ UNCHANGED taken => taken' \subseteq Secrets
           /\ UNCHANGED now => now' \in 0 .. MaxTime
           /\ UNCHANGED fails => fails' \in 0 .. MaxFails
  BY DEF TInv, TypeOK, Registered

LEMMA Times ==
    ASSUME TInv
    PROVE  /\ now \in Instants /\ Expiry(VerifyTtl) \in Instants
           /\ Expiry(ResetTtl) \in Instants /\ Expiry(MfaTtl) \in Instants
  BY AccountsAssumption DEF TInv, TypeOK, Instants, Expiry

LEMMA RowsOK ==
    ASSUME TInv
    PROVE  /\ NewRow \in UserRow /\ GoogleRow \in UserRow
           /\ \A row \in UserRow : /\ LinkedRow(row) \in UserRow
                                   /\ [row EXCEPT !.vexp = Null] \in UserRow
                                   /\ \A role \in Roles : [row EXCEPT !.role = role] \in UserRow
                                   /\ \A s \in Secrets : [row EXCEPT !.mfa = s] \in UserRow
           /\ \A row \in UserRow : [row EXCEPT !.verified = TRUE, !.vexp = Null, !.role = "owner"]
                                      \in UserRow
  <1>1. NewRow \in UserRow /\ GoogleRow \in UserRow
    BY Times DEF NewRow, GoogleRow, UserRow, Roles
  <1> QED BY <1>1 DEF LinkedRow, UserRow, Roles

\* What the second save leaves in a column: its own value, or, where that is what its
\* SELECT found, the stored one.
Kept(new, seen, old, kept) == kept = (IF new = seen THEN old ELSE new)

LEMMA ResavedOK ==
    ASSUME NEW q, q.row \in UserRow, q.seen \in UserRow, user[q.e] \in UserRow
    PROVE  /\ Resaved(q) \in UserRow
           /\ Kept(q.row.verified, q.seen.verified, user[q.e].verified, Resaved(q).verified)
           /\ Kept(q.row.google, q.seen.google, user[q.e].google, Resaved(q).google)
           /\ Kept(q.row.mfa, q.seen.mfa, user[q.e].mfa, Resaved(q).mfa)
           /\ Kept(TRUE, q.seen.tenant, user[q.e].tenant, Resaved(q).tenant)
  <1> DEFINE new == ResavedRow(q.row)
             cols == {"verified", "vexp", "google", "role", "tenant", "mfa"}
  <1>1. /\ new \in UserRow /\ new.tenant = TRUE /\ new.verified = q.row.verified
        /\ new.google = q.row.google /\ new.mfa = q.row.mfa
    BY DEF ResavedRow, UserRow
  <1>2. Resaved(q) = [c \in DOMAIN new |-> IF new[c] = q.seen[c] THEN user[q.e][c] ELSE new[c]]
    BY DEF Resaved
  <1> HIDE DEF new
  <1>3. DOMAIN new = cols
    BY <1>1 DEF UserRow
  <1>4. Resaved(q) = [verified |-> Resaved(q).verified, vexp |-> Resaved(q).vexp,
                      google |-> Resaved(q).google, role |-> Resaved(q).role,
                      tenant |-> Resaved(q).tenant, mfa |-> Resaved(q).mfa]
    BY <1>2, <1>3
  <1>5. \A c \in cols : Resaved(q)[c] = IF new[c] = q.seen[c] THEN user[q.e][c] ELSE new[c]
    BY <1>2, <1>3
  <1>6. /\ Kept(new.verified, q.seen.verified, user[q.e].verified, Resaved(q).verified)
        /\ Kept(new.vexp, q.seen.vexp, user[q.e].vexp, Resaved(q).vexp)
        /\ Kept(new.google, q.seen.google, user[q.e].google, Resaved(q).google)
        /\ Kept(new.role, q.seen.role, user[q.e].role, Resaved(q).role)
        /\ Kept(new.tenant, q.seen.tenant, user[q.e].tenant, Resaved(q).tenant)
        /\ Kept(new.mfa, q.seen.mfa, user[q.e].mfa, Resaved(q).mfa)
    BY <1>5 DEF Kept
  <1>7. Resaved(q) \in UserRow
    <2>1. /\ Resaved(q).verified \in BOOLEAN /\ Resaved(q).vexp \in Instants \cup {Null}
          /\ Resaved(q).google \in BOOLEAN /\ Resaved(q).role \in Roles
          /\ Resaved(q).tenant \in BOOLEAN /\ Resaved(q).mfa \in Secrets \cup {Null}
      BY <1>1, <1>6 DEF UserRow, Kept
    <2> QED BY <1>4, <2>1 DEF UserRow
  <1> QED BY <1>1, <1>6, <1>7

\* Writing a row for one address.
LEMMA WriteOK ==
    ASSUME TInv, NEW e \in Emails, NEW row \in UserRow, user' = [user EXCEPT ![e] = row]
    PROVE  /\ user' \in [Emails -> UserRow \cup {Null}]
           /\ \A f \in Emails : Registered(f) => Registered(f)'
           /\ user'[e] = row /\ user'[e] # Null
           /\ \A f \in Emails \ {e} : user'[f] = user[f]
  BY AccountsAssumption DEF TInv, TypeOK, Registered

\* The tables of a step that writes at most a row.
LEMMA RowTables ==
    ASSUME TInv, UNCHANGED <<link, mailed, uses, now, mfa>>,
           user' \in [Emails -> UserRow \cup {Null}],
           \A e \in Emails : Registered(e) => Registered(e)',
           fails' \in 0 .. MaxFails
    PROVE  Tables
  BY SameTables DEF mfa, Tables, TInv

LEMMA NoTables ==
    ASSUME TInv, UNCHANGED <<user, link, mailed, uses, now, mfa>>, fails' \in 0 .. MaxFails
    PROVE  Tables
  BY SameTables DEF mfa, Tables

\* A request that starts at a call for which it needs no more than an address.
LEMMA StartTypes ==
    ASSUME TInv, Remember, Tables, NEW r \in Requests, NEW e \in Emails, NEW pc \in RequestPc,
           pc \in {"reg_save", "google_save", "reset_store"}
             \/ (pc \in {"verify_write", "google_link", "signed_in"} /\ Registered(e)'),
           Start(r, pc, e)
    PROVE  TInv'
  <1> DEFINE q == [Idle EXCEPT !.pc = pc, !.e = e]
  <1>1. q \in Request /\ LocalOK(q, user', link')
    BY DEF Idle, Request, LocalOK, OnRow, Registered
  <1> QED BY <1>1, MoveOK DEF Start

LEMMA FinishTypes ==
    ASSUME TInv, Remember, Tables, NEW r \in Requests, Finish(r)
    PROVE  TInv'
  BY MoveOK, IdleOK DEF Finish

\* A request that goes on with what it holds.
LEMMA GotoTypes ==
    ASSUME TInv, Remember, Tables, NEW r \in Requests, NEW pc \in RequestPc, Goto(r, pc),
           ~Free(r),
           LocalOK([req[r] EXCEPT !.pc = pc], user', link')
    PROVE  TInv'
  <1>1. [req[r] EXCEPT !.pc = pc] \in Request
    BY DEF TInv, TypeOK, Request
  <1> QED BY <1>1, MoveOK DEF Goto

\* The steps that read and go on.
LEMMA FindTypes ==
    ASSUME TInv, Remember, NEW r \in Requests, NEW e \in Emails,
           \/ RegisterFind(r, e) \/ VerifyFind(r, e) \/ GoogleFind(r, e) \/ ResetFind(r, e)
           \/ Admit(r, e) \/ \E role \in Roles : RoleFind(r, e, role)
    PROVE  TInv'
  <1>1. UNCHANGED <<user, link, mailed, uses, now, fails, mfa>>
    BY DEF RegisterFind, VerifyFind, GoogleFind, ResetFind, Admit, RoleFind
  <1>2. Tables
    BY <1>1, NoTables DEF TInv, TypeOK
  <1>3. CASE RegisterFind(r, e) \/ ResetFind(r, e)
    BY <1>2, <1>3, StartTypes DEF RegisterFind, ResetFind, RequestPc
  <1>4. CASE VerifyFind(r, e)
    BY <1>1, <1>2, <1>4, StartTypes DEF VerifyFind, RequestPc, TInv, Registered
  <1>5. CASE GoogleFind(r, e)
    BY <1>1, <1>2, <1>5, StartTypes DEF GoogleFind, RequestPc, Registered
  <1>6. CASE Admit(r, e)
    BY <1>1, <1>2, <1>6, StartTypes DEF Admit, RequestPc, Registered
  <1>7. ASSUME NEW role \in Roles, RoleFind(r, e, role) PROVE TInv'
    <2> DEFINE q == [Idle EXCEPT !.pc = "role_write", !.e = e, !.role = role]
    <2>1. q \in Request
      BY DEF Idle, Request, RequestPc
    <2>2. LocalOK(q, user', link')
      BY <1>1, <1>7 DEF RoleFind, Idle, LocalOK, OnRow, Registered
    <2> QED BY <1>2, <1>7, <2>1, <2>2, MoveOK DEF RoleFind
  <1> QED BY <1>3, <1>4, <1>5, <1>6, <1>7

LEMMA SetupFindTypes ==
    ASSUME TInv, Remember, NEW r \in Requests, SetupFind(r)
    PROVE  TInv'
  <1>1. PICK s \in Secrets \ taken :
          /\ taken' = taken \cup {s}
          /\ req' = [req EXCEPT ![r].pc = "mfa_store", ![r].secret = s]
    BY DEF SetupFind
  <1>2. Tables
    BY <1>1, SameTables DEF SetupFind, TInv, TypeOK, Tables
  <1> DEFINE q == [req[r] EXCEPT !.pc = "mfa_store", !.secret = s]
  <1>3. req[r] \in Request /\ LocalOK(req[r], user, link) /\ req[r].pc = "signed_in"
    BY DEF SetupFind, At, TInv, TypeOK
  <1>4. q \in Request /\ q.pc = "mfa_store" /\ q.e = req[r].e /\ q.secret = s
    BY <1>3 DEF Request, RequestPc
  <1>5. req' = [req EXCEPT ![r] = q] /\ UNCHANGED user
    BY <1>1 DEF SetupFind
  <1> HIDE DEF q
  <1>6. LocalOK(q, user', link')
    BY <1>3, <1>4, <1>5 DEF LocalOK, OnRow
  <1> QED BY <1>2, <1>4, <1>5, <1>6, MoveOK

LEMMA EnrolGetTypes ==
    ASSUME TInv, Remember, NEW r \in Requests, EnrolGet(r)
    PROVE  TInv'
  <1> DEFINE e == req[r].e
             q == [req[r] EXCEPT !.pc = "mfa_write", !.secret = pending[e].secret]
  <1>1. /\ UNCHANGED <<user, link, mailed, uses, now, fails, mfa>>
        /\ req[r] \in Request /\ LocalOK(req[r], user, link) /\ req[r].pc = "signed_in"
    BY DEF EnrolGet, At, TInv, TypeOK
  <1>2. Tables
    BY <1>1, NoTables DEF TInv, TypeOK
  <1>3. e \in Emails
    BY <1>1 DEF LocalOK
  <1>4. pending[e].secret \in Secrets
    BY <1>3 DEF EnrolGet, TInv, TypeOK, Pending
  <1>5. q \in Request /\ q.pc = "mfa_write" /\ q.e = e /\ q.secret \in Secrets
    BY <1>1, <1>4 DEF Request, RequestPc
  <1>6. req' = [req EXCEPT ![r] = q]
    BY DEF EnrolGet
  <1> HIDE DEF q
  <1>7. LocalOK(q, user', link')
    BY <1>1, <1>5 DEF LocalOK, OnRow
  <1> QED BY <1>2, <1>5, <1>6, <1>7, MoveOK

LEMMA ConfirmGetTypes ==
    ASSUME TInv, Remember, NEW r \in Requests, NEW l \in Links, ConfirmGet(r, l)
    PROVE  TInv'
  <1>1. UNCHANGED <<user, link, mailed, uses, now, fails, mfa>>
    BY DEF ConfirmGet
  <1>2. Tables
    BY <1>1, NoTables DEF TInv, TypeOK
  <1> DEFINE q == [Idle EXCEPT !.pc = "confirm_write", !.e = link[l].e, !.link = l]
  <1>3. link[l] # Null /\ link[l].e \in Emails
    BY DEF ConfirmGet, TInv, TypeOK, Link
  <1>4. q \in Request
    BY <1>3 DEF Idle, Request, RequestPc
  <1>5. LocalOK(q, user', link')
    BY <1>1, <1>3 DEF Idle, LocalOK, OnRow
  <1> QED BY <1>2, <1>4, <1>5, MoveOK DEF ConfirmGet

\* The inserts of register and loginWithGoogle.
LEMMA InsertTypes ==
    ASSUME TInv, Remember, NEW r \in Requests, RegisterSave(r) \/ GoogleSave(r)
    PROVE  TInv'
  <1> DEFINE e == req[r].e
  <1>1. PICK row \in UserRow, pc \in {"reg_select", "google_select"} :
          Insert(r, row, pc) /\ ~Free(r)
    BY RowsOK DEF RegisterSave, GoogleSave, At, Free
  <1>2. e \in Emails
    BY <1>1 DEF TInv, LocalOK, Free
  <1>3. user' = [user EXCEPT ![e] = row]
    BY <1>1 DEF Insert
  <1>4. user' \in [Emails -> UserRow \cup {Null}] /\ user'[e] # Null
        /\ \A f \in Emails : Registered(f) => Registered(f)'
    BY <1>2, <1>3, WriteOK
  <1>5. Tables
    BY <1>1, <1>4, RowTables DEF Insert, TInv, TypeOK
  <1> DEFINE q == [req[r] EXCEPT !.pc = pc, !.row = row]
  <1>6. q \in Request /\ q.pc = pc /\ q.row = row /\ q.e = e
    BY DEF TInv, TypeOK, Request, RequestPc
  <1>7. LocalOK(q, user', link')
    BY <1>2, <1>4, <1>6 DEF LocalOK, OnRow
  <1> HIDE DEF q
  <1>8. req' = [req EXCEPT ![r] = q]
    BY <1>1 DEF Insert, q
  <1> QED BY <1>5, <1>6, <1>7, <1>8, MoveOK

\* The SELECT of a second save.
LEMMA Selects ==
    ASSUME TInv, NEW r \in Requests, RegisterSelect(r) \/ GoogleSelect(r)
    PROVE  /\ req[r] \in Request /\ req[r].e \in Emails /\ req[r].row \in UserRow
           /\ user[req[r].e] \in UserRow
           /\ UNCHANGED <<user, link, mailed, uses, now, fails, mfa>>
           /\ \/ req[r].pc = "reg_select" /\ Select(r, "reg_tenant")
              \/ req[r].pc = "google_select" /\ Select(r, "google_tenant")
  <1>1. req[r] \in Request /\ req[r].pc \in Unsaved /\ LocalOK(req[r], user, link)
    BY DEF RegisterSelect, GoogleSelect, At, TInv, TypeOK
  <1>2. req[r].e \in Emails /\ req[r].row \in UserRow /\ user[req[r].e] \in UserRow
    BY <1>1 DEF LocalOK, OnRow, TInv, TypeOK
  <1> QED BY <1>1, <1>2 DEF RegisterSelect, GoogleSelect, Select, At

LEMMA SelectTypes ==
    ASSUME TInv, Remember, NEW r \in Requests, RegisterSelect(r) \/ GoogleSelect(r)
    PROVE  TInv'
  <1>1. PICK pc \in Saving : Select(r, pc)
    BY Selects
  <1>2. Tables
    BY Selects, NoTables DEF TInv, TypeOK
  <1> DEFINE q == [req[r] EXCEPT !.pc = pc, !.seen = user[req[r].e]]
  <1>3. q \in Request /\ q.pc = pc /\ q.row = req[r].row /\ q.e = req[r].e
        /\ q.seen = user[req[r].e]
    BY Selects DEF Request, RequestPc
  <1>4. req' = [req EXCEPT ![r] = q]
    BY <1>1 DEF Select
  <1> HIDE DEF q
  <1>5. LocalOK(q, user', link')
    BY <1>3, Selects, AccountsAssumption DEF LocalOK, OnRow
  <1> QED BY <1>2, <1>3, <1>4, <1>5, MoveOK

\* The row that the writing steps leave.
LEMMA Writes ==
    ASSUME TInv, NEW r \in Requests,
           \/ RegisterTenant(r) \/ GoogleTenant(r) \/ VerifyWrite(r) \/ GoogleLink(r)
           \/ RoleWrite(r) \/ EnrolWrite(r)
    PROVE  /\ req[r].e \in Emails /\ user[req[r].e] \in UserRow
           /\ \E row \in UserRow : user' = [user EXCEPT ![req[r].e] = row]
           /\ UNCHANGED <<link, mailed, uses, now, fails, mfa>>
           /\ ~Free(r)
  <1> DEFINE e == req[r].e
  <1>1. req[r].pc \in OnRow /\ LocalOK(req[r], user, link) /\ ~Free(r)
    BY DEF TInv, OnRow, At, Free, RegisterTenant, GoogleTenant, VerifyWrite, GoogleLink,
           RoleWrite, EnrolWrite
  <1>2. e \in Emails /\ user[e] \in UserRow
    BY <1>1 DEF LocalOK, Free, Registered, TInv, TypeOK
  <1>3. CASE RegisterTenant(r) \/ GoogleTenant(r)
    <2>1. Resaved(req[r]) \in UserRow
      BY <1>1, <1>2, <1>3, ResavedOK
      DEF RegisterTenant, GoogleTenant, At, LocalOK
    <2> QED BY <1>1, <1>2, <1>3, <2>1 DEF RegisterTenant, GoogleTenant
  <1>4. CASE VerifyWrite(r)
    BY <1>1, <1>2, <1>4, RowsOK DEF VerifyWrite
  <1>5. CASE GoogleLink(r)
    BY <1>1, <1>2, <1>5, RowsOK DEF GoogleLink
  <1>6. CASE RoleWrite(r)
    BY <1>1, <1>2, <1>6, RowsOK DEF RoleWrite, At, LocalOK
  <1>7. CASE EnrolWrite(r)
    BY <1>1, <1>2, <1>7, RowsOK DEF EnrolWrite, At, LocalOK
  <1> QED BY <1>1, <1>2, <1>3, <1>4, <1>5, <1>6, <1>7

LEMMA WriteTypes ==
    ASSUME TInv, Remember, NEW r \in Requests,
           \/ RegisterTenant(r) \/ GoogleTenant(r) \/ VerifyWrite(r) \/ GoogleLink(r)
           \/ RoleWrite(r) \/ EnrolWrite(r)
    PROVE  TInv'
  <1>1. Tables
    BY Writes, WriteOK, RowTables DEF TInv, TypeOK
  <1>2. CASE GoogleTenant(r) \/ VerifyWrite(r) \/ GoogleLink(r) \/ RoleWrite(r)
    BY <1>1, <1>2, FinishTypes DEF GoogleTenant, VerifyWrite, GoogleLink, RoleWrite
  <1>3. CASE RegisterTenant(r) \/ EnrolWrite(r)
    <2>1. PICK pc \in {"reg_mail", "mfa_del"} : Goto(r, pc)
      BY <1>3 DEF RegisterTenant, EnrolWrite
    <2>2. req[r].e \in Emails /\ user'[req[r].e] # Null
      BY Writes, WriteOK
    <2>3. LocalOK([req[r] EXCEPT !.pc = pc], user', link') /\ pc \in RequestPc
      BY <2>2 DEF LocalOK, OnRow, RequestPc, TInv, TypeOK, Request
    <2> QED BY <1>1, <2>1, <2>3, Writes, GotoTypes
  <1> QED BY <1>2, <1>3

LEMMA MailTypes ==
    ASSUME TInv, Remember, NEW r \in Requests,
           RegisterMail(r) \/ ResetMail(r) \/ Conflict(r) \/ Refused(r) \/ Fail(r)
    PROVE  TInv'
  <1>1. Finish(r) /\ UNCHANGED <<user, link, uses, now, mfa>>
    BY DEF RegisterMail, ResetMail, Conflict, Refused, Fail
  <1>2. LocalOK(req[r], user, link)
    BY DEF TInv
  <1>3. CASE RegisterMail(r)
    <2>1. req[r].e \in Emails /\ Registered(req[r].e)
      BY <1>2, <1>3 DEF RegisterMail, At, LocalOK, OnRow, Registered
    <2>2. Tables
      BY <1>1, <1>3, <2>1, SameTables, AccountsAssumption
      DEF RegisterMail, Tables, TInv, TypeOK, Registered, mfa
    <2> QED BY <1>1, <2>2, FinishTypes
  <1>4. CASE ResetMail(r)
    <2>1. req[r].link \in Links /\ link[req[r].link] # Null
      BY <1>2, <1>4 DEF ResetMail, At, LocalOK
    <2>2. Tables
      BY <1>1, <1>4, <2>1, SameTables, AccountsAssumption
      DEF ResetMail, Tables, TInv, TypeOK, Registered, mfa
    <2> QED BY <1>1, <2>2, FinishTypes
  <1>5. CASE Conflict(r) \/ Refused(r) \/ Fail(r)
    <2>1. fails' \in 0 .. MaxFails /\ UNCHANGED mailed
      BY <1>5, AccountsAssumption DEF Conflict, Refused, Fail, TInv, TypeOK
    <2> QED BY <1>1, <2>1, NoTables, FinishTypes
  <1> QED BY <1>3, <1>4, <1>5

LEMMA ResetStoreTypes ==
    ASSUME TInv, Remember, NEW r \in Requests, ResetStore(r)
    PROVE  TInv'
  <1> DEFINE new == [e |-> req[r].e, exp |-> Expiry(ResetTtl), stored |-> TRUE]
  <1>1. PICK l \in Links : /\ link[l] = Null
                           /\ link' = [link EXCEPT ![l] = new]
                           /\ req' = [req EXCEPT ![r].pc = "reset_mail", ![r].link = l]
    BY DEF ResetStore
  <1>2. req[r] \in Request /\ LocalOK(req[r], user, link) /\ req[r].e \in Emails
    BY DEF TInv, TypeOK, LocalOK, ResetStore, At
  <1>3. new \in Link
    BY <1>2, Times DEF Link
  <1>4. new # Null
    BY <1>3, AccountsAssumption
  <1> HIDE DEF new
  <1>5. Tables
    BY <1>1, <1>3, <1>4, SameTables DEF ResetStore, Tables, TInv, TypeOK, mfa
  <1> DEFINE q == [req[r] EXCEPT !.pc = "reset_mail", !.link = l]
  <1>6. q \in Request /\ q.pc = "reset_mail" /\ q.link = l /\ q.e \in Emails
    BY <1>2 DEF Request, RequestPc
  <1>7. link'[l] # Null
    BY <1>1, <1>4 DEF TInv, TypeOK
  <1>8. LocalOK(q, user', link')
    BY <1>6, <1>7 DEF LocalOK, OnRow
  <1> HIDE DEF q
  <1>9. req' = [req EXCEPT ![r] = q]
    BY <1>1 DEF q
  <1> QED BY <1>5, <1>6, <1>8, <1>9, MoveOK

LEMMA ConfirmTypes ==
    ASSUME TInv, Remember, NEW r \in Requests, ConfirmWrite(r) \/ ConfirmDel(r)
    PROVE  TInv'
  <1> DEFINE l == req[r].link
  <1>1. l \in Links /\ link[l] # Null /\ req[r].e \in Emails /\ req[r] \in Request
    BY DEF ConfirmWrite, ConfirmDel, At, TInv, TypeOK, LocalOK
  <1>2. CASE ConfirmWrite(r)
    <2>1. uses' \in [Links -> 0 .. MaxUses]
      BY <1>1, <1>2, AccountsAssumption DEF ConfirmWrite, TInv, TypeOK
    <2>2. Tables
      BY <1>2, <2>1, SameTables DEF ConfirmWrite, Tables, mfa
    <2>3. LocalOK([req[r] EXCEPT !.pc = "confirm_del"], user', link')
      BY <1>1, <1>2 DEF ConfirmWrite, LocalOK, OnRow, Request
    <2> QED BY <1>2, <2>2, <2>3, GotoTypes DEF ConfirmWrite, At, Free, RequestPc
  <1>3. CASE ConfirmDel(r)
    <2>1. link[l] \in Link
      BY <1>1 DEF TInv, TypeOK
    <2> DEFINE new == [link[l] EXCEPT !.stored = FALSE]
    <2>2. new \in Link
      BY <2>1 DEF Link
    <2>3. new # Null
      BY <2>2, AccountsAssumption
    <2>4. link' = [link EXCEPT ![l] = new]
      BY <1>3 DEF ConfirmDel, Consumed
    <2> HIDE DEF new
    <2>5. Tables
      BY <1>1, <1>3, <2>2, <2>3, <2>4, SameTables DEF ConfirmDel, Tables, TInv, TypeOK, mfa
    <2> QED BY <1>3, <2>5, FinishTypes DEF ConfirmDel
  <1> QED BY <1>2, <1>3

LEMMA EnrolTypes ==
    ASSUME TInv, Remember, NEW r \in Requests, SetupStore(r) \/ EnrolDel(r)
    PROVE  TInv'
  <1>1. req[r].e \in Emails
    BY DEF SetupStore, EnrolDel, At, TInv, LocalOK
  <1>2. CASE SetupStore(r)
    <2> DEFINE new == [secret |-> req[r].secret, exp |-> Expiry(MfaTtl)]
    <2>1. new \in Pending
      BY <1>2, Times DEF SetupStore, At, TInv, LocalOK, Pending
    <2>2. pending' \in [Emails -> Pending \cup {Null}]
      BY <1>1, <1>2, <2>1 DEF SetupStore, TInv, TypeOK
    <2>3. Tables
      BY <1>2, <2>2, SameTables DEF SetupStore, Tables
    <2> QED BY <1>2, <2>3, FinishTypes DEF SetupStore
  <1>3. CASE EnrolDel(r)
    <2>1. pending' \in [Emails -> Pending \cup {Null}]
      BY <1>1, <1>3 DEF EnrolDel, TInv, TypeOK
    <2>2. Tables
      BY <1>3, <2>1, SameTables DEF EnrolDel, Tables
    <2> QED BY <1>3, <2>2, FinishTypes DEF EnrolDel
  <1> QED BY <1>2, <1>3

\* The cleanup and the clock.
LEMMA CleanWrites ==
    ASSUME TInv, CleanTokens
    PROVE  /\ user' \in [Emails -> UserRow \cup {Null}]
           /\ \A e \in Emails : Registered(e) <=> Registered(e)'
           /\ \A e \in Emails : Registered(e) =>
                 /\ user'[e].verified = user[e].verified /\ user'[e].google = user[e].google
                 /\ user'[e].mfa = user[e].mfa /\ user'[e].tenant = user[e].tenant
  <1>1. ASSUME NEW e \in Emails, Registered(e)
        PROVE  LET row == [user[e] EXCEPT !.vexp = Null] IN
               /\ row \in UserRow /\ row # Null
               /\ row.verified = user[e].verified /\ row.google = user[e].google
               /\ row.mfa = user[e].mfa /\ row.tenant = user[e].tenant
    <2>1. user[e] \in UserRow
      BY <1>1 DEF TInv, TypeOK, Registered
    <2> QED BY <2>1, AccountsAssumption DEF UserRow
  <1>2. ASSUME NEW e \in Emails
        PROVE  user'[e] = IF Outdated(e) THEN [user[e] EXCEPT !.vexp = Null] ELSE user[e]
    BY DEF CleanTokens
  <1>3. ASSUME NEW e \in Emails PROVE user'[e] \in UserRow \cup {Null}
    BY <1>1, <1>2 DEF Outdated, TInv, TypeOK
  <1>4. user' \in [Emails -> UserRow \cup {Null}]
    BY <1>3 DEF CleanTokens
  <1> QED BY <1>1, <1>2, <1>4 DEF Outdated, Registered

LEMMA OtherTypes ==
    ASSUME TInv, Remember, CleanTokens \/ Tick
    PROVE  TInv'
  <1>1. Tables
    <2>1. CASE CleanTokens
      BY <2>1, CleanWrites, SameTables DEF CleanTokens, Tables, TInv, mfa
    <2>2. CASE Tick
      BY <2>2, SameTables, AccountsAssumption DEF Tick, Tables, TInv, TypeOK, mfa
    <2> QED BY <2>1, <2>2
  <1>2. UNCHANGED req
    BY DEF CleanTokens, Tick
  <1>3. worn' \in [Emails -> SUBSET Secrets] /\ entered' \subseteq Emails
    BY <1>1, RememberOK DEF Tables
  <1>4. TypeOK'
    BY <1>1, <1>2, <1>3 DEF TInv, TypeOK, Tables
  <1>5. \A r \in Requests : LocalOK(req'[r], user', link')
    BY <1>1, <1>2 DEF TInv, TypeOK, LocalOK, Tables, OnRow, Registered
  <1>6. \A e \in Emails : e \in mailed' \cup entered' => Registered(e)'
    BY <1>1 DEF TInv, Tables, Remember
  <1> QED BY <1>1, <1>4, <1>5, <1>6 DEF TInv, Tables

LEMMA TypesKept == TInv /\ [Next]_vars => TInv'
  <1> SUFFICES ASSUME TInv, [Next]_vars PROVE TInv'
    OBVIOUS
  <1>1. ASSUME NEW r \in Requests, Step(r), Remember PROVE TInv'
    BY <1>1, FindTypes, SetupFindTypes, EnrolGetTypes, ConfirmGetTypes, InsertTypes,
       SelectTypes, WriteTypes, MailTypes, ResetStoreTypes, ConfirmTypes, EnrolTypes
    DEF Step
  <1>2. CASE UNCHANGED vars
    BY <1>2 DEF vars, mfa, TInv, TypeOK, LocalOK, Registered
  <1> QED BY <1>1, <1>2, OtherTypes DEF Next

LEMMA InitTypes == Init => TInv
  BY AccountsAssumption DEF Init, TInv, TypeOK, Idle, Request, RequestPc, LocalOK, OnRow, Registered
----------------------------------------------------------------------------
(* Who may be verified, linked and armed *)

Creating == Unsaved \cup {"reg_mail"}
Inside   == {"signed_in", "mfa_write"}

\* While a second save is to come, its address has had no mail, so that only
\* Google can have verified it, and only what Google let in can have armed it.
ProofOK(q, users, mails, ins) ==
    /\ q.pc = "verify_write" => q.e \in mails
    /\ q.pc \in Inside => q.e \in ins
    /\ q.pc \in Unsaved => q.e \notin mails
    /\ q.pc \in {"reg_select", "reg_tenant"} =>
          /\ ~q.row.verified /\ ~q.row.google
          /\ users[q.e].verified \/ users[q.e].mfa # Null \/ q.e \in ins => users[q.e].google
          /\ users[q.e].google => users[q.e].verified
    /\ q.pc \in {"google_select", "google_tenant"} =>
          q.row.google /\ q.row.verified /\ users[q.e].google
    /\ q.pc = "reg_tenant" => (q.seen.google => q.seen.verified)
    /\ q.pc \in Saving => (q.seen.tenant => users[q.e].tenant)

\* A row is created by one request.
OneCreator ==
    \A r, s \in Requests :
        req[r].pc \in Creating /\ req[s].pc \in Creating /\ req[r].e = req[s].e => r = s

PInv ==
    /\ \A r \in Requests : ProofOK(req[r], user, mailed, entered)
    /\ OneCreator
    /\ VerifiedHasProof
    /\ TenantUnlessFailed

\* Steps that create, verify and mail no account.
LEMMA QuietProof ==
    ASSUME TInv, PInv, Remember, UNCHANGED user, fails' \in {fails, fails + 1},
           mailed' \subseteq mailed \cup Links, mailed \subseteq mailed',
           NEW r \in Requests, NEW q, q.pc \notin Creating, req' = [req EXCEPT ![r] = q],
           q.pc = "verify_write" => q.e \in mailed,
           q.pc \in Inside => q.e \in entered',
           req[r].pc \in Unsaved => fails' > 0
    PROVE  PInv'
  <1>1. \A e \in Emails : e \in mailed' <=> e \in mailed
    BY AccountsAssumption
  <1>2. ASSUME NEW s \in Requests PROVE ProofOK(req'[s], user', mailed', entered')
    <2>1. CASE s = r
      BY <2>1 DEF ProofOK, TInv, TypeOK, Creating
    <2>2. CASE s # r
      <3>1. req'[s] = req[s] /\ ProofOK(req[s], user, mailed, entered)
            /\ LocalOK(req[s], user, link)
        BY <2>2 DEF TInv, TypeOK, PInv
      <3> QED BY <1>1, <3>1 DEF ProofOK, Remember, LocalOK, OnRow, Registered
    <2> QED BY <2>1, <2>2
  <1>3. OneCreator'
    <2> SUFFICES ASSUME NEW s \in Requests, NEW t \in Requests,
                        req'[s].pc \in Creating, req'[t].pc \in Creating,
                        req'[s].e = req'[t].e
                 PROVE  s = t
      BY DEF OneCreator
    <2>1. s # r /\ t # r /\ req'[s] = req[s] /\ req'[t] = req[t]
      BY DEF TInv, TypeOK
    <2> QED BY <2>1 DEF PInv, OneCreator
  <1>4. VerifiedHasProof'
    BY DEF PInv, VerifiedHasProof, Registered
  <1>5. TenantUnlessFailed'
    <2> SUFFICES ASSUME NEW e \in Emails, Registered(e), ~user[e].tenant, ~(fails' > 0)
                 PROVE  \E s \in Requests : req'[s].pc \in Unsaved /\ req'[s].e = e
      BY DEF TenantUnlessFailed, BeingCreated, Registered
    <2>1. ~(fails > 0)
      BY AccountsAssumption DEF TInv, TypeOK
    <2>2. PICK s \in Requests : req[s].pc \in Unsaved /\ req[s].e = e
      BY <2>1 DEF PInv, TenantUnlessFailed, BeingCreated
    <2>3. s # r /\ req'[s] = req[s]
      BY <2>2 DEF TInv, TypeOK
    <2> QED BY <2>2, <2>3
  <1> QED BY <1>2, <1>3, <1>4, <1>5 DEF PInv

\* Steps that write a row for a registered address, or let the others know of it
\* in a mail, and change none of the columns of ProofOK for the worse.
LEMMA InsertProof ==
    ASSUME TInv, PInv, Remember, NEW r \in Requests, RegisterSave(r) \/ GoogleSave(r)
    PROVE  PInv'
  <1>1. PICK e \in Emails : req[r].e = e
    BY DEF TInv, LocalOK, RegisterSave, GoogleSave, At
  <1>2. PICK row \in UserRow, pc \in {"reg_select", "google_select"} :
          /\ Insert(r, row, pc)
          /\ pc = "reg_select" => ~row.verified /\ ~row.google /\ row.mfa = Null
          /\ pc = "google_select" => row.google /\ row.verified
          /\ row.verified => row.google
    <2>1. CASE RegisterSave(r)
      <3>1. Insert(r, NewRow, "reg_select") /\ NewRow \in UserRow
            /\ ~NewRow.verified /\ ~NewRow.google /\ NewRow.mfa = Null
        BY <2>1, RowsOK DEF RegisterSave, NewRow
      <3> QED BY <3>1
    <2>2. CASE GoogleSave(r)
      <3>1. Insert(r, GoogleRow, "google_select") /\ GoogleRow \in UserRow
            /\ GoogleRow.verified /\ GoogleRow.google
        BY <2>2, RowsOK DEF GoogleSave, GoogleRow
      <3> QED BY <3>1
    <2> QED BY <2>1, <2>2
  <1>3. /\ ~Registered(e) /\ e \notin mailed /\ e \notin entered
        /\ user' = [user EXCEPT ![e] = row]
        /\ UNCHANGED <<link, mailed, uses, now, fails, mfa>>
    BY <1>1, <1>2 DEF Insert, TInv
  <1>4. user'[e] = row /\ row # Null /\ \A f \in Emails \ {e} : user'[f] = user[f]
    BY <1>2, <1>3, AccountsAssumption DEF TInv, TypeOK
  <1> DEFINE q == [req[r] EXCEPT !.pc = pc, !.row = row]
  <1>5. /\ req' = [req EXCEPT ![r] = q]
        /\ q.pc = pc /\ q.row = row /\ q.e = e
    BY <1>1, <1>2 DEF Insert, TInv, TypeOK, Request
  <1> HIDE DEF q
  <1>6. req'[r] = q /\ \A s \in Requests \ {r} : req'[s] = req[s]
    BY <1>5 DEF TInv, TypeOK
  <1>7. ASSUME NEW s \in Requests \ {r}, req[s].pc \in OnRow PROVE req[s].e # e
    BY <1>3, <1>7 DEF TInv, LocalOK, Registered
  <1>8. e \in entered' => row.verified
    BY <1>3, <1>4 DEF Remember
  <1>9. ASSUME NEW s \in Requests PROVE ProofOK(req'[s], user', mailed', entered')
    <2>1. CASE s = r
      BY <1>2, <1>3, <1>4, <1>5, <1>6, <1>8, <2>1 DEF ProofOK, Inside
    <2>2. CASE s # r
      <3>1. /\ req'[s] = req[s] /\ ProofOK(req[s], user, mailed, entered)
            /\ LocalOK(req[s], user, link)
        BY <1>6, <2>2 DEF PInv, TInv
      <3>2. req[s].pc \in OnRow => req[s].e # e /\ user'[req[s].e] = user[req[s].e]
        BY <1>4, <1>7, <2>2, <3>1 DEF LocalOK, OnRow
      <3> QED BY <1>3, <3>1, <3>2 DEF ProofOK, Remember, OnRow, LocalOK
    <2> QED BY <2>1, <2>2
  <1>10. OneCreator'
    <2> SUFFICES ASSUME NEW s \in Requests, NEW t \in Requests,
                        req'[s].pc \in Creating, req'[t].pc \in Creating,
                        req'[s].e = req'[t].e
                 PROVE  s = t
      BY DEF OneCreator
    <2>1. ASSUME NEW x \in Requests \ {r}, req'[x].pc \in Creating
          PROVE  req[x] = req'[x] /\ req'[x].e # e
      BY <1>6, <1>7, <2>1 DEF Creating, OnRow
    <2>2. req'[r].e = e
      BY <1>5, <1>6
    <2> QED BY <2>1, <2>2 DEF PInv, OneCreator
  <1>11. VerifiedHasProof'
    BY <1>2, <1>3, <1>4 DEF PInv, VerifiedHasProof, Registered
  <1>12. TenantUnlessFailed'
    <2> SUFFICES ASSUME NEW f \in Emails, Registered(f)', ~user'[f].tenant, ~(fails' > 0)
                 PROVE  \E s \in Requests : req'[s].pc \in Unsaved /\ req'[s].e = f
      BY DEF TenantUnlessFailed, BeingCreated
    <2>1. CASE f = e
      BY <1>2, <1>5, <1>6, <2>1
    <2>2. CASE f # e
      <3>1. PICK s \in Requests : req[s].pc \in Unsaved /\ req[s].e = f
        BY <1>3, <1>4, <2>2 DEF PInv, TenantUnlessFailed, BeingCreated, Registered
      <3>2. s # r
        BY <1>1, <2>2, <3>1
      <3> QED BY <1>6, <3>1, <3>2
    <2> QED BY <2>1, <2>2
  <1> QED BY <1>9, <1>10, <1>11, <1>12 DEF PInv

\* The mail of a registration goes out after its second save: nobody else has one
\* to come for the address.
LEMMA MailProof ==
    ASSUME TInv, PInv, Remember, NEW r \in Requests, RegisterMail(r)
    PROVE  PInv'
  <1>1. PICK e \in Emails : req[r].e = e
    BY DEF TInv, LocalOK, RegisterMail, At
  <1>2. /\ UNCHANGED <<user, fails>> /\ mailed' = mailed \cup {e}
        /\ req' = [req EXCEPT ![r] = Idle] /\ req[r].pc = "reg_mail"
    BY <1>1 DEF RegisterMail, Finish, At
  <1>3. req'[r] = Idle /\ Idle.pc = "idle" /\ \A s \in Requests \ {r} : req'[s] = req[s]
    BY <1>2 DEF TInv, TypeOK, Idle
  <1>4. ASSUME NEW s \in Requests PROVE ProofOK(req'[s], user', mailed', entered')
    <2>1. CASE s = r
      BY <1>3, <2>1 DEF ProofOK, Inside
    <2>2. CASE s # r
      <3>1. /\ req'[s] = req[s] /\ ProofOK(req[s], user, mailed, entered)
            /\ LocalOK(req[s], user, link)
        BY <1>3, <2>2 DEF PInv, TInv
      <3>2. req[s].pc \in Unsaved => req[s].e # e
        BY <1>1, <1>2, <2>2 DEF PInv, OneCreator, Creating
      <3> QED BY <1>2, <3>1, <3>2 DEF ProofOK, Remember, LocalOK, OnRow, Registered
    <2> QED BY <2>1, <2>2
  <1>5. OneCreator'
    BY <1>3 DEF PInv, OneCreator, Creating
  <1>6. VerifiedHasProof'
    BY <1>2 DEF PInv, VerifiedHasProof, Registered
  <1>7. TenantUnlessFailed'
    <2> SUFFICES ASSUME NEW f \in Emails, Registered(f), ~user[f].tenant, ~(fails > 0)
                 PROVE  \E s \in Requests : req'[s].pc \in Unsaved /\ req'[s].e = f
      BY <1>2 DEF TenantUnlessFailed, BeingCreated, Registered
    <2>1. PICK s \in Requests : req[s].pc \in Unsaved /\ req[s].e = f
      BY DEF PInv, TenantUnlessFailed, BeingCreated
    <2>2. s # r
      BY <1>2, <2>1
    <2> QED BY <1>3, <2>1, <2>2
  <1> QED BY <1>4, <1>5, <1>6, <1>7 DEF PInv

\* A row that is written for an address whose row was there before: what the
\* invariant needs of it, and of what the request q holds afterwards.
Written(r, e, row, q) ==
    /\ user' = [user EXCEPT ![e] = row]
    /\ req' = [req EXCEPT ![r] = q]
    /\ q.pc \in {"idle", "reg_mail", "mfa_del"}
    /\ q.pc = "reg_mail" => q.e = e /\ req[r].pc = "reg_tenant"
    /\ row.verified => e \in mailed \/ row.google
    /\ req[r].pc \in Unsaved => row.tenant
    /\ req[r].pc \notin Unsaved =>
          /\ row.tenant = user[e].tenant
          /\ user[e].google => row.google
          /\ (user[e].google => user[e].verified) => (row.google => row.verified)
          /\ row.mfa # Null => user[e].mfa # Null \/ e \in entered

LEMMA RowProof ==
    ASSUME TInv, PInv, Remember, NEW r \in Requests, NEW e \in Emails, req[r].e = e,
           Registered(e), UNCHANGED <<mailed, fails>>,
           NEW row \in UserRow, NEW q, Written(r, e, row, q)
    PROVE  PInv'
  <1>1. user'[e] = row /\ row # Null /\ \A f \in Emails \ {e} : user'[f] = user[f]
    BY AccountsAssumption DEF Written, TInv, TypeOK
  <1>2. req'[r] = q /\ \A s \in Requests \ {r} : req'[s] = req[s]
    BY DEF Written, TInv, TypeOK
  <1>3. ASSUME NEW s \in Requests PROVE ProofOK(req'[s], user', mailed', entered')
    <2>1. CASE s = r
      BY <1>2, <2>1 DEF ProofOK, Inside, Written
    <2>2. CASE s # r
      <3>1. /\ req'[s] = req[s] /\ ProofOK(req[s], user, mailed, entered)
            /\ LocalOK(req[s], user, link)
        BY <1>2, <2>2 DEF PInv, TInv
      <3>2. CASE req[s].e # e
        BY <1>1, <3>1, <3>2 DEF ProofOK, Remember, LocalOK, OnRow, Registered
      <3>3. CASE req[s].e = e
        <4>1. req[s].pc \in Unsaved => req[r].pc \notin Unsaved
          BY <2>2, <3>3 DEF PInv, OneCreator, Creating
        <4>2. e \in entered' => e \in entered \/ row.verified
          BY <1>1 DEF Remember
        <4> QED BY <1>1, <3>1, <3>3, <4>1, <4>2
                DEF ProofOK, Remember, LocalOK, OnRow, Registered, Written
      <3> QED BY <3>2, <3>3
    <2> QED BY <2>1, <2>2
  <1>4. OneCreator'
    <2> SUFFICES ASSUME NEW s \in Requests, NEW t \in Requests,
                        req'[s].pc \in Creating, req'[t].pc \in Creating,
                        req'[s].e = req'[t].e
                 PROVE  s = t
      BY DEF OneCreator
    <2>1. ASSUME NEW x \in Requests, req'[x].pc \in Creating
          PROVE  req[x].pc \in Creating /\ req[x].e = req'[x].e
      BY <1>2, <2>1 DEF Creating, Written
    <2> QED BY <2>1 DEF PInv, OneCreator
  <1>5. VerifiedHasProof'
    BY <1>1 DEF PInv, VerifiedHasProof, Registered, Written
  <1>6. TenantUnlessFailed'
    <2> SUFFICES ASSUME NEW f \in Emails, Registered(f)', ~user'[f].tenant, ~(fails' > 0)
                 PROVE  \E s \in Requests : req'[s].pc \in Unsaved /\ req'[s].e = f
      BY DEF TenantUnlessFailed, BeingCreated
    <2>1. Registered(f) /\ ~user[f].tenant /\ (f = e => req[r].pc \notin Unsaved)
      BY <1>1 DEF Registered, Written
    <2>2. PICK s \in Requests : req[s].pc \in Unsaved /\ req[s].e = f
      BY <2>1 DEF PInv, TenantUnlessFailed, BeingCreated
    <2>3. s # r
      BY <2>1, <2>2
    <2> QED BY <1>2, <2>2, <2>3
  <1> QED BY <1>3, <1>4, <1>5, <1>6 DEF PInv

\* The steps that write a row, and what the row takes from the one before.
LEMMA WriteProof ==
    ASSUME TInv, PInv, Remember, NEW r \in Requests,
           \/ RegisterTenant(r) \/ GoogleTenant(r) \/ VerifyWrite(r) \/ GoogleLink(r)
           \/ RoleWrite(r) \/ EnrolWrite(r)
    PROVE  PInv'
  <1>1. PICK e \in Emails : req[r].e = e
    BY Writes
  <1>2. /\ user[e] \in UserRow /\ Registered(e)
        /\ UNCHANGED <<mailed, fails>>
        /\ req[r] \in Request
    BY <1>1, Writes, AccountsAssumption DEF Registered, TInv, TypeOK
  <1>3. LocalOK(req[r], user, link) /\ ProofOK(req[r], user, mailed, entered)
    BY DEF TInv, PInv
  <1>4. user[e].verified => e \in mailed \/ user[e].google
    BY <1>2 DEF PInv, VerifiedHasProof
  <1>5. Idle.pc = "idle"
    BY DEF Idle
  <1>6. CASE RegisterTenant(r)
    <2> DEFINE row == Resaved(req[r])
               q   == [req[r] EXCEPT !.pc = "reg_mail"]
    <2>1. /\ req[r].pc = "reg_tenant" /\ req[r].row \in UserRow /\ req[r].seen \in UserRow
          /\ ~req[r].row.verified /\ ~req[r].row.google
          /\ req[r].seen.google => req[r].seen.verified
          /\ req[r].seen.tenant => user[e].tenant
          /\ user[e].verified => user[e].google
      BY <1>1, <1>3, <1>6 DEF RegisterTenant, At, LocalOK, ProofOK
    <2>2. /\ row \in UserRow
          /\ Kept(req[r].row.verified, req[r].seen.verified, user[e].verified, row.verified)
          /\ Kept(req[r].row.google, req[r].seen.google, user[e].google, row.google)
          /\ Kept(TRUE, req[r].seen.tenant, user[e].tenant, row.tenant)
      BY <1>1, <1>2, <2>1, ResavedOK
    <2>6. row.tenant /\ (row.verified => row.google)
      BY <1>2, <2>1, <2>2 DEF Kept, UserRow
    <2>3. q.pc = "reg_mail" /\ q.e = e
      BY <1>1, <1>2 DEF Request
    <2>4. user' = [user EXCEPT ![e] = row] /\ req' = [req EXCEPT ![r] = q]
      BY <1>1, <1>6 DEF RegisterTenant, Goto
    <2> HIDE DEF row, q
    <2>5. Written(r, e, row, q)
      BY <2>1, <2>3, <2>4, <2>6 DEF Written
    <2> QED BY <1>1, <1>2, <2>2, <2>5, RowProof
  <1>7. CASE GoogleTenant(r)
    <2> DEFINE row == Resaved(req[r])
    <2>1. /\ req[r].pc = "google_tenant" /\ req[r].row \in UserRow /\ req[r].seen \in UserRow
          /\ req[r].row.google /\ user[e].google
          /\ req[r].seen.tenant => user[e].tenant
      BY <1>1, <1>3, <1>7 DEF GoogleTenant, At, LocalOK, ProofOK
    <2>6. /\ row \in UserRow
          /\ Kept(req[r].row.google, req[r].seen.google, user[e].google, row.google)
          /\ Kept(TRUE, req[r].seen.tenant, user[e].tenant, row.tenant)
      BY <1>1, <1>2, <2>1, ResavedOK
    <2>2. row \in UserRow /\ row.tenant /\ row.google
      BY <1>2, <2>1, <2>6 DEF Kept, UserRow
    <2>3. user' = [user EXCEPT ![e] = row] /\ req' = [req EXCEPT ![r] = Idle]
      BY <1>1, <1>7 DEF GoogleTenant, Finish
    <2> HIDE DEF row
    <2>4. Written(r, e, row, Idle)
      BY <1>5, <2>1, <2>2, <2>3 DEF Written
    <2> QED BY <1>1, <1>2, <2>2, <2>4, RowProof
  <1>8. CASE VerifyWrite(r)
    <2> DEFINE row == [user[e] EXCEPT !.verified = TRUE, !.vexp = Null, !.role = "owner"]
    <2>1. req[r].pc = "verify_write" /\ e \in mailed
      BY <1>1, <1>3, <1>8 DEF VerifyWrite, At, ProofOK
    <2>2. /\ row \in UserRow /\ row.tenant = user[e].tenant
          /\ row.google = user[e].google /\ row.mfa = user[e].mfa /\ row.verified
      BY <1>2, RowsOK DEF UserRow
    <2>3. user' = [user EXCEPT ![e] = row] /\ req' = [req EXCEPT ![r] = Idle]
      BY <1>1, <1>2, <1>8 DEF VerifyWrite, Finish, TInv, TypeOK
    <2> HIDE DEF row
    <2>4. Written(r, e, row, Idle)
      BY <1>5, <2>1, <2>2, <2>3 DEF Written
    <2> QED BY <1>1, <1>2, <2>2, <2>4, RowProof
  <1>9. CASE GoogleLink(r)
    <2> DEFINE row == LinkedRow(user[e])
    <2>1. req[r].pc = "google_link"
      BY <1>9 DEF GoogleLink, At
    <2>2. row \in UserRow /\ row.tenant = user[e].tenant /\ row.google /\ row.verified
          /\ row.mfa = user[e].mfa
      BY <1>2 DEF UserRow, LinkedRow
    <2>3. user' = [user EXCEPT ![e] = row] /\ req' = [req EXCEPT ![r] = Idle]
      BY <1>1, <1>9 DEF GoogleLink, Finish
    <2> HIDE DEF row
    <2>4. Written(r, e, row, Idle)
      BY <1>5, <2>1, <2>2, <2>3 DEF Written
    <2> QED BY <1>1, <1>2, <2>2, <2>4, RowProof
  <1>10. CASE RoleWrite(r)
    <2> DEFINE row == [user[e] EXCEPT !.role = req[r].role]
    <2>1. req[r].pc = "role_write" /\ req[r].role \in Roles
      BY <1>3, <1>10 DEF RoleWrite, At, LocalOK
    <2>2. /\ row \in UserRow /\ row.tenant = user[e].tenant /\ row.verified = user[e].verified
          /\ row.google = user[e].google /\ row.mfa = user[e].mfa
      BY <1>2, <2>1 DEF UserRow
    <2>3. user' = [user EXCEPT ![e] = row] /\ req' = [req EXCEPT ![r] = Idle]
      BY <1>1, <1>10 DEF RoleWrite, Finish
    <2> HIDE DEF row
    <2>4. Written(r, e, row, Idle)
      BY <1>4, <1>5, <2>1, <2>2, <2>3 DEF Written
    <2> QED BY <1>1, <1>2, <2>2, <2>4, RowProof
  <1>11. CASE EnrolWrite(r)
    <2> DEFINE row == [user[e] EXCEPT !.mfa = req[r].secret]
               q   == [req[r] EXCEPT !.pc = "mfa_del"]
    <2>1. req[r].pc = "mfa_write" /\ req[r].secret \in Secrets /\ e \in entered
      BY <1>1, <1>3, <1>11 DEF EnrolWrite, At, LocalOK, ProofOK, Inside
    <2>2. /\ row \in UserRow /\ row.tenant = user[e].tenant /\ row.verified = user[e].verified
          /\ row.google = user[e].google
      BY <1>2, <2>1 DEF UserRow
    <2>3. q.pc = "mfa_del"
      BY <1>2 DEF Request
    <2>4. user' = [user EXCEPT ![e] = row] /\ req' = [req EXCEPT ![r] = q]
      BY <1>1, <1>11 DEF EnrolWrite, Goto
    <2> HIDE DEF row, q
    <2>5. Written(r, e, row, q)
      BY <1>4, <2>1, <2>2, <2>3, <2>4 DEF Written
    <2> QED BY <1>1, <1>2, <2>2, <2>5, RowProof
  <1> QED BY <1>6, <1>7, <1>8, <1>9, <1>10, <1>11

\* What a request holds when it starts, or goes on without creating an account.
Quietly(r, q) ==
    /\ req' = [req EXCEPT ![r] = q]
    /\ q.pc \notin Creating
    /\ q.pc = "verify_write" => q.e \in mailed
    /\ q.pc \in Inside => q.e \in entered'

\* The steps that leave the accounts and their mails alone.
LEMMA FindProof ==
    ASSUME TInv, PInv, Remember, NEW r \in Requests,
           \/ \E e \in Emails : \/ RegisterFind(r, e) \/ VerifyFind(r, e) \/ GoogleFind(r, e)
                                \/ ResetFind(r, e) \/ Admit(r, e)
                                \/ \E role \in Roles : RoleFind(r, e, role)
           \/ \E l \in Links : ConfirmGet(r, l)
    PROVE  PInv'
  <1>1. UNCHANGED <<user, mailed, fails>> /\ req[r].pc = "idle"
    BY DEF RegisterFind, VerifyFind, GoogleFind, ResetFind, Admit, RoleFind, ConfirmGet, Free
  <1>2. fails' \in {fails, fails + 1} /\ mailed' \subseteq mailed \cup Links
        /\ mailed \subseteq mailed' /\ req[r].pc \notin Unsaved
    BY <1>1
  <1>3. \E q : Quietly(r, q)
    <2>1. ASSUME NEW e \in Emails,
               NEW pc \in {"reg_save", "google_save", "google_link", "reset_store"},
                 Start(r, pc, e)
          PROVE  \E q : Quietly(r, q)
      <3> WITNESS [Idle EXCEPT !.pc = pc, !.e = e]
      <3> QED BY <2>1 DEF Start, Idle, Creating, Inside, Quietly
    <2>2. ASSUME NEW e \in Emails, VerifyFind(r, e) PROVE \E q : Quietly(r, q)
      <3> WITNESS [Idle EXCEPT !.pc = "verify_write", !.e = e]
      <3> QED BY <2>2 DEF VerifyFind, Start, Idle, Creating, Inside, Quietly
    <2>3. ASSUME NEW e \in Emails, Admit(r, e) PROVE \E q : Quietly(r, q)
      <3>1. e \in entered'
        BY <1>1, <2>3 DEF Admit, Remember, Registered
      <3> WITNESS [Idle EXCEPT !.pc = "signed_in", !.e = e]
      <3> QED BY <2>3, <3>1 DEF Admit, Start, Idle, Creating, Inside, Quietly
    <2>4. ASSUME NEW e \in Emails, NEW role \in Roles, RoleFind(r, e, role)
          PROVE  \E q : Quietly(r, q)
      <3> WITNESS [Idle EXCEPT !.pc = "role_write", !.e = e, !.role = role]
      <3> QED BY <2>4 DEF RoleFind, Idle, Creating, Inside, Quietly
    <2>5. ASSUME NEW l \in Links, ConfirmGet(r, l) PROVE \E q : Quietly(r, q)
      <3> WITNESS [Idle EXCEPT !.pc = "confirm_write", !.e = link[l].e, !.link = l]
      <3> QED BY <2>5 DEF ConfirmGet, Idle, Creating, Inside, Quietly
    <2> QED BY <2>1, <2>2, <2>3, <2>4, <2>5 DEF RegisterFind, GoogleFind, ResetFind
  <1> QED BY <1>1, <1>2, <1>3, QuietProof DEF Quietly

\* The SELECT of a second save finds what the invariant says of the row.
LEMMA SelectProof ==
    ASSUME TInv, PInv, Remember, NEW r \in Requests, RegisterSelect(r) \/ GoogleSelect(r)
    PROVE  PInv'
  <1>1. PICK pc \in Saving :
          /\ Select(r, pc)
          /\ pc = "reg_tenant" => req[r].pc = "reg_select"
          /\ pc = "google_tenant" => req[r].pc = "google_select"
    BY Selects
  <1> DEFINE e == req[r].e
             q == [req[r] EXCEPT !.pc = pc, !.seen = user[e]]
  <1>2. q.pc = pc /\ q.e = e /\ q.row = req[r].row /\ q.seen = user[e]
    BY Selects DEF Request
  <1>3. req' = [req EXCEPT ![r] = q] /\ UNCHANGED <<user, mailed, fails>>
    BY <1>1, Selects DEF Select
  <1> HIDE DEF q
  <1>4. req'[r] = q /\ \A s \in Requests \ {r} : req'[s] = req[s]
    BY <1>3 DEF TInv, TypeOK
  <1>5. /\ req[r].pc \in Unsaved /\ q.pc \in Unsaved /\ LocalOK(req[r], user, link)
        /\ ProofOK(req[r], user, mailed, entered)
    BY <1>1, <1>2 DEF TInv, PInv
  <1>6. ASSUME NEW f \in Emails, Registered(f), f \in entered'
        PROVE  f \in entered \/ user[f].verified
    BY <1>3, <1>6 DEF Remember
  <1>7. entered \subseteq entered'
    BY DEF Remember
  <1>8. ASSUME NEW s \in Requests PROVE ProofOK(req'[s], user', mailed', entered')
    <2>1. CASE s = r
      <3>1. e \in Emails /\ Registered(e)
        BY Selects, AccountsAssumption DEF Registered
      <3> QED BY <1>1, <1>2, <1>3, <1>4, <1>5, <1>6, <2>1, <3>1
              DEF ProofOK, Inside
    <2>2. CASE s # r
      <3>1. /\ req'[s] = req[s] /\ ProofOK(req[s], user, mailed, entered)
            /\ LocalOK(req[s], user, link)
        BY <1>4, <2>2 DEF PInv, TInv
      <3> QED BY <1>3, <1>6, <1>7, <3>1
              DEF ProofOK, LocalOK, OnRow, Inside, Registered
    <2> QED BY <2>1, <2>2
  <1>9. ASSUME NEW s \in Requests
        PROVE  /\ req'[s].e = req[s].e
               /\ req'[s].pc \in Unsaved <=> req[s].pc \in Unsaved
               /\ req'[s].pc \in Creating <=> req[s].pc \in Creating
    BY <1>2, <1>4, <1>5 DEF Creating
  <1>10. OneCreator'
    BY <1>9 DEF PInv, OneCreator
  <1>11. VerifiedHasProof' /\ TenantUnlessFailed'
    BY <1>3, <1>9
    DEF PInv, VerifiedHasProof, TenantUnlessFailed, BeingCreated, Registered
  <1> QED BY <1>8, <1>10, <1>11 DEF PInv

LEMMA GoOnProof ==
    ASSUME TInv, PInv, Remember, NEW r \in Requests,
           \/ ResetStore(r) \/ ResetMail(r) \/ ConfirmWrite(r) \/ ConfirmDel(r)
           \/ SetupFind(r) \/ SetupStore(r) \/ EnrolGet(r) \/ EnrolDel(r)
           \/ Refused(r) \/ Conflict(r) \/ Fail(r)
    PROVE  PInv'
  <1>1. req[r] \in Request /\ LocalOK(req[r], user, link)
    BY DEF TInv, TypeOK
  <1>2. UNCHANGED user /\ fails' \in {fails, fails + 1} /\ mailed \subseteq mailed'
        /\ mailed' \subseteq mailed \cup Links
    BY <1>1 DEF ResetStore, ResetMail, ConfirmWrite, ConfirmDel, SetupFind, SetupStore,
                EnrolGet, EnrolDel, Refused, Conflict, Fail, At, LocalOK, mfa
  <1>3. req[r].pc \in Unsaved => fails' > 0
    BY AccountsAssumption
    DEF ResetStore, ResetMail, ConfirmWrite, ConfirmDel, SetupFind, SetupStore, EnrolGet,
        EnrolDel, Refused, Conflict, Fail, At, TInv, TypeOK
  <1>4. \E q : Quietly(r, q)
    <2>1. CASE Finish(r)
      <3>1. Quietly(r, Idle)
        BY <2>1 DEF Finish, Quietly, Idle, Creating, Inside
      <3> QED BY <3>1
    <2>2. CASE ResetStore(r)
      <3>1. PICK l \in Links : req' = [req EXCEPT ![r] = [@ EXCEPT !.pc = "reset_mail", !.link = l]]
        BY <2>2 DEF ResetStore
      <3>2. Quietly(r, [req[r] EXCEPT !.pc = "reset_mail", !.link = l])
        BY <1>1, <3>1 DEF Quietly, Request, Creating, Inside, TInv, TypeOK
      <3> QED BY <3>2
    <2>3. CASE ConfirmWrite(r)
      <3>1. Quietly(r, [req[r] EXCEPT !.pc = "confirm_del"])
        BY <1>1, <2>3 DEF ConfirmWrite, Goto, Quietly, Request, Creating, Inside
      <3> QED BY <3>1
    <2>4. ASSUME NEW s \in Secrets,
                 req' = [req EXCEPT ![r] = [@ EXCEPT !.pc = "mfa_store", !.secret = s]]
          PROVE  \E q : Quietly(r, q)
      <3>1. Quietly(r, [req[r] EXCEPT !.pc = "mfa_store", !.secret = s])
        BY <1>1, <2>4 DEF Quietly, Request, Creating, Inside, TInv, TypeOK
      <3> QED BY <3>1
    <2>5. CASE EnrolGet(r)
      <3> DEFINE q == [req[r] EXCEPT !.pc = "mfa_write", !.secret = pending[req[r].e].secret]
      <3>1. req[r].e \in entered'
        BY <2>5 DEF EnrolGet, At, PInv, ProofOK, Inside, Remember
      <3>2. q.pc = "mfa_write" /\ q.e = req[r].e /\ req' = [req EXCEPT ![r] = q]
        BY <1>1, <2>5 DEF Request, EnrolGet
      <3> HIDE DEF q
      <3> QED BY <3>1, <3>2 DEF Quietly, Creating
    <2>6. CASE SetupFind(r)
      BY <2>4, <2>6 DEF SetupFind
    <2> QED BY <2>1, <2>2, <2>3, <2>5, <2>6
            DEF ResetMail, ConfirmDel, SetupStore, EnrolDel, Refused, Conflict, Fail
  <1> QED BY <1>2, <1>3, <1>4, QuietProof DEF Quietly

\* The cleanup, the clock and nothing at all.
LEMMA OtherProof ==
    ASSUME TInv, PInv, UNCHANGED <<mailed, fails, req>>,
           Remember \/ UNCHANGED entered,
           user' \in [Emails -> UserRow \cup {Null}],
           \A e \in Emails : Registered(e) <=> Registered(e)',
           \A e \in Emails : Registered(e) =>
              /\ user'[e].verified = user[e].verified /\ user'[e].google = user[e].google
              /\ user'[e].mfa = user[e].mfa /\ user'[e].tenant = user[e].tenant
    PROVE  PInv'
  <1>1. ASSUME NEW e \in Emails, Registered(e), e \in entered'
        PROVE  e \in entered \/ user[e].verified
    BY <1>1 DEF Remember
  <1>2. entered \subseteq entered'
    BY DEF Remember
  <1>3. ASSUME NEW r \in Requests PROVE ProofOK(req'[r], user', mailed', entered')
    <2>1. ProofOK(req[r], user, mailed, entered) /\ LocalOK(req[r], user, link)
      BY DEF TInv, PInv
    <2> QED BY <1>1, <1>2, <2>1 DEF ProofOK, LocalOK, OnRow, Registered
  <1>4. OneCreator'
    BY DEF PInv, OneCreator
  <1>5. VerifiedHasProof' /\ TenantUnlessFailed'
    BY DEF PInv, VerifiedHasProof, TenantUnlessFailed, BeingCreated
  <1> QED BY <1>3, <1>4, <1>5 DEF PInv

LEMMA ProofKept == TInv /\ PInv /\ [Next]_vars => PInv'
  <1> SUFFICES ASSUME TInv, PInv, [Next]_vars PROVE PInv'
    OBVIOUS
  <1>1. ASSUME NEW r \in Requests, Step(r), Remember PROVE PInv'
    BY <1>1, FindProof, InsertProof, SelectProof, WriteProof, MailProof, GoOnProof DEF Step
  <1>2. CASE CleanTokens /\ Remember
    BY <1>2, CleanWrites, OtherProof DEF CleanTokens
  <1>3. CASE Tick /\ Remember
    BY <1>3, OtherProof DEF Tick, TInv, TypeOK, Registered
  <1>4. CASE UNCHANGED vars
    BY <1>4, OtherProof DEF vars, mfa, TInv, TypeOK, Registered
  <1> QED BY <1>1, <1>2, <1>3, <1>4 DEF Next

LEMMA InitProof == Init => PInv
  BY DEF Init, PInv, ProofOK, OneCreator, VerifiedHasProof, TenantUnlessFailed, Creating,
         Inside, Idle, Registered

----------------------------------------------------------------------------
(* What a step may undo *)

\* The writes of verifyEmail, changeRole, confirmMfa and the link to Google take
\* nothing back; a second save takes back what Google gave.
LEMMA WriteUndoes ==
    ASSUME TInv, PInv, NEW r \in Requests,
           \/ RegisterTenant(r) \/ GoogleTenant(r) \/ VerifyWrite(r) \/ GoogleLink(r)
           \/ RoleWrite(r) \/ EnrolWrite(r)
    PROVE  UndoneBySecondSave
  <1>1. PICK e \in Emails : req[r].e = e
    BY Writes
  <1>2. user[e] \in UserRow
    BY <1>1, Writes
  <1>3. LocalOK(req[r], user, link) /\ ProofOK(req[r], user, mailed, entered)
    BY DEF TInv, PInv
  <1>4. PICK row \in UserRow : user' = [user EXCEPT ![e] = row]
    BY <1>1, Writes
  <1>5. user'[e] = row /\ \A f \in Emails \ {e} : user'[f] = user[f]
    BY <1>4 DEF TInv, TypeOK
  <1>6. ASSUME user[e].verified => row.verified, user[e].google => row.google,
               user[e].mfa # Null => row.mfa # Null
        PROVE  UndoneBySecondSave
    BY <1>5, <1>6 DEF UndoneBySecondSave, Demoted, Disarmed
  <1>7. CASE RegisterTenant(r)
    <2>1. /\ req[r].pc = "reg_tenant"
          /\ user[e].verified \/ user[e].mfa # Null => user[e].google
      BY <1>1, <1>3, <1>7 DEF RegisterTenant, At, ProofOK
    <2> QED BY <1>1, <1>5, <2>1 DEF UndoneBySecondSave, Demoted, Disarmed, At
  <1>8. CASE GoogleTenant(r)
    <2>1. /\ req[r].pc = "google_tenant" /\ user[e].google
          /\ req[r].row \in UserRow /\ req[r].row.google /\ req[r].row.verified
      BY <1>1, <1>3, <1>8 DEF GoogleTenant, At, LocalOK, ProofOK
    <2>2. user'[e] = Resaved(req[r]) /\ req[r].seen \in UserRow
      BY <1>1, <1>3, <1>8 DEF GoogleTenant, TInv, TypeOK, At, LocalOK
    <2>4. /\ Kept(req[r].row.verified, req[r].seen.verified, user[e].verified, row.verified)
          /\ Kept(req[r].row.google, req[r].seen.google, user[e].google, row.google)
      BY <1>1, <1>2, <1>5, <2>1, <2>2, ResavedOK
    <2>3. row.google /\ (user[e].verified => row.verified)
      BY <1>2, <1>4, <2>1, <2>4 DEF Kept, UserRow
    <2> QED BY <1>1, <1>5, <2>1, <2>3 DEF UndoneBySecondSave, Demoted, Disarmed
  <1>9. CASE VerifyWrite(r)
    <2>1. user'[e] = [user[e] EXCEPT !.verified = TRUE, !.vexp = Null, !.role = "owner"]
      BY <1>1, <1>9 DEF VerifyWrite, TInv, TypeOK
    <2>2. row.verified /\ row.google = user[e].google /\ row.mfa = user[e].mfa
      BY <1>2, <1>5, <2>1 DEF UserRow
    <2> QED BY <1>6, <2>2
  <1>10. CASE GoogleLink(r)
    <2>1. user'[e] = LinkedRow(user[e])
      BY <1>1, <1>10 DEF GoogleLink, TInv, TypeOK
    <2>2. row.verified /\ row.google /\ row.mfa = user[e].mfa
      BY <1>2, <1>5, <2>1 DEF LinkedRow, UserRow
    <2> QED BY <1>6, <2>2
  <1>11. CASE RoleWrite(r)
    <2>1. user'[e] = [user[e] EXCEPT !.role = req[r].role]
      BY <1>1, <1>11 DEF RoleWrite, TInv, TypeOK
    <2>2. /\ row.verified = user[e].verified /\ row.google = user[e].google
          /\ row.mfa = user[e].mfa
      BY <1>2, <1>5, <2>1 DEF UserRow
    <2> QED BY <1>6, <2>2
  <1>12. CASE EnrolWrite(r)
    <2>1. req[r].secret \in Secrets
      BY <1>3, <1>12 DEF EnrolWrite, At, LocalOK
    <2>2. user'[e] = [user[e] EXCEPT !.mfa = req[r].secret]
      BY <1>1, <1>12 DEF EnrolWrite, TInv, TypeOK
    <2>3. /\ row.verified = user[e].verified /\ row.google = user[e].google
          /\ row.mfa # Null
      BY <1>2, <1>5, <2>1, <2>2, AccountsAssumption DEF UserRow
    <2> QED BY <1>6, <2>3
  <1> QED BY <1>7, <1>8, <1>9, <1>10, <1>11, <1>12

LEMMA StepUndoes == TInv /\ PInv /\ [Next]_vars => [UndoneBySecondSave]_vars
  <1> SUFFICES ASSUME TInv, PInv, Next PROVE UndoneBySecondSave
    OBVIOUS
  <1>1. UNCHANGED user => UndoneBySecondSave
    BY DEF UndoneBySecondSave, Demoted, Disarmed
  <1>2. ASSUME NEW r \in Requests, RegisterSave(r) \/ GoogleSave(r)
        PROVE  UndoneBySecondSave
    <2>1. \A e \in Emails : Registered(e) => user'[e] = user[e]
      BY <1>2 DEF RegisterSave, GoogleSave, Insert, TInv, TypeOK
    <2> QED BY <2>1 DEF UndoneBySecondSave, Demoted, Disarmed
  <1>3. CASE CleanTokens
    BY <1>3, CleanWrites DEF UndoneBySecondSave, Demoted, Disarmed
  <1>4. ASSUME NEW r \in Requests, Step(r) PROVE UndoneBySecondSave
    BY <1>1, <1>2, <1>4, WriteUndoes
    DEF Step, RegisterFind, VerifyFind, GoogleFind, ResetFind, Admit, RoleFind,
        ConfirmGet, RegisterSelect, GoogleSelect, Select, RegisterMail, ResetStore, ResetMail,
        ConfirmWrite, ConfirmDel, SetupFind, SetupStore, EnrolGet, EnrolDel, Refused, Conflict,
        Fail
  <1> QED BY <1>1, <1>3, <1>4 DEF Next, Tick

----------------------------------------------------------------------------
(* How often a reset link and an enrolment may be used *)

Allowed == Cardinality(Requests) + fails

\* A link that is still stored has been used once by each request that is to delete
\* it, and once by each that failed before it could.
ToDelete(l) == {r \in Requests : At(r, "confirm_del") /\ req[r].link = l}
Open(l)     == link[l] = Null \/ link[l].stored

LinkLeft(l) ==
    /\ uses[l] + Cardinality(Holding(l)) <= Allowed
    /\ Open(l) => uses[l] <= fails + Cardinality(ToDelete(l))

\* The secrets an account may still come to wear: those that requests hold, and the
\* one in Redis.
Enrolling == {"mfa_store", "mfa_write"}
Under(e)  == {r \in Requests : req[r].pc \in Enrolling /\ req[r].e = e}
Held(e)   == {req[r].secret : r \in Under(e)}
Offer(e)  == IF pending[e] = Null THEN {} ELSE {pending[e].secret}
Near(e)   == worn[e] \cup Held(e)
Reach(e)  == Near(e) \cup Offer(e)
Armed(e)  == Registered(e) /\ user[e].mfa # Null
Busy(e)   == \A r \in Requests : req[r].pc \in Enrolling \cup {"mfa_del"} /\ req[r].e = e

\* They are no more than allowed, or else nobody is free to fetch the one in Redis
\* before it is replaced or deleted.
SecretsLeft(e) ==
    /\ ~Armed(e) => worn[e] = {}
    /\ Armed(e) => /\ user[e].mfa \in worn[e]
                   /\ \/ Cardinality(Reach(e)) <= Allowed
                      \/ Busy(e) /\ Cardinality(Near(e)) <= Allowed

\* What a second save is to write has no second factor in it.
BlankRows == \A r \in Requests : req[r].pc \in Unsaved => req[r].row.mfa = Null

CInv ==
    /\ BlankRows
    /\ \A l \in Links : LinkLeft(l)
    /\ \A e \in Emails : SecretsLeft(e)

LEMMA FewRequests ==
    ASSUME NEW S \in SUBSET Requests
    PROVE  /\ IsFiniteSet(S) /\ Cardinality(S) \in Nat /\ Cardinality(Requests) \in Nat
           /\ Cardinality(S) <= Cardinality(Requests)
           /\ \A r \in Requests : r \notin S => Cardinality(S \cup {r}) = Cardinality(S) + 1
           /\ \A r \in S : Cardinality(S \ {r}) = Cardinality(S) - 1
  <1>1. /\ IsFiniteSet(Requests) /\ IsFiniteSet(S) /\ Cardinality(S) <= Cardinality(Requests)
    BY AccountsAssumption, FS_Subset
  <1>2. Cardinality(S) \in Nat /\ Cardinality(Requests) \in Nat
    BY <1>1, FS_CardinalityType
  <1> QED BY <1>1, <1>2, FS_AddElement, FS_RemoveElement

LEMMA FewSecrets ==
    ASSUME NEW S \in SUBSET Secrets, NEW T \in SUBSET S
    PROVE  /\ IsFiniteSet(S) /\ Cardinality(S) \in Nat /\ Cardinality(T) \in Nat
           /\ Cardinality(T) <= Cardinality(S)
           /\ \A x : /\ Cardinality(S \cup {x}) \in Nat
                     /\ Cardinality(S \cup {x}) <= Cardinality(S) + 1
  <1>1. IsFiniteSet(S)
    BY AccountsAssumption, FS_Subset
  <1>2. IsFiniteSet(T) /\ Cardinality(T) <= Cardinality(S)
    BY <1>1, FS_Subset
  <1>3. Cardinality(S) \in Nat /\ Cardinality(T) \in Nat
    BY <1>1, <1>2, FS_CardinalityType
  <1>4. ASSUME NEW x
        PROVE  Cardinality(S \cup {x}) \in Nat /\ Cardinality(S \cup {x}) <= Cardinality(S) + 1
    <2>1. Cardinality(S \cup {x}) = IF x \in S THEN Cardinality(S) ELSE Cardinality(S) + 1
      BY <1>1, FS_AddElement
    <2> QED BY <1>3, <2>1
  <1> QED BY <1>1, <1>2, <1>3, <1>4

LEMMA AllowedOK ==
    ASSUME TInv
    PROVE  Allowed \in Nat /\ fails \in Nat /\ \A l \in Links : uses[l] \in Nat
  BY FewRequests, AccountsAssumption DEF Allowed, TInv, TypeOK

\* No more secrets than requests that hold one.
HeldByFew == \A e \in Emails : /\ Cardinality(Held(e)) <= Cardinality(Under(e))
                               /\ Held(e) \subseteq Near(e) /\ Near(e) \subseteq Reach(e)
                               /\ Reach(e) \subseteq Secrets

LEMMA CountHeld == TInv => HeldByFew
  <1> SUFFICES ASSUME TInv, NEW e \in Emails
               PROVE  /\ Cardinality(Held(e)) <= Cardinality(Under(e))
                      /\ Held(e) \subseteq Near(e) /\ Near(e) \subseteq Reach(e)
                      /\ Reach(e) \subseteq Secrets
    BY DEF HeldByFew
  <1> DEFINE f == [r \in Under(e) |-> req[r].secret]
  <1>1. f \in Surjection(Under(e), Held(e))
    BY DEF Surjection, Held
  <1>2. IsFiniteSet(Under(e))
    BY FewRequests DEF Under
  <1>3. Held(e) \subseteq Secrets
    BY DEF Held, Under, Enrolling, TInv, LocalOK
  <1>4. Offer(e) \subseteq Secrets /\ worn[e] \subseteq Secrets
    BY DEF Offer, TInv, TypeOK, Pending
  <1> HIDE DEF f
  <1>5. Cardinality(Held(e)) <= Cardinality(Under(e))
    BY <1>1, <1>2, FS_Surjection
  <1> QED BY <1>3, <1>4, <1>5 DEF Near, Reach

LEMMA CountHeldNext == TInv' => HeldByFew'
  BY CountHeld, PTL

----------------------------------------------------------------------------
(* The links *)

\* At most N requests hold or delete a link, so a stored one is within its bound.
OpenBounded == \A l \in Links : uses[l] <= fails + Cardinality(ToDelete(l))
                                   => uses[l] + Cardinality(Holding(l)) <= Allowed

LEMMA OpenBound == TInv => OpenBounded
  <1> SUFFICES ASSUME TInv, NEW l \in Links, uses[l] <= fails + Cardinality(ToDelete(l))
               PROVE  uses[l] + Cardinality(Holding(l)) <= Allowed
    BY DEF OpenBounded
  <1> DEFINE H == Holding(l)
             D == ToDelete(l)
  <1>1. H \in SUBSET Requests /\ D \in SUBSET Requests /\ H \cap D = {}
    BY DEF Holding, ToDelete, At
  <1>2. uses[l] <= fails + Cardinality(D) /\ uses[l] \in Nat /\ fails \in Nat
    BY AllowedOK
  <1> HIDE DEF H, D
  <1>3. IsFiniteSet(H) /\ IsFiniteSet(D) /\ Cardinality(H) \in Nat /\ Cardinality(D) \in Nat
    BY <1>1, FewRequests
  <1>4. Cardinality(H \cup D) = Cardinality(H) + Cardinality(D)
    <2>1. Cardinality(H \cap D) = 0
      BY <1>1, FS_EmptySet
    <2>2. Cardinality(H \cup D) = Cardinality(H) + Cardinality(D) - Cardinality(H \cap D)
      BY <1>3, FS_Union
    <2> QED BY <1>3, <2>1, <2>2
  <1>5. H \cup D \in SUBSET Requests
    BY <1>1
  <1>6. Cardinality(H) + Cardinality(D) <= Cardinality(Requests) /\ Cardinality(Requests) \in Nat
    BY <1>4, <1>5, FewRequests
  <1>7. uses[l] + Cardinality(H) <= Cardinality(Requests) + fails
    BY <1>2, <1>3, <1>6
  <1> QED BY <1>7 DEF Allowed, H

LEMMA OpenBoundNext == TInv' => OpenBounded'
  BY OpenBound, PTL

\* A step that neither opens the link nor adds to what counts for it.
LEMMA LinkCount ==
    ASSUME TInv, TInv', NEW l \in Links, LinkLeft(l), NEW c \in 0 .. 1, NEW d \in 0 .. 1,
           uses'[l] = uses[l] + c, fails' = fails + d, Open(l)' => Open(l),
           Open(l)' => Cardinality(ToDelete(l)) + c <= Cardinality(ToDelete(l)') + d,
           ~Open(l)' => Cardinality(Holding(l)') + c <= Cardinality(Holding(l)) + d
    PROVE  LinkLeft(l)'
  <1>1. /\ Cardinality(ToDelete(l)) \in Nat /\ Cardinality(ToDelete(l)') \in Nat
        /\ Cardinality(Holding(l)) \in Nat /\ Cardinality(Holding(l)') \in Nat
        /\ Cardinality(Requests) \in Nat
    <2>1. /\ ToDelete(l) \in SUBSET Requests /\ ToDelete(l)' \in SUBSET Requests
          /\ Holding(l) \in SUBSET Requests /\ Holding(l)' \in SUBSET Requests
      BY DEF ToDelete, Holding
    <2> QED BY <2>1, FewRequests
  <1>2. uses[l] \in Nat /\ fails \in Nat
    BY AllowedOK
  <1>3. CASE Open(l)'
    <2>1. uses'[l] <= fails' + Cardinality(ToDelete(l)')
      BY <1>1, <1>2, <1>3 DEF LinkLeft
    <2>2. (uses[l] + Cardinality(Holding(l)))' <= Allowed'
      BY <2>1, OpenBoundNext DEF OpenBounded
    <2> QED BY <2>1, <2>2 DEF LinkLeft
  <1>4. CASE ~Open(l)'
    BY <1>1, <1>2, <1>4 DEF LinkLeft, Allowed
  <1> QED BY <1>3, <1>4

\* Requests that are not about the link before or after the step.
LEMMA QuietLink ==
    ASSUME TInv, TInv', NEW l \in Links, LinkLeft(l), NEW r \in Requests, NEW q,
           req' = [req EXCEPT ![r] = q], uses'[l] = uses[l], fails' = fails,
           Open(l)' => Open(l),
           req[r].pc \in {"confirm_write", "confirm_del"} => req[r].link # l,
           q.pc \in {"confirm_write", "confirm_del"} => q.link # l
    PROVE  LinkLeft(l)'
  <1>1. req'[r] = q /\ \A s \in Requests \ {r} : req'[s] = req[s]
    BY DEF TInv, TypeOK
  <1>2. Holding(l)' = Holding(l) /\ ToDelete(l)' = ToDelete(l)
    BY <1>1 DEF Holding, ToDelete, At
  <1>3. /\ Cardinality(ToDelete(l)) \in Nat /\ Cardinality(Holding(l)) \in Nat
        /\ uses[l] \in Nat /\ fails \in Nat
    BY FewRequests, AllowedOK DEF ToDelete, Holding
  <1>4. uses'[l] = uses[l] + 0 /\ fails' = fails + 0
    BY <1>3
  <1> QED BY <1>2, <1>3, <1>4, LinkCount

\* Nobody is let in through a link that is not stored.
LEMMA GetLinks ==
    ASSUME TInv, TInv', CInv, NEW r \in Requests, NEW k \in Links, ConfirmGet(r, k),
           NEW l \in Links
    PROVE  LinkLeft(l)'
  <1> DEFINE q == [Idle EXCEPT !.pc = "confirm_write", !.e = link[k].e, !.link = k]
  <1>1. /\ req[r].pc = "idle" /\ UNCHANGED <<uses, fails, link>> /\ link[k].stored
        /\ req' = [req EXCEPT ![r] = q] /\ q.pc = "confirm_write" /\ q.link = k
    BY DEF ConfirmGet, Free, Idle
  <1> HIDE DEF q
  <1>2. LinkLeft(l) /\ (Open(l)' <=> Open(l))
    BY <1>1 DEF CInv, Open
  <1>3. CASE l # k
    BY <1>1, <1>2, <1>3, QuietLink
  <1>4. CASE l = k
    <2>1. req'[r] = q /\ \A s \in Requests \ {r} : req'[s] = req[s]
      BY <1>1 DEF TInv, TypeOK
    <2>2. ToDelete(l)' = ToDelete(l) /\ Open(l)
      BY <1>1, <1>4, <2>1 DEF ToDelete, At, Open
    <2>3. Cardinality(ToDelete(l)) \in Nat /\ uses[l] \in Nat /\ fails \in Nat
      BY FewRequests, AllowedOK DEF ToDelete
    <2>4. uses'[l] = uses[l] + 0 /\ fails' = fails + 0
      BY <1>1, <2>3
    <2> QED BY <1>2, <2>2, <2>3, <2>4, LinkCount
  <1> QED BY <1>3, <1>4

LEMMA UseLinks ==
    ASSUME TInv, TInv', CInv, NEW r \in Requests, ConfirmWrite(r), NEW l \in Links
    PROVE  LinkLeft(l)'
  <1> DEFINE k == req[r].link
             q == [req[r] EXCEPT !.pc = "confirm_del"]
  <1>1. /\ req[r].pc = "confirm_write" /\ k \in Links /\ req[r] \in Request
        /\ uses' = [uses EXCEPT ![k] = @ + 1] /\ UNCHANGED <<fails, link>>
        /\ req' = [req EXCEPT ![r] = q]
    BY DEF ConfirmWrite, Goto, At, TInv, TypeOK, LocalOK
  <1>2. q.pc = "confirm_del" /\ q.link = k
    BY <1>1 DEF Request
  <1> HIDE DEF q
  <1>3. LinkLeft(l) /\ (Open(l)' <=> Open(l))
    BY <1>1 DEF CInv, Open
  <1>4. CASE l # k
    <2>1. uses'[l] = uses[l]
      BY <1>1, <1>4 DEF TInv, TypeOK
    <2> QED BY <1>1, <1>2, <1>3, <1>4, <2>1, QuietLink
  <1>5. CASE l = k
    <2>1. req'[r] = q /\ \A s \in Requests \ {r} : req'[s] = req[s]
      BY <1>1 DEF TInv, TypeOK
    <2>2. /\ ToDelete(l)' = ToDelete(l) \cup {r} /\ r \notin ToDelete(l)
          /\ Holding(l)' = Holding(l) \ {r} /\ r \in Holding(l)
      BY <1>1, <1>2, <1>5, <2>1 DEF ToDelete, Holding, At
    <2>3. /\ Cardinality(ToDelete(l)) \in Nat /\ Cardinality(Holding(l)) \in Nat
          /\ Cardinality(ToDelete(l) \cup {r}) = Cardinality(ToDelete(l)) + 1
          /\ Cardinality(Holding(l) \ {r}) = Cardinality(Holding(l)) - 1
      <3>1. ToDelete(l) \in SUBSET Requests /\ Holding(l) \in SUBSET Requests
        BY DEF ToDelete, Holding
      <3> QED BY <2>2, <3>1, FewRequests
    <2>4. uses'[l] = uses[l] + 1 /\ fails' = fails + 0
      BY <1>1, <1>5, AllowedOK DEF TInv, TypeOK
    <2>5. /\ Cardinality(ToDelete(l)) + 1 <= Cardinality(ToDelete(l)') + 0
          /\ Cardinality(Holding(l)') + 1 <= Cardinality(Holding(l)) + 0
      BY <2>2, <2>3
    <2> QED BY <1>3, <2>4, <2>5, LinkCount
  <1> QED BY <1>4, <1>5

\* The deletion closes the link for good.
LEMMA DeleteLinks ==
    ASSUME TInv, TInv', CInv, NEW r \in Requests, ConfirmDel(r), NEW l \in Links
    PROVE  LinkLeft(l)'
  <1> DEFINE k == req[r].link
  <1>1. /\ req[r].pc = "confirm_del" /\ k \in Links /\ link[k] # Null
        /\ link' = [link EXCEPT ![k].stored = FALSE] /\ UNCHANGED <<fails, uses>>
        /\ req' = [req EXCEPT ![r] = Idle] /\ Idle.pc = "idle"
    BY DEF ConfirmDel, Consumed, Finish, At, TInv, TypeOK, LocalOK, Idle
  <1>2. LinkLeft(l)
    BY DEF CInv
  <1>3. CASE l # k
    <2>1. link'[l] = link[l]
      BY <1>1, <1>3 DEF TInv, TypeOK
    <2> QED BY <1>1, <1>2, <1>3, <2>1, QuietLink DEF Open
  <1>4. CASE l = k
    <2>1. req'[r] = Idle /\ \A s \in Requests \ {r} : req'[s] = req[s]
      BY <1>1 DEF TInv, TypeOK
    <2>2. Holding(l)' = Holding(l)
      BY <1>1, <2>1 DEF Holding, At
    <2>3. ~Open(l)'
      <3>1. link[k] \in Link
        BY <1>1 DEF TInv, TypeOK
      <3>2. link'[k] = [link[k] EXCEPT !.stored = FALSE]
        BY <1>1 DEF TInv, TypeOK
      <3>3. link'[k].stored = FALSE /\ link'[k] \in Link
        BY <3>1, <3>2 DEF Link
      <3> QED BY <1>4, <3>3, AccountsAssumption DEF Open
    <2>4. Cardinality(Holding(l)) \in Nat /\ uses[l] \in Nat /\ fails \in Nat
      BY FewRequests, AllowedOK DEF Holding
    <2>5. uses'[l] = uses[l] + 0 /\ fails' = fails + 0
      BY <1>1, <2>4
    <2> QED BY <1>2, <2>2, <2>3, <2>4, <2>5, LinkCount
  <1> QED BY <1>3, <1>4

LEMMA FailLinks ==
    ASSUME TInv, TInv', CInv, NEW r \in Requests, Fail(r), NEW l \in Links
    PROVE  LinkLeft(l)'
  <1>1. /\ UNCHANGED <<uses, link>> /\ fails' = fails + 1
        /\ req' = [req EXCEPT ![r] = Idle] /\ Idle.pc = "idle"
    BY DEF Fail, Finish, Idle
  <1>2. LinkLeft(l) /\ (Open(l)' <=> Open(l))
    BY <1>1 DEF CInv, Open
  <1>3. req'[r] = Idle /\ \A s \in Requests \ {r} : req'[s] = req[s]
    BY <1>1 DEF TInv, TypeOK
  <1>4. Holding(l)' \subseteq Holding(l) /\ ToDelete(l)' = ToDelete(l) \ {r}
    BY <1>1, <1>3 DEF Holding, ToDelete, At
  <1>5. ToDelete(l) \in SUBSET Requests /\ Holding(l) \in SUBSET Requests
    BY DEF ToDelete, Holding
  <1>6. /\ Cardinality(ToDelete(l)) \in Nat /\ Cardinality(Holding(l)) \in Nat
        /\ Cardinality(ToDelete(l) \ {r}) \in Nat /\ Cardinality(Holding(l)') \in Nat
        /\ Cardinality(ToDelete(l)) <= Cardinality(ToDelete(l) \ {r}) + 1
    <2>1. /\ Holding(l)' \in SUBSET Requests /\ ToDelete(l) \ {r} \in SUBSET Requests
      BY <1>4, <1>5
    <2>2. /\ Cardinality(ToDelete(l)) \in Nat /\ Cardinality(Holding(l)) \in Nat
          /\ Cardinality(ToDelete(l) \ {r}) \in Nat /\ Cardinality(Holding(l)') \in Nat
      BY <1>5, <2>1, FewRequests
    <2>3. CASE r \in ToDelete(l)
      <3>1. Cardinality(ToDelete(l) \ {r}) = Cardinality(ToDelete(l)) - 1
        BY <1>5, <2>3, FewRequests
      <3> QED BY <2>2, <3>1
    <2>4. CASE r \notin ToDelete(l)
      <3>1. ToDelete(l) \ {r} = ToDelete(l)
        BY <2>4
      <3> QED BY <2>2, <3>1
    <2> QED BY <2>2, <2>3, <2>4
  <1>7. Cardinality(Holding(l)') <= Cardinality(Holding(l))
    <2>1. IsFiniteSet(Holding(l))
      BY <1>5, FewRequests
    <2> QED BY <1>4, <2>1, FS_Subset
  <1>8. uses'[l] = uses[l] + 0 /\ fails' = fails + 1
    BY <1>1, AllowedOK
  <1> QED BY <1>2, <1>4, <1>6, <1>7, <1>8, LinkCount

----------------------------------------------------------------------------
(* The secrets *)

\* An account that is not armed after the step.
LEMMA Unarmed ==
    ASSUME Remember, NEW e \in Emails, ~Armed(e)'
    PROVE  SecretsLeft(e)'
  BY DEF Remember, SecretsLeft, Armed

\* A step that brings no secret within reach.
LEMMA KeepSecrets ==
    ASSUME TInv, TInv', Remember, NEW e \in Emails, SecretsLeft(e), Armed(e),
           Armed(e)' => user'[e].mfa \in Near(e),
           Held(e)' \subseteq Reach(e), Offer(e)' \subseteq Reach(e),
           NEW d \in 0 .. 1, fails' = fails + d,
           Busy(e) => \/ d = 1
                      \/ Busy(e)' /\ Held(e)' \subseteq Near(e)
                      \/ Held(e)' \subseteq Near(e) /\ Offer(e)' \subseteq Near(e)
    PROVE  SecretsLeft(e)'
  <1> SUFFICES ASSUME Armed(e)' PROVE SecretsLeft(e)'
    BY Unarmed
  <1>1. worn'[e] = worn[e] \cup {user'[e].mfa}
    BY DEF Remember, Armed
  <1>2. worn'[e] \subseteq Near(e) /\ user'[e].mfa \in worn'[e]
    BY <1>1 DEF Near
  <1>3. /\ Near(e) \subseteq Reach(e) /\ Reach(e) \subseteq Secrets
        /\ Near(e)' \subseteq Reach(e)' /\ Reach(e)' \subseteq Secrets
    BY CountHeld, CountHeldNext DEF HeldByFew
  <1>4. /\ Reach(e)' \subseteq Reach(e)
        /\ Held(e)' \subseteq Near(e) => Near(e)' \subseteq Near(e)
        /\ Held(e)' \subseteq Near(e) /\ Offer(e)' \subseteq Near(e) => Reach(e)' \subseteq Near(e)
    BY <1>2, <1>3 DEF Near, Reach
  <1> DEFINE N == Near(e)
             R == Reach(e)
             M == Near(e)'
             Q == Reach(e)'
  <1>5. /\ Cardinality(N) \in Nat /\ Cardinality(R) \in Nat
        /\ Cardinality(M) \in Nat /\ Cardinality(Q) \in Nat
        /\ Cardinality(Q) <= Cardinality(R)
        /\ M \subseteq N => Cardinality(M) <= Cardinality(N)
        /\ Q \subseteq N => Cardinality(Q) <= Cardinality(N)
    <2> HIDE DEF N, R, M, Q
    <2>1. /\ N \in SUBSET Secrets /\ R \in SUBSET Secrets /\ M \in SUBSET Secrets
          /\ Q \in SUBSET Secrets /\ Q \in SUBSET R
      BY <1>3, <1>4 DEF N, R, M, Q
    <2> QED BY <2>1, FewSecrets
  <1>6. Allowed \in Nat /\ Allowed' = Allowed + d /\ fails \in Nat
    BY AllowedOK, FewRequests DEF Allowed
  <1>7. Cardinality(R) <= Cardinality(N) + 1
    <2>1. CASE pending[e] = Null
      <3>1. R = N
        BY <2>1 DEF Reach, Near, Offer
      <3> QED BY <1>5, <3>1
    <2>2. CASE pending[e] # Null
      <3>1. R = N \cup {pending[e].secret}
        BY <2>2 DEF Reach, Near, Offer
      <3>2. N \in SUBSET Secrets
        BY <1>3
      <3> HIDE DEF N, R
      <3> QED BY <3>1, <3>2, FewSecrets
    <2> QED BY <2>1, <2>2
  <1>8. \/ Cardinality(Q) <= Allowed'
        \/ Busy(e)' /\ Cardinality(M) <= Allowed'
    <2>1. CASE Cardinality(R) <= Allowed
      BY <1>5, <1>6, <2>1
    <2>2. CASE Busy(e) /\ Cardinality(N) <= Allowed
      <3>1. CASE d = 1
        BY <1>5, <1>6, <1>7, <2>2, <3>1
      <3>2. CASE Busy(e)' /\ Held(e)' \subseteq Near(e)
        BY <1>4, <1>5, <1>6, <2>2, <3>2
      <3>3. CASE Held(e)' \subseteq Near(e) /\ Offer(e)' \subseteq Near(e)
        BY <1>4, <1>5, <1>6, <2>2, <3>3
      <3> QED BY <2>2, <3>1, <3>2, <3>3
    <2> QED BY <2>1, <2>2 DEF SecretsLeft
  <1> QED BY <1>2, <1>8 DEF SecretsLeft

\* A step of a request that is not after the second factor of e, before or after.
LEMMA QuietSecrets ==
    ASSUME TInv, TInv', Remember, NEW e \in Emails, SecretsLeft(e), NEW r \in Requests, NEW q,
           req' = [req EXCEPT ![r] = q], pending'[e] = pending[e], fails' = fails,
           req[r].pc \in Enrolling \cup {"mfa_del"} => req[r].e # e,
           q.pc \in Enrolling => q.e # e,
           Armed(e)' => Armed(e) /\ user'[e].mfa = user[e].mfa
    PROVE  SecretsLeft(e)'
  <1> SUFFICES ASSUME Armed(e)' PROVE SecretsLeft(e)'
    BY Unarmed
  <1>1. req'[r] = q /\ \A s \in Requests \ {r} : req'[s] = req[s]
    BY DEF TInv, TypeOK
  <1>2. Held(e)' = Held(e)
    <2>1. Under(e)' = Under(e) /\ r \notin Under(e)
      BY <1>1 DEF Under
    <2> QED BY <1>1, <2>1 DEF Held, Under
  <1>3. Offer(e)' = Offer(e) /\ ~Busy(e)
    BY DEF Offer, Busy
  <1>4. user'[e].mfa \in Near(e)
    BY DEF SecretsLeft, Near
  <1>5. fails' = fails + 0
    BY AllowedOK
  <1> QED BY <1>2, <1>3, <1>4, <1>5, KeepSecrets DEF Reach, Near

\* The second factor comes on.
LEMMA ArmSecrets ==
    ASSUME TInv, TInv', Remember, NEW e \in Emails, SecretsLeft(e), ~Armed(e), Armed(e)',
           NEW r \in Requests, req'[r].pc = "mfa_del", req'[r].e = e, fails' = fails
    PROVE  SecretsLeft(e)'
  <1> DEFINE T == Under(e)'
             N == Cardinality(Requests)
             H == Held(e)'
             x == user'[e].mfa
  <1>1. worn'[e] = {x}
    BY DEF Remember, Armed, SecretsLeft
  <1>2. r \in Requests \ T /\ T \in SUBSET Requests
    BY DEF Under, Enrolling
  <1>3. /\ Cardinality(H) <= Cardinality(T) /\ H \in SUBSET Secrets
        /\ Near(e)' \in SUBSET Secrets /\ Near(e)' = H \cup {x}
    BY <1>1, CountHeldNext DEF HeldByFew, Near
  <1>4. Cardinality(H) \in Nat /\ Cardinality(Near(e)') <= Cardinality(H) + 1
        /\ Cardinality(Near(e)') \in Nat
    <2> HIDE DEF H, x
    <2> QED BY <1>3, FewSecrets
  <1>5. N \in Nat /\ Cardinality(T) \in Nat /\ Cardinality(T \cup {r}) = Cardinality(T) + 1
        /\ T \cup {r} \in SUBSET Requests
    <2> HIDE DEF T
    <2> QED BY <1>2, FewRequests
  <1>6. Cardinality(T \cup {r}) <= N
    <2> HIDE DEF T
    <2> QED BY <1>5, FewRequests
  <1>7. Allowed' = N + fails /\ fails \in Nat
    BY AllowedOK DEF Allowed
  <1>8. CASE Busy(e)'
    <2>1. Cardinality(Near(e)') <= Allowed'
      BY <1>3, <1>4, <1>5, <1>6, <1>7
    <2> QED BY <1>1, <1>8, <2>1 DEF SecretsLeft
  <1>9. CASE ~Busy(e)'
    <2>1. PICK t \in Requests : ~(req'[t].pc \in Enrolling \cup {"mfa_del"} /\ req'[t].e = e)
      BY <1>9 DEF Busy
    <2>2. t \notin T \cup {r}
      BY <2>1 DEF Under, Enrolling
    <2>3. Cardinality(T) + 2 <= N
      <3> DEFINE U == T \cup {r}
      <3> HIDE DEF T, U
      <3>1. U \in SUBSET Requests /\ Cardinality(U) = Cardinality(T) + 1
        BY <1>5 DEF U
      <3>2. Cardinality(U \cup {t}) = Cardinality(U) + 1 /\ U \cup {t} \in SUBSET Requests
        BY <2>2, <3>1, FewRequests DEF U
      <3>3. Cardinality(U \cup {t}) <= N
        BY <3>2, FewRequests
      <3> QED BY <1>5, <3>1, <3>2, <3>3
    <2>4. Cardinality(Reach(e)') <= Cardinality(Near(e)') + 1 /\ Cardinality(Reach(e)') \in Nat
      <3> DEFINE M == Near(e)'
      <3>1. M \in SUBSET Secrets /\ (Reach(e)' = M \/ Reach(e)' = M \cup {pending'[e].secret})
        BY <1>3 DEF Reach, Offer
      <3> HIDE DEF M
      <3>2. CASE Reach(e)' = M
        BY <3>1, <3>2, FewSecrets DEF M
      <3>3. CASE Reach(e)' = M \cup {pending'[e].secret}
        BY <3>1, <3>3, FewSecrets DEF M
      <3> QED BY <3>1, <3>2, <3>3
    <2>5. Cardinality(Reach(e)') <= Allowed'
      BY <1>3, <1>4, <1>5, <1>7, <2>3, <2>4
    <2> QED BY <1>1, <2>5 DEF SecretsLeft
  <1> QED BY <1>8, <1>9

----------------------------------------------------------------------------
(* The steps that are neither about a link's use nor about a second factor *)

Special == {"confirm_write", "confirm_del", "mfa_store", "mfa_write", "mfa_del"}

\* The request goes on as q; no link opens and no second factor changes.
Plain(r, q) ==
    /\ req' = [req EXCEPT ![r] = q]
    /\ UNCHANGED <<uses, pending, fails>>
    /\ req[r].pc \notin Special /\ q.pc \notin Special
    /\ q.pc \in Unsaved => q.row.mfa = Null
    /\ \A l \in Links : Open(l)' => Open(l)
    /\ \A e \in Emails : Armed(e)' => Armed(e) /\ user'[e].mfa = user[e].mfa

LEMMA BlankKept ==
    ASSUME TInv, BlankRows, NEW r \in Requests, NEW q, req' = [req EXCEPT ![r] = q],
           q.pc \in Unsaved => q.row.mfa = Null
    PROVE  BlankRows'
  <1>1. req'[r] = q /\ \A s \in Requests \ {r} : req'[s] = req[s]
    BY DEF TInv, TypeOK
  <1> QED BY <1>1 DEF BlankRows

LEMMA PlainKept ==
    ASSUME TInv, TInv', CInv, Remember, NEW r \in Requests, NEW q, Plain(r, q)
    PROVE  CInv'
  <1>1. BlankRows'
    BY BlankKept DEF CInv, Plain
  <1>2. ASSUME NEW l \in Links PROVE LinkLeft(l)'
    BY QuietLink DEF CInv, Plain, Special
  <1>3. ASSUME NEW e \in Emails PROVE SecretsLeft(e)'
    BY QuietSecrets DEF CInv, Plain, Special, Enrolling
  <1> QED BY <1>1, <1>2, <1>3 DEF CInv

\* The steps that read and go on.
LEMMA FindPlain ==
    ASSUME TInv, NEW r \in Requests, NEW e \in Emails,
           \/ RegisterFind(r, e) \/ VerifyFind(r, e) \/ GoogleFind(r, e) \/ ResetFind(r, e)
           \/ Admit(r, e) \/ \E role \in Roles : RoleFind(r, e, role)
    PROVE  \E q : Plain(r, q)
  <1>1. req[r].pc = "idle" /\ UNCHANGED <<user, link, uses, pending, fails>>
    BY DEF RegisterFind, VerifyFind, GoogleFind, ResetFind, Admit, RoleFind, Free, mfa
  <1>2. /\ \A l \in Links : Open(l)' => Open(l)
        /\ \A f \in Emails : Armed(f)' => Armed(f) /\ user'[f].mfa = user[f].mfa
    BY <1>1 DEF Open, Armed, Registered
  <1>3. ASSUME NEW pc \in {"reg_save", "verify_write", "google_save", "google_link", "reset_store",
                          "signed_in"},
               Start(r, pc, e)
        PROVE  \E q : Plain(r, q)
    <2> WITNESS [Idle EXCEPT !.pc = pc, !.e = e]
    <2> QED BY <1>1, <1>2, <1>3 DEF Start, Idle, Plain, Special
  <1>4. ASSUME NEW role \in Roles, RoleFind(r, e, role) PROVE \E q : Plain(r, q)
    <2> WITNESS [Idle EXCEPT !.pc = "role_write", !.e = e, !.role = role]
    <2> QED BY <1>1, <1>2, <1>4 DEF RoleFind, Idle, Plain, Special
  <1> QED BY <1>3, <1>4 DEF RegisterFind, VerifyFind, GoogleFind, ResetFind, Admit

\* The row that is inserted has no second factor, and one that is saved again has none
\* or the one it had.
LEMMA SavePlain ==
    ASSUME TInv, CInv, NEW r \in Requests,
           RegisterSave(r) \/ GoogleSave(r) \/ RegisterTenant(r) \/ GoogleTenant(r)
    PROVE  \E q : Plain(r, q)
  <1> DEFINE e == req[r].e
  <1>1. /\ req[r] \in Request /\ LocalOK(req[r], user, link) /\ req[r].pc \notin Special
        /\ req[r].pc \in {"reg_save", "google_save", "reg_tenant", "google_tenant"}
    BY DEF TInv, TypeOK, RegisterSave, GoogleSave, RegisterTenant, GoogleTenant, At, Special
  <1>2. e \in Emails /\ UNCHANGED <<link, uses, pending, fails>>
    BY <1>1 DEF LocalOK, RegisterSave, GoogleSave, RegisterTenant, GoogleTenant, Insert, mfa
  <1>3. \E row \in UserRow : /\ row.mfa = Null \/ (Registered(e) /\ row.mfa = user[e].mfa)
                            /\ user' = [user EXCEPT ![e] = row]
    <2>1. NewRow \in UserRow /\ NewRow.mfa = Null /\ GoogleRow \in UserRow /\ GoogleRow.mfa = Null
      BY RowsOK DEF NewRow, GoogleRow
    <2>2. CASE RegisterSave(r) \/ GoogleSave(r)
      BY <2>1, <2>2 DEF RegisterSave, GoogleSave, Insert
    <2>3. CASE RegisterTenant(r) \/ GoogleTenant(r)
      <3>1. /\ req[r].row \in UserRow /\ req[r].seen \in UserRow /\ user[e] \in UserRow
            /\ req[r].row.mfa = Null /\ Registered(e)
        BY <1>1, <1>2, <2>3, AccountsAssumption
        DEF CInv, BlankRows, LocalOK, OnRow, TInv, TypeOK, Registered, RegisterTenant,
            GoogleTenant, At
      <3>2. /\ Resaved(req[r]) \in UserRow
            /\ Resaved(req[r]).mfa = Null \/ Resaved(req[r]).mfa = user[e].mfa
        BY <3>1, ResavedOK DEF Kept
      <3> QED BY <2>3, <3>1, <3>2 DEF RegisterTenant, GoogleTenant
    <2> QED BY <2>2, <2>3
  <1>4. /\ \A l \in Links : Open(l)' => Open(l)
        /\ \A f \in Emails : Armed(f)' => Armed(f) /\ user'[f].mfa = user[f].mfa
    BY <1>2, <1>3, WriteOK DEF Open, Armed, Registered
  <1>5. ASSUME NEW q, req' = [req EXCEPT ![r] = q], q.pc \notin Special,
               q.pc \in Unsaved => q.row.mfa = Null
        PROVE  \E p : Plain(r, p)
    BY <1>1, <1>2, <1>4, <1>5 DEF Plain
  <1>6. ASSUME NEW row, row.mfa = Null, NEW pc \in {"reg_select", "google_select"},
               Insert(r, row, pc)
        PROVE  \E q : Plain(r, q)
    <2> DEFINE q == [req[r] EXCEPT !.pc = pc, !.row = row]
    <2>1. q.pc = pc /\ q.row = row
      BY <1>1 DEF Request
    <2> HIDE DEF q
    <2>2. req' = [req EXCEPT ![r] = q]
      BY <1>6 DEF Insert, q
    <2> QED BY <1>5, <1>6, <2>1, <2>2 DEF Special
  <1>7. CASE RegisterSave(r) \/ GoogleSave(r)
    BY <1>6, <1>7 DEF RegisterSave, GoogleSave, NewRow, GoogleRow
  <1>8. CASE RegisterTenant(r)
    <2> DEFINE q == [req[r] EXCEPT !.pc = "reg_mail"]
    <2>1. q.pc = "reg_mail"
      BY <1>1 DEF Request
    <2> HIDE DEF q
    <2>2. req' = [req EXCEPT ![r] = q]
      BY <1>8 DEF RegisterTenant, Goto, q
    <2> QED BY <1>5, <2>1, <2>2 DEF Special
  <1>9. CASE GoogleTenant(r)
    BY <1>5, <1>9 DEF GoogleTenant, Finish, Idle, Special
  <1> QED BY <1>7, <1>8, <1>9

\* The SELECT of a second save writes nothing.
LEMMA SelectPlain ==
    ASSUME TInv, CInv, NEW r \in Requests, RegisterSelect(r) \/ GoogleSelect(r)
    PROVE  \E q : Plain(r, q)
  <1>1. PICK pc \in Saving : Select(r, pc)
    BY Selects
  <1> DEFINE q == [req[r] EXCEPT !.pc = pc, !.seen = user[req[r].e]]
  <1>2. q.pc = pc /\ q.row = req[r].row /\ req[r].pc \in Unsaved
    BY Selects DEF Request
  <1>3. req' = [req EXCEPT ![r] = q]
    BY <1>1 DEF Select
  <1> HIDE DEF q
  <1>4. UNCHANGED <<user, link, uses, pending, fails>> /\ req[r].row.mfa = Null
    BY <1>2, Selects DEF CInv, BlankRows, mfa
  <1>5. Plain(r, q)
    BY <1>2, <1>3, <1>4 DEF Plain, Special, Open, Armed, Registered
  <1> QED BY <1>5

\* The other writes leave the second factor of the row.
LEMMA WritePlain ==
    ASSUME TInv, NEW r \in Requests, VerifyWrite(r) \/ GoogleLink(r) \/ RoleWrite(r)
    PROVE  \E q : Plain(r, q)
  <1> DEFINE e == req[r].e
  <1>1. e \in Emails /\ user[e] \in UserRow /\ UNCHANGED <<link, uses, pending, fails>>
    BY Writes DEF mfa
  <1>2. \E row \in UserRow : row.mfa = user[e].mfa /\ user' = [user EXCEPT ![e] = row]
    <2>1. CASE VerifyWrite(r)
      <3> DEFINE row == [user[e] EXCEPT !.verified = TRUE, !.vexp = Null, !.role = "owner"]
      <3>1. row \in UserRow /\ row.mfa = user[e].mfa
        BY <1>1 DEF UserRow, Roles
      <3>2. user' = [user EXCEPT ![e] = row]
        BY <2>1 DEF VerifyWrite
      <3> QED BY <3>1, <3>2
    <2>2. CASE GoogleLink(r)
      <3>1. LinkedRow(user[e]) \in UserRow /\ LinkedRow(user[e]).mfa = user[e].mfa
        BY <1>1 DEF LinkedRow, UserRow
      <3> QED BY <2>2, <3>1 DEF GoogleLink
    <2>3. CASE RoleWrite(r)
      <3> DEFINE row == [user[e] EXCEPT !.role = req[r].role]
      <3>1. req[r].role \in Roles
        BY <2>3 DEF RoleWrite, At, TInv, LocalOK
      <3>2. row \in UserRow /\ row.mfa = user[e].mfa
        BY <1>1, <3>1 DEF UserRow
      <3>3. user' = [user EXCEPT ![e] = row]
        BY <2>3 DEF RoleWrite
      <3> QED BY <3>2, <3>3
    <2> QED BY <2>1, <2>2, <2>3
  <1>3. Registered(e)
    BY <1>1, AccountsAssumption DEF Registered
  <1>4. /\ \A l \in Links : Open(l)' => Open(l)
        /\ \A f \in Emails : Armed(f)' => Armed(f) /\ user'[f].mfa = user[f].mfa
    BY <1>1, <1>2, <1>3, WriteOK DEF Open, Armed, Registered
  <1>5. req' = [req EXCEPT ![r] = Idle] /\ req[r].pc \notin Special
    BY DEF VerifyWrite, GoogleLink, RoleWrite, Finish, At, Special
  <1> QED BY <1>1, <1>4, <1>5 DEF Plain, Idle, Special

LEMMA MailPlain ==
    ASSUME TInv, NEW r \in Requests,
           RegisterMail(r) \/ ResetMail(r) \/ Conflict(r) \/ Refused(r) \/ ResetStore(r)
    PROVE  \E q : Plain(r, q)
  <1>1. req[r].pc \notin Special /\ UNCHANGED <<user, uses, pending, fails>>
    BY DEF RegisterMail, ResetMail, Conflict, Refused, ResetStore, At, Special, mfa
  <1>2. \A f \in Emails : Armed(f)' => Armed(f) /\ user'[f].mfa = user[f].mfa
    BY <1>1 DEF Armed, Registered
  <1>3. CASE RegisterMail(r) \/ ResetMail(r) \/ Conflict(r) \/ Refused(r)
    <2>1. UNCHANGED link /\ req' = [req EXCEPT ![r] = Idle]
      BY <1>3 DEF RegisterMail, ResetMail, Conflict, Refused, Finish
    <2> QED BY <1>1, <1>2, <2>1 DEF Plain, Idle, Special, Open
  <1>4. CASE ResetStore(r)
    <2>1. PICK k \in Links :
            /\ link[k] = Null
            /\ link' = [link EXCEPT ![k] =
                           [e |-> req[r].e, exp |-> Expiry(ResetTtl), stored |-> TRUE]]
            /\ req' = [req EXCEPT ![r].pc = "reset_mail", ![r].link = k]
      BY <1>4 DEF ResetStore
    <2> DEFINE q == [req[r] EXCEPT !.pc = "reset_mail", !.link = k]
    <2>2. q.pc = "reset_mail"
      BY DEF TInv, TypeOK, Request
    <2> HIDE DEF q
    <2>3. req' = [req EXCEPT ![r] = q]
      BY <2>1 DEF q
    <2>4. \A l \in Links : Open(l)' => Open(l)
      BY <2>1 DEF Open, TInv, TypeOK
    <2> QED BY <1>1, <1>2, <2>2, <2>3, <2>4 DEF Plain, Special
  <1> QED BY <1>3, <1>4

----------------------------------------------------------------------------
(* The steps that are *)

LEMMA HeldAfter ==
    ASSUME TInv, NEW e \in Emails, NEW r \in Requests, NEW q, req' = [req EXCEPT ![r] = q]
    PROVE  /\ Held(e)' \subseteq Held(e) \cup {q.secret}
           /\ ~(q.pc \in Enrolling /\ q.e = e) => Held(e)' \subseteq Held(e)
  <1>1. req'[r] = q /\ \A s \in Requests \ {r} : req'[s] = req[s]
    BY DEF TInv, TypeOK
  <1> QED BY <1>1 DEF Held, Under

\* The password reset has nothing to do with the second factor.
LEMMA ConfirmKept ==
    ASSUME TInv, TInv', CInv, Remember, NEW r \in Requests,
           \/ \E l \in Links : ConfirmGet(r, l)
           \/ ConfirmWrite(r) \/ ConfirmDel(r)
    PROVE  CInv'
  <1>1. \A l \in Links : LinkLeft(l)'
    BY GetLinks, UseLinks, DeleteLinks
  <1>2. /\ UNCHANGED <<user, pending, fails>> /\ req[r] \in Request
        /\ req[r].pc \in {"idle", "confirm_write", "confirm_del"}
    BY DEF ConfirmGet, ConfirmWrite, ConfirmDel, At, Free, mfa, TInv, TypeOK
  <1>3. ASSUME NEW q, req' = [req EXCEPT ![r] = q],
               q.pc \in {"idle", "confirm_write", "confirm_del"}
        PROVE  CInv'
    <2>1. BlankRows'
      BY <1>3, BlankKept DEF CInv
    <2>2. ASSUME NEW e \in Emails PROVE SecretsLeft(e)'
      BY <1>2, <1>3, QuietSecrets DEF CInv, Enrolling, Armed, Registered
    <2> QED BY <1>1, <2>1, <2>2 DEF CInv
  <1>4. ASSUME NEW l \in Links, ConfirmGet(r, l) PROVE CInv'
    <2> DEFINE q == [Idle EXCEPT !.pc = "confirm_write", !.e = link[l].e, !.link = l]
    <2>1. q.pc = "confirm_write" /\ req' = [req EXCEPT ![r] = q]
      BY <1>4 DEF Idle, ConfirmGet
    <2> HIDE DEF q
    <2> QED BY <1>3, <2>1
  <1>5. CASE ConfirmWrite(r)
    <2> DEFINE q == [req[r] EXCEPT !.pc = "confirm_del"]
    <2>1. q.pc = "confirm_del" /\ req' = [req EXCEPT ![r] = q]
      BY <1>2, <1>5 DEF Request, ConfirmWrite, Goto
    <2> HIDE DEF q
    <2> QED BY <1>3, <2>1
  <1>6. CASE ConfirmDel(r)
    BY <1>3, <1>6 DEF ConfirmDel, Finish, Idle
  <1> QED BY <1>4, <1>5, <1>6

\* What the steps of the second factor have in common: e is the account they are
\* about, and only its secrets are left to look at.
LEMMA FactorKept ==
    ASSUME TInv, TInv', CInv, Remember, NEW r \in Requests, NEW q, NEW k \in Emails,
           req' = [req EXCEPT ![r] = q], UNCHANGED <<uses, link, fails>>,
           req[r].pc \in {"signed_in", "mfa_store", "mfa_write", "mfa_del"},
           q.pc \in {"idle", "mfa_store", "mfa_write", "mfa_del"},
           req[r].e = k, q.pc # "idle" => q.e = k,
           \A e \in Emails \ {k} : user'[e] = user[e] /\ pending'[e] = pending[e],
           SecretsLeft(k)'
    PROVE  CInv'
  <1>1. BlankRows'
    BY BlankKept DEF CInv
  <1>2. ASSUME NEW l \in Links PROVE LinkLeft(l)'
    BY QuietLink DEF CInv, Open
  <1>3. ASSUME NEW e \in Emails, e # k PROVE SecretsLeft(e)'
    BY <1>3, QuietSecrets DEF CInv, Enrolling, Armed, Registered
  <1> QED BY <1>1, <1>2, <1>3 DEF CInv

\* A set-up is only let in while the account is not armed.
LEMMA SetupFindKept ==
    ASSUME TInv, TInv', CInv, Remember, NEW r \in Requests, SetupFind(r)
    PROVE  CInv'
  <1>0. PICK k \in Emails : req[r].e = k
    BY DEF SetupFind, At, TInv, LocalOK
  <1>1. PICK s \in Secrets : req' = [req EXCEPT ![r] = [@ EXCEPT !.pc = "mfa_store", !.secret = s]]
    BY DEF SetupFind
  <1> DEFINE q == [req[r] EXCEPT !.pc = "mfa_store", !.secret = s]
  <1>2. q.pc = "mfa_store" /\ q.e = k /\ req' = [req EXCEPT ![r] = q]
    BY <1>0, <1>1 DEF TInv, TypeOK, Request
  <1> HIDE DEF q
  <1>3. UNCHANGED <<user, link, uses, pending, fails>> /\ req[r].pc = "signed_in"
        /\ user[k].mfa = Null
    BY <1>0 DEF SetupFind, At, MaySetUp
  <1>4. SecretsLeft(k)'
    BY <1>3, Unarmed DEF Armed
  <1> QED BY <1>0, <1>2, <1>3, <1>4, FactorKept

\* The one who finds the secret in Redis was not busy with the account before.
LEMMA EnrolGetKept ==
    ASSUME TInv, TInv', CInv, Remember, NEW r \in Requests, EnrolGet(r)
    PROVE  CInv'
  <1>0. PICK k \in Emails : req[r].e = k
    BY DEF EnrolGet, At, TInv, LocalOK
  <1> DEFINE q == [req[r] EXCEPT !.pc = "mfa_write", !.secret = pending[k].secret]
  <1>1. /\ q.pc = "mfa_write" /\ q.e = k /\ q.secret = pending[k].secret
        /\ req' = [req EXCEPT ![r] = q] /\ req[r].pc = "signed_in" /\ pending[k] # Null
        /\ UNCHANGED <<user, link, uses, pending, fails>>
    BY <1>0 DEF EnrolGet, At, mfa, TInv, TypeOK, Request
  <1> HIDE DEF q
  <1>2. SecretsLeft(k)'
    <2>1. CASE ~Armed(k)
      BY <1>1, <2>1, Unarmed DEF Armed, Registered
    <2>2. CASE Armed(k)
      <3>1. ~Busy(k) /\ SecretsLeft(k) /\ user'[k].mfa \in Near(k)
        BY <1>1, <2>2 DEF Busy, Enrolling, CInv, SecretsLeft, Near
      <3>2. Held(k)' \subseteq Held(k) \cup {q.secret}
        BY <1>1, HeldAfter
      <3>3. Held(k)' \subseteq Reach(k) /\ Offer(k)' \subseteq Reach(k)
        BY <1>1, <3>2 DEF Reach, Near, Offer
      <3>4. fails' = fails + 0
        BY <1>1, AllowedOK
      <3> QED BY <2>2, <3>1, <3>3, <3>4, KeepSecrets
    <2> QED BY <2>1, <2>2
  <1> QED BY <1>0, <1>1, <1>2, FactorKept

LEMMA SetupStoreKept ==
    ASSUME TInv, TInv', CInv, Remember, NEW r \in Requests, SetupStore(r)
    PROVE  CInv'
  <1>0. PICK k \in Emails : req[r].e = k
    BY DEF SetupStore, At, TInv, LocalOK
  <1>1. /\ req[r].e = k /\ req[r].pc = "mfa_store"
        /\ req' = [req EXCEPT ![r] = Idle] /\ Idle.pc = "idle"
        /\ pending' = [pending EXCEPT ![k] = [secret |-> req[r].secret, exp |-> Expiry(MfaTtl)]]
        /\ UNCHANGED <<user, link, uses, fails>>
    BY <1>0 DEF SetupStore, At, Finish, Idle
  <1>2. \A e \in Emails \ {k} : pending'[e] = pending[e]
    BY <1>1 DEF TInv, TypeOK
  <1>3. SecretsLeft(k)'
    <2>1. CASE ~Armed(k)
      BY <1>1, <2>1, Unarmed DEF Armed, Registered
    <2>2. CASE Armed(k)
      <3>1. Held(k)' \subseteq Held(k)
        BY <1>1, HeldAfter DEF Enrolling
      <3>2. Offer(k)' \subseteq Held(k)
        <4>1. req[r].secret \in Held(k)
          BY <1>1 DEF Held, Under, Enrolling
        <4>2. pending'[k].secret = req[r].secret
          BY <1>1 DEF TInv, TypeOK
        <4> QED BY <4>1, <4>2 DEF Offer
      <3>3. fails' = fails + 0 /\ SecretsLeft(k) /\ user'[k].mfa \in Near(k)
        <4>1. fails' = fails + 0
          BY <1>1, AllowedOK
        <4>2. SecretsLeft(k) /\ user'[k].mfa \in Near(k)
          BY <1>1, <2>2 DEF CInv, SecretsLeft, Near
        <4> QED BY <4>1, <4>2
      <3> QED BY <2>2, <3>1, <3>2, <3>3, KeepSecrets DEF Near, Reach
    <2> QED BY <2>1, <2>2
  <1> QED BY <1>1, <1>2, <1>3, FactorKept

LEMMA EnrolWriteKept ==
    ASSUME TInv, TInv', CInv, Remember, NEW r \in Requests, EnrolWrite(r)
    PROVE  CInv'
  <1>0. PICK k \in Emails : req[r].e = k
    BY Writes
  <1> DEFINE q == [req[r] EXCEPT !.pc = "mfa_del"]
             row == [user[k] EXCEPT !.mfa = req[r].secret]
  <1>1. /\ req[r].e = k /\ user[k] \in UserRow /\ req[r].pc = "mfa_write"
        /\ req[r] \in Request /\ req[r].secret \in Secrets
    BY <1>0, Writes DEF EnrolWrite, At, TInv, TypeOK, LocalOK
  <1>2. /\ q.pc = "mfa_del" /\ q.e = k /\ req' = [req EXCEPT ![r] = q]
        /\ UNCHANGED <<link, uses, pending, fails>>
    BY <1>1 DEF Request, EnrolWrite, Goto, mfa
  <1>3. row \in UserRow /\ row.mfa = req[r].secret /\ user' = [user EXCEPT ![k] = row]
    BY <1>1 DEF UserRow, EnrolWrite
  <1> HIDE DEF q, row
  <1>4. user'[k] = row /\ user'[k] # Null /\ \A e \in Emails \ {k} : user'[e] = user[e]
    BY <1>1, <1>3, WriteOK
  <1>5. req[r].secret \in Held(k) /\ Registered(k)
    BY <1>1, AccountsAssumption DEF Held, Under, Enrolling, Registered
  <1>6. req'[r] = q /\ \A s \in Requests \ {r} : req'[s] = req[s]
    BY <1>2 DEF TInv, TypeOK
  <1>7. SecretsLeft(k)'
    <2>1. CASE ~Armed(k)
      <3>1. Armed(k)'
        BY <1>1, <1>3, <1>4, AccountsAssumption DEF Armed, Registered
      <3> QED BY <1>1, <1>2, <1>6, <2>1, <3>1, ArmSecrets DEF CInv
    <2>2. CASE Armed(k)
      <3>1. Held(k)' \subseteq Held(k) /\ Offer(k)' = Offer(k)
        BY <1>1, <1>2, HeldAfter DEF Enrolling, Offer
      <3>2. Busy(k) => Busy(k)'
        BY <1>2, <1>6 DEF Busy
      <3>3. fails' = fails + 0 /\ SecretsLeft(k) /\ user'[k].mfa \in Near(k)
        <4>1. fails' = fails + 0
          BY <1>2, AllowedOK
        <4>2. SecretsLeft(k) /\ user'[k].mfa \in Near(k)
          BY <1>1, <1>3, <1>4, <1>5 DEF CInv, Near
        <4> QED BY <4>1, <4>2
      <3>4. /\ Held(k)' \subseteq Near(k) /\ Held(k)' \subseteq Reach(k)
            /\ Offer(k)' \subseteq Reach(k)
        BY <3>1 DEF Near, Reach
      <3> QED BY <1>1, <2>2, <3>2, <3>3, <3>4, KeepSecrets
    <2> QED BY <2>1, <2>2
  <1> QED BY <1>1, <1>2, <1>4, <1>7, FactorKept

LEMMA EnrolDelKept ==
    ASSUME TInv, TInv', CInv, Remember, NEW r \in Requests, EnrolDel(r)
    PROVE  CInv'
  <1>0. PICK k \in Emails : req[r].e = k
    BY DEF EnrolDel, At, TInv, LocalOK
  <1>1. /\ req[r].e = k /\ req[r].pc = "mfa_del"
        /\ req' = [req EXCEPT ![r] = Idle] /\ Idle.pc = "idle"
        /\ pending' = [pending EXCEPT ![k] = Null]
        /\ UNCHANGED <<user, link, uses, fails>>
    BY <1>0 DEF EnrolDel, At, Finish, Idle
  <1>2. pending'[k] = Null /\ \A e \in Emails \ {k} : pending'[e] = pending[e]
    BY <1>1 DEF TInv, TypeOK
  <1>3. SecretsLeft(k)'
    <2>1. CASE ~Armed(k)
      BY <1>1, <2>1, Unarmed DEF Armed, Registered
    <2>2. CASE Armed(k)
      <3>1. Held(k)' \subseteq Held(k) /\ Offer(k)' = {}
        BY <1>1, <1>2, HeldAfter DEF Enrolling, Offer
      <3>2. fails' = fails + 0 /\ SecretsLeft(k) /\ user'[k].mfa \in Near(k)
        <4>1. fails' = fails + 0
          BY <1>1, AllowedOK
        <4>2. SecretsLeft(k) /\ user'[k].mfa \in Near(k)
          BY <1>1, <2>2 DEF CInv, SecretsLeft, Near
        <4> QED BY <4>1, <4>2
      <3> QED BY <2>2, <3>1, <3>2, KeepSecrets DEF Near, Reach
    <2> QED BY <2>1, <2>2
  <1> QED BY <1>1, <1>2, <1>3, FactorKept

\* A failure allows one secret more.
LEMMA FailKept ==
    ASSUME TInv, TInv', CInv, Remember, NEW r \in Requests, Fail(r)
    PROVE  CInv'
  <1>1. /\ req' = [req EXCEPT ![r] = Idle] /\ Idle.pc = "idle" /\ fails' = fails + 1
        /\ UNCHANGED <<user, pending>>
    BY DEF Fail, Finish, Idle, mfa
  <1>2. BlankRows'
    BY <1>1, BlankKept DEF CInv
  <1>3. ASSUME NEW e \in Emails PROVE SecretsLeft(e)'
    <2>1. CASE ~Armed(e)
      BY <1>1, <2>1, Unarmed DEF Armed, Registered
    <2>2. CASE Armed(e)
      <3>1. Held(e)' \subseteq Held(e) /\ Offer(e)' = Offer(e)
        BY <1>1, HeldAfter DEF Enrolling, Offer
      <3>2. SecretsLeft(e) /\ user'[e].mfa \in Near(e)
        BY <1>1, <2>2 DEF CInv, SecretsLeft, Near
      <3>3. Held(e)' \subseteq Reach(e) /\ Offer(e)' \subseteq Reach(e)
        BY <3>1 DEF Near, Reach
      <3> QED BY <1>1, <2>2, <3>2, <3>3, KeepSecrets
    <2> QED BY <2>1, <2>2
  <1> QED BY <1>2, <1>3, FailLinks DEF CInv

\* The cleanup, the clock and nothing at all.
LEMMA RestKept ==
    ASSUME TInv, CInv, UNCHANGED <<link, uses, pending, req, fails>>,
           \A e \in Emails : /\ Armed(e)' <=> Armed(e)
                             /\ Armed(e) => user'[e].mfa = user[e].mfa
                             /\ worn'[e] = worn[e]
    PROVE  CInv'
  <1>1. BlankRows'
    BY DEF CInv, BlankRows
  <1>2. ASSUME NEW l \in Links PROVE LinkLeft(l)'
    BY DEF CInv, LinkLeft, Open, Holding, ToDelete, Allowed, At
  <1>3. ASSUME NEW e \in Emails PROVE SecretsLeft(e)'
    <2>1. Held(e)' = Held(e) /\ Offer(e)' = Offer(e) /\ (Busy(e)' <=> Busy(e)) /\ Allowed' = Allowed
      BY DEF Held, Under, Offer, Busy, Allowed
    <2>2. Near(e)' = Near(e) /\ Reach(e)' = Reach(e)
      BY <2>1 DEF Near, Reach
    <2> QED BY <2>1, <2>2 DEF CInv, SecretsLeft
  <1> QED BY <1>1, <1>2, <1>3 DEF CInv

\* The history keeps what is in force already.
LEMMA WornStays ==
    ASSUME TInv, CInv, Remember, NEW e \in Emails, Armed(e)' <=> Armed(e),
           Armed(e) => user'[e].mfa = user[e].mfa
    PROVE  worn'[e] = worn[e]
  BY DEF CInv, SecretsLeft, Remember, Armed

LEMMA BoundsKept == TInv /\ CInv /\ [Next]_vars => CInv'
  <1> SUFFICES ASSUME TInv, CInv, [Next]_vars PROVE CInv'
    OBVIOUS
  <1>1. TInv'
    BY TypesKept
  <1>2. ASSUME NEW r \in Requests, Step(r), Remember PROVE CInv'
    <2>1. CASE \/ \E e \in Emails : \/ RegisterFind(r, e) \/ VerifyFind(r, e) \/ GoogleFind(r, e)
                                    \/ ResetFind(r, e) \/ Admit(r, e)
                                    \/ \E role \in Roles : RoleFind(r, e, role)
               \/ RegisterSave(r) \/ GoogleSave(r) \/ RegisterSelect(r) \/ GoogleSelect(r)
               \/ RegisterTenant(r) \/ GoogleTenant(r) \/ VerifyWrite(r) \/ GoogleLink(r)
               \/ RoleWrite(r) \/ RegisterMail(r) \/ ResetMail(r) \/ Conflict(r) \/ Refused(r)
               \/ ResetStore(r)
      <3>1. \E q : Plain(r, q)
        BY <2>1, FindPlain, SavePlain, SelectPlain, WritePlain, MailPlain
      <3> QED BY <1>1, <1>2, <3>1, PlainKept
    <2>2. CASE \/ \E l \in Links : ConfirmGet(r, l)
               \/ ConfirmWrite(r) \/ ConfirmDel(r)
      BY <1>1, <1>2, <2>2, ConfirmKept
    <2>3. CASE \/ SetupFind(r) \/ EnrolGet(r) \/ SetupStore(r)
               \/ EnrolWrite(r) \/ EnrolDel(r) \/ Fail(r)
      BY <1>1, <1>2, <2>3, SetupFindKept, EnrolGetKept, SetupStoreKept, EnrolWriteKept,
         EnrolDelKept, FailKept
    <2> QED BY <1>2, <2>1, <2>2, <2>3 DEF Step
  <1>3. CASE CleanTokens /\ Remember
    <2>1. \A e \in Emails : /\ Armed(e)' <=> Armed(e)
                            /\ Armed(e) => user'[e].mfa = user[e].mfa
      BY <1>3, CleanWrites DEF Armed
    <2> QED BY <1>3, <2>1, WornStays, RestKept DEF CleanTokens, mfa
  <1>4. CASE Tick /\ Remember
    <2>1. \A e \in Emails : /\ Armed(e)' <=> Armed(e)
                            /\ Armed(e) => user'[e].mfa = user[e].mfa
      BY <1>4 DEF Tick, Armed, Registered
    <2> QED BY <1>4, <2>1, WornStays, RestKept DEF Tick, mfa
  <1>5. CASE UNCHANGED vars
    BY <1>5, RestKept DEF vars, mfa, Armed, Registered
  <1> QED BY <1>2, <1>3, <1>4, <1>5 DEF Next

LEMMA InitBounds == Init => CInv
  <1> SUFFICES ASSUME Init PROVE CInv
    OBVIOUS
  <1>1. TInv
    BY InitTypes
  <1>2. BlankRows
    BY DEF Init, BlankRows, Idle
  <1>3. ASSUME NEW l \in Links PROVE LinkLeft(l)
    <2>1. uses[l] = 0 /\ fails = 0
      BY DEF Init
    <2>2. Cardinality(ToDelete(l)) \in Nat
      BY FewRequests DEF ToDelete
    <2>3. uses[l] <= fails + Cardinality(ToDelete(l))
      BY <2>1, <2>2
    <2> QED BY <1>1, <2>3, OpenBound DEF OpenBounded, LinkLeft
  <1>4. ASSUME NEW e \in Emails PROVE SecretsLeft(e)
    BY DEF Init, SecretsLeft, Armed, Registered
  <1> QED BY <1>2, <1>3, <1>4 DEF CInv

LEMMA BoundsHold == TInv /\ CInv => LinkUsesBounded /\ SecretsBounded
  <1> SUFFICES ASSUME TInv, CInv PROVE LinkUsesBounded /\ SecretsBounded
    OBVIOUS
  <1>1. LinkUsesBounded
    BY DEF CInv, LinkLeft, LinkUsesBounded, Allowed
  <1>2. ASSUME NEW e \in Emails PROVE Cardinality(worn[e]) <= Allowed
    <2>1. worn[e] \subseteq Near(e) /\ Near(e) \subseteq Reach(e) /\ Reach(e) \subseteq Secrets
      BY CountHeld DEF HeldByFew, Near
    <2>2. Allowed \in Nat
      BY AllowedOK
    <2>3. CASE ~Armed(e)
      <3>1. worn[e] = {}
        BY <2>3 DEF CInv, SecretsLeft
      <3>2. Cardinality(worn[e]) = 0
        BY <3>1, FS_EmptySet
      <3> QED BY <2>2, <3>2
    <2>4. CASE Armed(e)
      <3> DEFINE W == worn[e]
                 N == Near(e)
                 R == Reach(e)
      <3>1. W \in SUBSET N /\ W \in SUBSET R /\ N \in SUBSET Secrets /\ R \in SUBSET Secrets
        BY <2>1
      <3>2. Cardinality(N) <= Allowed \/ Cardinality(R) <= Allowed
        BY <2>4 DEF CInv, SecretsLeft
      <3> HIDE DEF W, N, R
      <3>3. /\ Cardinality(W) <= Cardinality(N) /\ Cardinality(W) <= Cardinality(R)
            /\ Cardinality(W) \in Nat /\ Cardinality(N) \in Nat /\ Cardinality(R) \in Nat
        BY <3>1, FewSecrets
      <3>4. Cardinality(W) <= Allowed
        BY <2>2, <3>2, <3>3
      <3> QED BY <3>4 DEF W
    <2> QED BY <2>3, <2>4
  <1> QED BY <1>1, <1>2 DEF SecretsBounded, Allowed

----------------------------------------------------------------------------
LEMMA Invariance == Spec => [](TInv /\ PInv)
  <1>1. Init => TInv /\ PInv
    BY InitTypes, InitProof
  <1>2. TInv /\ PInv /\ [Next]_vars => (TInv /\ PInv)'
    BY TypesKept, ProofKept
  <1> QED BY <1>1, <1>2, PTL DEF Spec

LEMMA Bounds == Spec => [](TInv /\ CInv)
  <1>1. Init => TInv /\ CInv
    BY InitTypes, InitBounds
  <1>2. TInv /\ CInv /\ [Next]_vars => (TInv /\ CInv)'
    BY TypesKept, BoundsKept
  <1> QED BY <1>1, <1>2, PTL DEF Spec

\* The tables and what the requests hold keep their types (auth.service.ts and
\* its entities).
THEOREM TypeCorrect == Spec => []TypeOK
  <1>1. TInv /\ PInv => TypeOK
    BY DEF TInv
  <1> QED BY <1>1, Invariance, PTL

\* An address counts as verified only if its mail went out or Google vouched for
\* it, whatever registrations, sign-ins, role changes and cleanups overlap.
THEOREM VerifiedHasItsProof == Spec => []VerifiedHasProof
  <1>1. TInv /\ PInv => VerifiedHasProof
    BY DEF PInv
  <1> QED BY <1>1, Invariance, PTL

\* Unless a call failed, an account without a tenant has the save that gives it
\* one still to come.
THEOREM TenantComes == Spec => []TenantUnlessFailed
  <1>1. TInv /\ PInv => TenantUnlessFailed
    BY DEF PInv
  <1> QED BY <1>1, Invariance, PTL

\* Nothing but a second save takes the verification, the Google link or the second
\* factor of an account back, and only where the account is linked to Google.
THEOREM OnlySecondSavesUndo == Spec => UndoneBySecondSaveOnly
  <1> QED BY Invariance, StepUndoes, PTL DEF Spec, UndoneBySecondSaveOnly

\* A reset link is good for one password change per request that was let in before
\* the first of them deleted it, and one more per call that failed: after that
\* nobody gets in, for any number of requests, links and failures
\* (confirmPasswordReset).
THEOREM LinksRunOut == Spec => []LinkUsesBounded
  <1> QED BY Bounds, BoundsHold, PTL

\* Once MFA is on, at most one secret per request that was under way comes to be in
\* force, and one more per call that failed, whatever confirmations overlap with
\* set-ups (setupMfa, confirmMfa).
THEOREM SecretsRunOut == Spec => []SecretsBounded
  <1> QED BY Bounds, BoundsHold, PTL
=============================================================================
