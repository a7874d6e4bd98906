------------------------------ MODULE Accounts ------------------------------
(***************************************************************************)
(* Identity: users, passkeys, recovery codes, app passwords, linked OIDC    *)
(* identities, and the sessions they are traded for (server/internal/auth,  *)
(* its handlers in httpapi, and the user commands of cloudctl).             *)
(*                                                                          *)
(* Every statement sent to the database is one step; a request that sends   *)
(* several is a process of Caller, which holds what it read in between.  A  *)
(* token, a challenge and a hash are abstracted to the row they name: only  *)
(* who holds a proof, and whether it still counts, is modelled.  Slots of   *)
(* Session and Ceremony bound the rows that exist at one time.              *)
(***************************************************************************)
EXTENDS Naturals, FiniteSets

CONSTANTS
  User,         \* accounts; an id and its folded username are one value
  Caller,       \* requests and commands in flight
  Session, Ceremony, Passkey, AppPassword, Code,
  MaxSets,      \* bound on the sets of recovery codes of one account
  MaxDisables,  \* bound on how often one account is disabled
  MaxOps,       \* bound on the requests of a behaviour
  Overlap       \* may an account change fall between the check of another and its write?

ASSUME AccountsAssumption ==
  /\ MaxSets \in Nat \ {0} /\ MaxDisables \in Nat /\ MaxOps \in Nat /\ Overlap \in BOOLEAN
  /\ Caller \cap Session = {}

VARIABLES
  users,        \* "absent", "active" or "disabled" (disabled_at is set)
  admins,       \* accounts whose is_admin is true
  passkeys, codes, appPasswords,
  linked,       \* the accounts linked to the one OIDC identity: none or one
  sessions, ceremonies,
  reqs,         \* the requests in flight
  ops,          \* requests so far
  disables,     \* history: disabling writes per account
  cut           \* history: accounts whose disable ended before the revocation

tables == <<users, admins, passkeys, codes, appPasswords, linked, sessions, ceremonies>>
accountVars == <<tables, reqs, ops, disables, cut>>

Kinds == {"web", "device", "recovery"}
None == [state |-> "none"]
NoCall == [at |-> "idle"]
NoCode == <<0, 0>>

(***************************************************************************)
(* Queries                                                                 *)
(***************************************************************************)
CountUsers == Cardinality({u \in User : users[u] # "absent"})
Disabled(u) == users[u] = "disabled"
ActiveAdmins == {u \in admins : users[u] = "active"}
SessionUser(s) == sessions[s].state = "live"
Authenticate(s) == SessionUser(s) /\ ~Disabled(sessions[s].user)

isRecoveryAllowedPath(path) == path \in {"me", "regenerate"}
deviceDeniedPrefixes == {"devices", "admin"}
isDeviceAllowedPath(path) ==
  path \notin deviceDeniedPrefixes \cup {"credentials", "regenerate"}

\* Wraps every route except sign-in, registration and logout.
requireAuth(s, path) ==
  /\ Authenticate(s)
  /\ sessions[s].kind = "recovery" => isRecoveryAllowedPath(path)
  /\ sessions[s].kind = "device" => isDeviceAllowedPath(path)

requireAdmin(s) == requireAuth(s, "admin") /\ sessions[s].user \in admins

\* Mutant: counts administrators without looking at disabled_at.
LastOfAllAdmins(u) == admins = {u}

isLastActiveAdmin(u) == ActiveAdmins = {u}

(***************************************************************************)
(* Statements                                                              *)
(***************************************************************************)
CreateUser(u, admin) ==
  /\ users' = [users EXCEPT ![u] = "active"]
  /\ admins' = IF admin THEN admins \cup {u} ELSE admins

CreateCeremony(c, kind, u, via) ==
  /\ ceremonies[c] = None
  /\ ceremonies' = [ceremonies EXCEPT ![c] = [state |-> "open", kind |-> kind, user |-> u, via |-> via]]

\* DELETE ... RETURNING: whoever takes it is the only one to have it.
TakeCeremony(c, kind) ==
  /\ ceremonies[c] # None /\ ceremonies[c].kind = kind
  /\ ceremonies' = [ceremonies EXCEPT ![c] = None]

ReplaceRecoveryCodes(u) ==
  /\ codes[u].set < MaxSets
  /\ codes' = [codes EXCEPT ![u] = [set |-> @.set + 1, unused |-> Code]]

RevokeWhere(named) ==
  sessions' = [s \in Session |-> IF sessions[s].state = "live" /\ s \in named
                                 THEN [sessions[s] EXCEPT !.state = "dead"] ELSE sessions[s]]
SessionsOf(u) == {s \in Session : sessions[s].state = "live" /\ sessions[s].user = u}
RevokeAllSessions(u) == RevokeWhere(SessionsOf(u))
RevokeSession(u, t) == RevokeWhere(SessionsOf(u) \cap {t})

\* proof is the recovery code behind a recovery session, seen the number of
\* disables when the sign-in looked at the account, made when the row was
\* inserted.
CreateSession(s, q) ==
  /\ sessions[s] = None
  /\ sessions' = [sessions EXCEPT ![s] =
       [state |-> "live", user |-> q.user, kind |-> q.kind, proof |-> q.proof,
        seen |-> q.seen, made |-> disables[q.user]]]

(***************************************************************************)
(* Requests                                                                *)
(***************************************************************************)
CallStep(at, op, u) ==
  [at |-> at, op |-> op, user |-> u, kind |-> "web", proof |-> NoCode,
   seen |-> disables[u], key |-> {}]

Opens(r, q) == reqs[r] = NoCall /\ reqs' = [reqs EXCEPT ![r] = q]
Goto(r, at) == reqs' = [reqs EXCEPT ![r].at = at]
End(r) == reqs' = [reqs EXCEPT ![r] = NoCall]
At(r, at) == reqs[r].at = at

\* A request that checked the accounts and has not yet written them.
Checked(r) == reqs[r].at \in {"update", "delete"}
Quiet(r) == Overlap \/ \A o \in Caller \ {r} : ~Checked(o)

(***************************************************************************)
(* Registration                                                            *)
(***************************************************************************)
\* The handler asks Authenticate, not requireAuth: any live session enrols.
BeginRegistration(c) ==
  \/ \E s \in Session : /\ Authenticate(s)
                        /\ CreateCeremony(c, "registration", sessions[s].user, sessions[s].kind)
  \/ /\ CountUsers = 0
     /\ \E u \in User : CreateCeremony(c, "bootstrap", u, "nobody")

handleRegisterBegin(c) ==
  /\ BeginRegistration(c)
  /\ UNCHANGED <<users, admins, passkeys, codes, appPasswords, linked, sessions, reqs, disables, cut>>

\* Enrolment of a further passkey: the account is read, not whether it is disabled.
FinishRegistration(r, c, k) ==
  \E kind \in {"registration", "bootstrap"} :
    /\ TakeCeremony(c, kind)
    /\ Opens(r, [CallStep(IF kind = "bootstrap" THEN "user" ELSE "credential",
                     IF kind = "bootstrap" THEN "create" ELSE "enrol",
                     ceremonies[c].user) EXCEPT !.key = {k}])
    /\ k \notin UNION {passkeys[u] : u \in User}

handleRegisterFinish(r, c, k) ==
  /\ FinishRegistration(r, c, k)
  /\ UNCHANGED <<users, admins, passkeys, codes, appPasswords, linked, sessions, disables, cut>>

\* A passkey that is registered already is refused.
AddCredential(r) ==
  /\ At(r, "credential")
  /\ IF reqs[r].key \cap UNION {passkeys[u] : u \in User} # {}
     THEN End(r) /\ UNCHANGED passkeys
     ELSE /\ passkeys' = [passkeys EXCEPT ![reqs[r].user] = @ \cup reqs[r].key]
          /\ IF reqs[r].op = "create" THEN Goto(r, "session") ELSE End(r)
  /\ UNCHANGED <<users, admins, codes, appPasswords, linked, sessions, ceremonies, disables, cut>>

\* The insert of bootstrap, console and cloudctl; a taken name ends the request.
InsertUser(r) ==
  /\ At(r, "user")
  /\ LET u == reqs[r].user IN
       IF users[u] # "absent"
       THEN End(r) /\ UNCHANGED <<users, admins>>
       ELSE CreateUser(u, reqs[r].op = "create" \/ reqs[r].op = "addAdmin") /\ Goto(r, "codes")
  /\ UNCHANGED <<passkeys, codes, appPasswords, linked, sessions, ceremonies, disables, cut>>

RegenerateRecoveryCodes(r) ==
  /\ At(r, "codes")
  /\ ReplaceRecoveryCodes(reqs[r].user)
  /\ IF reqs[r].op = "create" THEN Goto(r, "credential") ELSE End(r)
  /\ UNCHANGED <<users, admins, passkeys, appPasswords, linked, sessions, ceremonies, disables, cut>>

(***************************************************************************)
(* Sign-in                                                                 *)
(***************************************************************************)
BeginLogin(c, u) ==
  /\ users[u] = "active" /\ passkeys[u] # {}
  /\ CreateCeremony(c, "login", u, "nobody")

handleLoginBegin(c, u) ==
  /\ BeginLogin(c, u)
  /\ UNCHANGED <<users, admins, passkeys, codes, appPasswords, linked, sessions, reqs, disables, cut>>

\* Mutant: only BeginLogin looks at disabled_at.
TrustsBegin(u) == passkeys[u] # {}

\* The account is looked at again: disabled in the meantime, it is refused.
FinishLogin(u) == users[u] = "active" /\ passkeys[u] # {}

handleLoginFinish(r, c) ==
  /\ TakeCeremony(c, "login")
  /\ reqs[r] = NoCall
  /\ IF FinishLogin(ceremonies[c].user)
     THEN Opens(r, CallStep("session", "login", ceremonies[c].user)) ELSE UNCHANGED reqs
  /\ UNCHANGED <<users, admins, passkeys, codes, appPasswords, linked, sessions, disables, cut>>

\* Reads the unused codes of the account; the match is consumed by a later statement.
RedeemRecoveryCode(u, k) == users[u] = "active" /\ k \in codes[u].unused

handleRecoveryRedeem(r, u, k) ==
  /\ RedeemRecoveryCode(u, k)
  /\ Opens(r, [CallStep("consume", "redeem", u) EXCEPT !.kind = "recovery", !.proof = <<codes[u].set, k>>])
  /\ UNCHANGED <<tables, disables, cut>>

\* Mutant: the UPDATE does not ask whether the code is still unused.
ConsumesAnyway(r) ==
  /\ At(r, "consume")
  /\ codes' = [codes EXCEPT ![reqs[r].user].unused = @ \ {reqs[r].proof[2]}]
  /\ Goto(r, "session")
  /\ UNCHANGED <<users, admins, passkeys, appPasswords, linked, sessions, ceremonies, disables, cut>>

\* Conditional on the row being there and unused.
ConsumeRecoveryCode(r) ==
  /\ At(r, "consume")
  /\ LET u == reqs[r].user  p == reqs[r].proof IN
       IF codes[u].set = p[1] /\ p[2] \in codes[u].unused
       THEN codes' = [codes EXCEPT ![u].unused = @ \ {p[2]}] /\ Goto(r, "session")
       ELSE End(r) /\ UNCHANGED codes
  /\ UNCHANGED <<users, admins, passkeys, appPasswords, linked, sessions, ceremonies, disables, cut>>

VerifyAppPassword(u, a) == a \in appPasswords[u] /\ ~Disabled(u)

handleCreateDeviceToken(r, u, a) ==
  /\ VerifyAppPassword(u, a)
  /\ Opens(r, [CallStep("session", "token", u) EXCEPT !.kind = "device"])
  /\ UNCHANGED <<tables, disables, cut>>

\* A known identity signs in, an unknown one is provisioned by a later transaction.
FindUserByOIDC == linked

LoginOIDC(r) ==
  \/ \E u \in FindUserByOIDC : ~Disabled(u) /\ Opens(r, CallStep("session", "oidc", u))
  \/ FindUserByOIDC = {} /\ \E u \in User : users[u] = "absent" /\ Opens(r, CallStep("provision", "oidc", u))

handleOIDCCallback(r) ==
  /\ LoginOIDC(r)
  /\ UNCHANGED <<tables, disables, cut>>

\* The name is free or the next one is tried; the identity is unique, and the
\* one that lost signs in to the account that won.
ProvisionOIDCUser(r) ==
  /\ At(r, "provision")
  /\ \/ /\ FindUserByOIDC = {}
        /\ \E u \in User :
             /\ users[u] = "absent"
             /\ users' = [users EXCEPT ![u] = "active"]
             /\ linked' = {u}
             /\ reqs' = [reqs EXCEPT ![r] = CallStep("session", "oidc", u)]
     \/ \E u \in FindUserByOIDC :
             /\ reqs' = [reqs EXCEPT ![r] = [CallStep("session", "oidc", u) EXCEPT !.seen = reqs[r].seen]]
             /\ UNCHANGED <<users, linked>>
  /\ UNCHANGED <<admins, passkeys, codes, appPasswords, sessions, ceremonies, disables, cut>>

NewSessionToken(r, s) ==
  /\ At(r, "session")
  /\ CreateSession(s, reqs[r])
  /\ End(r)
  /\ UNCHANGED <<users, admins, passkeys, codes, appPasswords, linked, ceremonies, disables, cut>>

(***************************************************************************)
(* Managing one's own account                                              *)
(***************************************************************************)
handleRegenerateRecoveryCodes(s) ==
  /\ requireAuth(s, "regenerate")
  /\ ReplaceRecoveryCodes(sessions[s].user)
  /\ UNCHANGED <<users, admins, passkeys, appPasswords, linked, sessions, ceremonies, reqs, disables, cut>>

CreateAppPassword(u, a) ==
  /\ a \notin UNION {appPasswords[v] : v \in User}
  /\ appPasswords' = [appPasswords EXCEPT ![u] = @ \cup {a}]

handleCreateAppPassword(s, a) ==
  /\ requireAuth(s, "credentials")
  /\ CreateAppPassword(sessions[s].user, a)
  /\ UNCHANGED <<users, admins, passkeys, codes, linked, sessions, ceremonies, reqs, disables, cut>>

\* Expiry has the same effect.
RevokeAppPassword(u, a) ==
  /\ a \in appPasswords[u]
  /\ appPasswords' = [appPasswords EXCEPT ![u] = @ \ {a}]

handleRevokeAppPassword(s, a) ==
  /\ requireAuth(s, "credentials")
  /\ RevokeAppPassword(sessions[s].user, a)
  /\ UNCHANGED <<users, admins, passkeys, codes, linked, sessions, ceremonies, reqs, disables, cut>>

\* Mutant: the count is compared with zero.
DeletesLast(r, s, k) ==
  /\ requireAuth(s, "credentials")
  /\ Cardinality(passkeys[sessions[s].user]) > 0
  /\ Quiet(r)
  /\ Opens(r, [CallStep("delete", "forget", sessions[s].user) EXCEPT !.key = {k}])
  /\ UNCHANGED <<tables, disables, cut>>

\* Lists the passkeys and refuses to go on with the last one.
handleDeleteCredential(r, s, k) ==
  /\ requireAuth(s, "credentials")
  /\ Cardinality(passkeys[sessions[s].user]) > 1
  /\ Quiet(r)
  /\ Opens(r, [CallStep("delete", "forget", sessions[s].user) EXCEPT !.key = {k}])
  /\ UNCHANGED <<tables, disables, cut>>

DeleteCredential(r) ==
  /\ At(r, "delete")
  /\ passkeys' = [passkeys EXCEPT ![reqs[r].user] = @ \ reqs[r].key]
  /\ End(r)
  /\ UNCHANGED <<users, admins, codes, appPasswords, linked, sessions, ceremonies, disables, cut>>

handleLogout(s) ==
  /\ SessionUser(s)
  /\ RevokeWhere({s})
  /\ UNCHANGED <<users, admins, passkeys, codes, appPasswords, linked, ceremonies, reqs, disables, cut>>

handleRevokeSession(s, t) ==
  /\ requireAuth(s, "credentials")
  /\ SessionUser(t)
  /\ RevokeSession(sessions[s].user, t)
  /\ UNCHANGED <<users, admins, passkeys, codes, appPasswords, linked, ceremonies, reqs, disables, cut>>

(***************************************************************************)
(* The administrator's console and cloudctl                                *)
(***************************************************************************)
handleAdminRevokeUserSession(s, t) ==
  /\ requireAdmin(s)
  /\ SessionUser(t)
  /\ RevokeSession(sessions[t].user, t)
  /\ UNCHANGED <<users, admins, passkeys, codes, appPasswords, linked, ceremonies, reqs, disables, cut>>

handleAdminCreateUser(r, s, u) ==
  /\ requireAdmin(s)
  /\ \E op \in {"add", "addAdmin"} : Opens(r, CallStep("user", op, u))
  /\ UNCHANGED <<tables, disables, cut>>

userCreate(r, u) ==
  /\ \E op \in {"add", "addAdmin"} : Opens(r, CallStep("user", op, u))
  /\ UNCHANGED <<tables, disables, cut>>

\* A change that takes an administrator away first asks whether it is the last.
handleAdminPatchUser(r, s, u) ==
  /\ requireAdmin(s)
  /\ users[u] # "absent"
  /\ Quiet(r)
  /\ \E op \in {"demote", "disable", "promote", "enable"} :
       /\ op \in {"demote", "disable"} => ~isLastActiveAdmin(u)
       /\ Opens(r, CallStep("update", op, u))
  /\ UNCHANGED <<tables, disables, cut>>

DisableUser(r, u) ==
  /\ users[u] # "absent" /\ ~isLastActiveAdmin(u)
  /\ Opens(r, CallStep("update", "disable", u))

\* An account is disabled, its rows stay.
handleAdminDeleteUser(r, s, u) ==
  /\ requireAdmin(s)
  /\ Quiet(r)
  /\ DisableUser(r, u)
  /\ UNCHANGED <<tables, disables, cut>>

SetUserDisabled(u, off) ==
  /\ users' = [users EXCEPT ![u] = IF off THEN "disabled" ELSE "active"]
  /\ disables' = [disables EXCEPT ![u] = IF off THEN @ + 1 ELSE @]
  /\ off => disables[u] < MaxDisables

\* The UPDATE; sessions are revoked by a statement of its own.
UpdateUser(r) ==
  /\ At(r, "update")
  /\ LET u == reqs[r].user  op == reqs[r].op IN
       /\ IF op \in {"disable", "enable"} THEN SetUserDisabled(u, op = "disable")
          ELSE UNCHANGED <<users, disables>>
       /\ admins' = CASE op = "promote" -> admins \cup {u}
                      [] op = "demote" -> admins \ {u}
                      [] OTHER -> admins
       /\ IF op = "disable" THEN Goto(r, "revoke") ELSE End(r)
  /\ UNCHANGED <<passkeys, codes, appPasswords, linked, sessions, ceremonies, cut>>

RevokeDisabled(r) ==
  /\ At(r, "revoke")
  /\ RevokeAllSessions(reqs[r].user)
  /\ cut' = cut \ {reqs[r].user}
  /\ IF reqs[r].op = "reset" THEN Goto(r, "apps") ELSE End(r)
  /\ UNCHANGED <<users, admins, passkeys, codes, appPasswords, linked, ceremonies, disables>>

\* cloudctl asks nothing: it is the break-glass path.
userSetDisabled(r, u) ==
  /\ users[u] # "absent"
  /\ Quiet(r)
  /\ \/ SetUserDisabled(u, TRUE) /\ Opens(r, CallStep("revoke", "lock", u))
     \/ SetUserDisabled(u, FALSE) /\ UNCHANGED reqs
  /\ UNCHANGED <<admins, passkeys, codes, appPasswords, linked, sessions, ceremonies, cut>>

userResetAuth(r, u) ==
  /\ users[u] # "absent"
  /\ Quiet(r)
  /\ passkeys' = [passkeys EXCEPT ![u] = {}]
  /\ Opens(r, CallStep("revoke", "reset", u))
  /\ UNCHANGED <<users, admins, codes, appPasswords, linked, sessions, ceremonies, disables, cut>>

RevokeAllAppPasswords(r) ==
  /\ At(r, "apps")
  /\ appPasswords' = [appPasswords EXCEPT ![reqs[r].user] = {}]
  /\ Goto(r, "codes")
  /\ UNCHANGED <<users, admins, passkeys, codes, linked, sessions, ceremonies, disables, cut>>

userAppPassword(u, a) ==
  /\ users[u] # "absent"
  /\ CreateAppPassword(u, a)
  /\ UNCHANGED <<users, admins, passkeys, codes, linked, sessions, ceremonies, reqs, disables, cut>>

(***************************************************************************)
(* Failures and time                                                       *)
(***************************************************************************)
\* A statement fails, the client goes away or the process dies: the rest is not done.
Abandon(r) ==
  /\ reqs[r] # NoCall
  /\ End(r)
  /\ cut' = IF At(r, "revoke") THEN cut \cup {reqs[r].user} ELSE cut
  /\ UNCHANGED <<tables, disables>>

\* Expiry, and the rows that Cleanup removes.
Cleanup ==
  /\ \/ \E s \in Session : /\ sessions[s] # None
                           /\ sessions' = [sessions EXCEPT ![s] = None]
                           /\ UNCHANGED ceremonies
     \/ \E c \in Ceremony : /\ ceremonies[c] # None
                            /\ ceremonies' = [ceremonies EXCEPT ![c] = None]
                            /\ UNCHANGED sessions
  /\ UNCHANGED <<users, admins, passkeys, codes, appPasswords, linked, reqs, disables, cut>>

\* A fresh database.
Empty ==
  /\ users = [u \in User |-> "absent"] /\ admins = {}
  /\ passkeys = [u \in User |-> {}]
  /\ codes = [u \in User |-> [set |-> 0, unused |-> {}]]
  /\ sessions = [s \in Session |-> None]

\* A server in use: administrators with a printed set of codes, some signed in.
Running ==
  /\ users = [u \in User |-> "active"] /\ admins = User
  /\ passkeys \in [User -> SUBSET Passkey]
  /\ \A u, v \in User : u # v => passkeys[u] \cap passkeys[v] = {}
  /\ codes = [u \in User |-> [set |-> 1, unused |-> Code]]
  /\ sessions \in [Session -> {None} \cup
       {[state |-> "live", user |-> u, kind |-> "web", proof |-> NoCode, seen |-> 0, made |-> 0] : u \in User}]

AccountInit ==
  /\ Empty \/ Running
  /\ appPasswords = [u \in User |-> {}] /\ linked = {}
  /\ ceremonies = [c \in Ceremony |-> None]
  /\ reqs = [r \in Caller |-> NoCall] /\ ops = 0
  /\ disables = [u \in User |-> 0] /\ cut = {}

Registers ==
  \/ \E c \in Ceremony : handleRegisterBegin(c)
  \/ \E r \in Caller, c \in Ceremony, k \in Passkey : handleRegisterFinish(r, c, k)

SignsIn ==
  \/ \E c \in Ceremony, u \in User : handleLoginBegin(c, u)
  \/ \E r \in Caller, c \in Ceremony : handleLoginFinish(r, c)
  \/ \E r \in Caller, u \in User : \/ \E k \in Code : handleRecoveryRedeem(r, u, k)
                                     \/ \E a \in AppPassword : handleCreateDeviceToken(r, u, a)
  \/ \E r \in Caller : handleOIDCCallback(r)

Manages ==
  \/ \E s \in Session : handleRegenerateRecoveryCodes(s) \/ handleLogout(s)
  \/ \E s \in Session, a \in AppPassword : handleCreateAppPassword(s, a) \/ handleRevokeAppPassword(s, a)
  \/ \E r \in Caller, s \in Session, k \in Passkey : handleDeleteCredential(r, s, k)
  \/ \E s, t \in Session : handleRevokeSession(s, t)

Administers ==
  \/ \E s, t \in Session : handleAdminRevokeUserSession(s, t)
  \/ \E r \in Caller, s \in Session, u \in User :
       handleAdminCreateUser(r, s, u) \/ handleAdminPatchUser(r, s, u) \/ handleAdminDeleteUser(r, s, u)
  \/ \E u \in User, a \in AppPassword : userAppPassword(u, a)
  \/ \E r \in Caller, u \in User : userCreate(r, u) \/ userSetDisabled(r, u) \/ userResetAuth(r, u)

\* The next statement of a request in flight, or its end.
Continues(r) ==
  \/ AddCredential(r) \/ InsertUser(r) \/ RegenerateRecoveryCodes(r)
  \/ ConsumeRecoveryCode(r) \/ ProvisionOIDCUser(r)
  \/ \E s \in Session : NewSessionToken(r, s)
  \/ DeleteCredential(r) \/ UpdateUser(r) \/ RevokeDisabled(r) \/ RevokeAllAppPasswords(r)
  \/ Abandon(r)

AccountNext ==
  \/ ops < MaxOps /\ (Registers \/ SignsIn \/ Manages \/ Administers) /\ ops' = ops + 1
  \/ (\E r \in Caller : Continues(r)) /\ UNCHANGED ops
  \/ Cleanup /\ UNCHANGED ops

AccountSpec == AccountInit /\ [][AccountNext]_accountVars

(***************************************************************************)
(* Properties                                                              *)
(***************************************************************************)
SessionRow ==
  [state : {"live", "dead"}, user : User, kind : Kinds,
   proof : (0..MaxSets) \X (Code \cup {0}), seen : 0..MaxDisables, made : 0..MaxDisables]

\* The tables hold rows of the shapes the schema allows: one account per
\* identity, one per passkey, and no session of an account that does not exist.
AccountTypeOK ==
  /\ users \in [User -> {"absent", "active", "disabled"}]
  /\ admins \subseteq User /\ linked \subseteq User /\ cut \subseteq User
  /\ passkeys \in [User -> SUBSET Passkey] /\ appPasswords \in [User -> SUBSET AppPassword]
  /\ codes \in [User -> [set : 0..MaxSets, unused : SUBSET Code]]
  /\ \A s \in Session : sessions[s] \in SessionRow \cup {None}
  /\ disables \in [User -> 0..MaxDisables]
  /\ Cardinality(linked) <= 1
  /\ \A u, v \in User : u # v => passkeys[u] \cap passkeys[v] = {}
  /\ \A s \in Session : sessions[s] # None => users[sessions[s].user] # "absent"

\* A disabled account keeps no live session once the disable has run to its
\* end (UpdateUser writes first and revokes second), except one whose sign-in
\* looked at the account before the disable and inserted its row after it.
DisableHolds ==
  \A s \in Session : LET q == sessions[s] IN
    /\ SessionUser(s) /\ Disabled(q.user) /\ q.user \notin cut
    /\ \A r \in Caller : ~(At(r, "revoke") /\ reqs[r].user = q.user)
    => q.seen < q.made /\ q.made = disables[q.user]

\* Those who have traded a recovery code for a session, or are about to.
Redeemers == {x \in Session : sessions[x].state # "none" /\ sessions[x].kind = "recovery"}
          \cup {r \in Caller : At(r, "session") /\ reqs[r].kind = "recovery"}
ProofOf(x) == IF x \in Session THEN <<sessions[x].user, sessions[x].proof>>
              ELSE <<reqs[x].user, reqs[x].proof>>

\* A printed recovery code opens one session: two requests that both found it
\* unused cannot both have consumed it, nor one of them after a new set
\* replaced it (the conditional UPDATE of ConsumeRecoveryCode).
CodeOpensOne ==
  /\ \A x, y \in Redeemers : x # y => ProofOf(x) # ProofOf(y)
  /\ \A x \in Redeemers : LET u == ProofOf(x)[1]  p == ProofOf(x)[2] IN
       codes[u].set = p[1] => p[2] \notin codes[u].unused

\* What opens a session is still good when it does: no disable is survived, and no
\* printed code used twice (auth/admin.go, auth/store.go).
SignInHolds == DisableHolds /\ CodeOpensOne

\* A step of cloudctl that disables an account or clears its credentials.
BreakGlass(op) == \E r \in Caller : reqs[r] = NoCall /\ reqs'[r] # NoCall /\ reqs'[r].op = op

\* There stays a way in: no request of the console leaves the server without an active
\* administrator (isLastActiveAdmin), and nobody deletes their own last passkey; only
\* the break-glass commands lock or clear an account.
WaysInStay ==
  [][/\ ActiveAdmins # {} /\ ActiveAdmins' = {} => BreakGlass("lock")
     /\ \A u \in User : passkeys[u] # {} /\ passkeys'[u] = {} => BreakGlass("reset")]_accountVars

\* What the comment of isDeviceAllowedPath asks: a device session, minted from
\* an app password, hands out no authority, so no ceremony is begun with one.
DeviceEnrolsNothing == \A c \in Ceremony : ceremonies[c] # None => ceremonies[c].via # "device"
=============================================================================
