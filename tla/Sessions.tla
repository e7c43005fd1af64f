------------------------------ MODULE Sessions ------------------------------
(***************************************************************************)
(* Sessions of the admin API: the users table, the refresh tokens and the  *)
(* requests that make, rotate and revoke them (auth.Login, LoginOIDC,      *)
(* Refresh, Logout, LogoutAll, ChangePassword), role changes, admin API    *)
(* tokens, the OIDC logins with the provider they cache, and the start of  *)
(* the API process.  A request is one numbered entry of req, numbered in   *)
(* the order of arrival; its number also names the refresh token, access   *)
(* token or admin API token it issues.  A request refused at its first     *)
(* query (a wrong password, a token without a row or past its expiry)      *)
(* changes nothing and is left out.  Statements are those of PostgreSQL's  *)
(* READ COMMITTED: a DELETE waits for the row lock of another              *)
(* transaction's DELETE, and finds no row once that one has committed.     *)
(*                                                                         *)
(* A request that ended is done, failed without effect, or lost: its       *)
(* statement was committed and the acknowledgement never came, so that it  *)
(* reports an error, or nobody is left to report to.  Requests that give   *)
(* out no refresh token and spend none leave the same behind lost or done. *)
(***************************************************************************)
EXTENDS Integers, FiniteSets

CONSTANTS
    N,              \* bound: requests ever served
    OpsOf,          \* what each of them may ask for
    Emails,         \* accounts
    Bootstrap,      \* cfg.AdminBootstrapEmail
    Roles,
    Passwords,      \* passwords people know; an OIDC account starts with none of them
    FirstPassword,  \* cfg.AdminBootstrapPassword
    Issuers,        \* issuers the OIDC settings may name
    FirstIssuer     \* cfg.OIDCIssuerURL

Requests == 1..N

Ops == {"login", "oidc", "start", "refresh", "logout", "logoutAll", "password", "role", "settings", "adminToken"}

\* How a commit that was applied ends for the request: with its answer, or without.
Outcomes == {"done", "lost"}

ASSUME RequestsBound == N \in Nat
ASSUME OpsAssumption == OpsOf \in [Requests -> SUBSET Ops]
ASSUME AccountsAssumption ==
    Bootstrap \in Emails /\ "superadmin" \in Roles /\ FirstPassword \in Passwords
ASSUME IssuersAssumption == FirstIssuer \in Issuers /\ "local" \notin Issuers /\ "none" \notin Issuers

VARIABLES
    users,     \* the users table, by email (a unique column)
    tokens,    \* refresh_tokens: the requests whose token has a row
    req,       \* each request
    settings,  \* the issuer in the OIDC settings
    cache,     \* the issuer of oidc.Service's provider, oauth and verifier
    api,       \* the API process
    granted    \* history: the roles each account has had

vars == <<users, tokens, req, settings, cache, api, granted>>

NoAccount == [role |-> "none", pw |-> "none", provider |-> "none", subject |-> "none"]

NoRequest ==
    [op |-> "none", pc |-> "idle", email |-> Bootstrap, role |-> "none", tok |-> 0, pw |-> "none",
     next |-> "none", issuer |-> "none", subject |-> "none", lock |-> FALSE,
     before |-> {}, held |-> {}, crossed |-> FALSE]

Exists(e) == users[e] # NoAccount

InFlight(r) == req[r].pc \in {"issue", "ensure", "verify", "account", "delete", "rotate", "revoke", "update"}

Done(r) == req[r].pc = "done"

\* What it asked for has happened, whatever its client was told.
Committed(r) == req[r].pc \in Outcomes

\* Requests that made a session, and those whose client has it.
Issued(r) == Committed(r) /\ req[r].op \in {"login", "oidc", "refresh"}
Session(r) == Done(r) /\ Issued(r)

\* AdminAuth: an access token, which carries its role and is looked up nowhere, or the row of an
\* admin API token.
Parse(r) == Session(r)
Authenticate(r) == Done(r) /\ req[r].op = "adminToken"
Bearer(r) == Parse(r) \/ Authenticate(r)

\* Rows another transaction has deleted without having committed.
Locked(t) == \E r \in Requests : req[r].lock /\ req[r].tok = t

Arrives(r, op) ==
    /\ api = "up"
    /\ req[r].pc = "idle" /\ op \in OpsOf[r]
    /\ \A k \in 1..(r - 1) : req[k].pc # "idle"

\* The next request arrives; q: what it asks for and has read so far.
Arrived(q) ==
    [q EXCEPT !.before = {k \in Requests : req[k].pc \in Outcomes \cup {"failed"}}, !.held = {users[q.email]}]

Begin(r, q) ==
    /\ Arrives(r, q.op)
    /\ req' = [req EXCEPT ![r] = Arrived(q)]

Step(r, op, pc) == api = "up" /\ req[r].op = op /\ req[r].pc = pc

\* Ending a transaction releases its row lock.
Ended(q, pc) == [q EXCEPT !.pc = pc, !.lock = FALSE]

\* A write of one account, while request r goes on as q; the requests of that account see it happen.
WriteAccount(e, account, r, q) ==
    /\ users' = [users EXCEPT ![e] = account]
    /\ granted' = [granted EXCEPT ![e] = @ \cup {account.role}]
    /\ req' = [k \in Requests |->
                 LET now == IF k = r THEN q ELSE req[k] IN
                 IF (InFlight(k) \/ k = r) /\ now.email = e
                 THEN [now EXCEPT !.held = @ \cup {account}] ELSE now]

-----------------------------------------------------------------------------
(* Sessions.                                                               *)

\* Login: one SELECT of the account, the password compared, then the token's INSERT.
Login(r, e, pw) ==
    /\ users[e].provider = "local" /\ users[e].pw = pw
    /\ Begin(r, [NoRequest EXCEPT !.op = "login", !.pc = "issue", !.email = e, !.pw = pw,
                                  !.role = users[e].role])
    /\ UNCHANGED <<users, tokens, settings, cache, api, granted>>

\* issueSession outside a transaction.
IssueSession(r, o) ==
    /\ api = "up" /\ req[r].op \in {"login", "oidc"} /\ req[r].pc = "issue"
    /\ tokens' = tokens \cup {r}
    /\ req' = [req EXCEPT ![r] = Ended(@, o)]
    /\ UNCHANGED <<users, settings, cache, api, granted>>

\* Mutants: a token accepted for having been issued; the role the token was issued with.
RefreshIssued(r, t) ==
    /\ t # r /\ Session(t)
    /\ Begin(r, [NoRequest EXCEPT !.op = "refresh", !.pc = "delete", !.tok = t,
                                  !.email = req[t].email, !.role = users[req[t].email].role])
    /\ UNCHANGED <<users, tokens, settings, cache, api, granted>>

RefreshOldRole(r, t) ==
    /\ Session(t) /\ t \in tokens
    /\ Begin(r, [NoRequest EXCEPT !.op = "refresh", !.pc = "delete", !.tok = t,
                                  !.email = req[t].email, !.role = req[t].role])
    /\ UNCHANGED <<users, tokens, settings, cache, api, granted>>

\* Refresh: BEGIN and the SELECT that joins the live token with its user.
Refresh(r, t) ==
    /\ Session(t) /\ t \in tokens
    /\ Begin(r, [NoRequest EXCEPT !.op = "refresh", !.pc = "delete", !.tok = t,
                                  !.email = req[t].email, !.role = users[req[t].email].role])
    /\ UNCHANGED <<users, tokens, settings, cache, api, granted>>

\* Its DELETE, whose number of rows nobody reads.
RefreshDelete(r) ==
    /\ Step(r, "refresh", "delete") /\ ~Locked(req[r].tok)
    /\ req' = [req EXCEPT ![r].pc = "rotate", ![r].lock = req[r].tok \in tokens]
    /\ UNCHANGED <<users, tokens, settings, cache, api, granted>>

\* The new token's INSERT and the COMMIT.
RefreshCommit(r, o) ==
    /\ Step(r, "refresh", "rotate")
    /\ tokens' = (tokens \ {req[r].tok}) \cup {r}
    /\ req' = [req EXCEPT ![r] = Ended(@, o)]
    /\ UNCHANGED <<users, settings, cache, api, granted>>

\* Mutants: without the deferred Rollback the row stays locked; without a transaction it is gone.
FailsWithoutRollback(r) ==
    /\ api = "up" /\ InFlight(r)
    /\ req' = [req EXCEPT ![r].pc = "failed"]
    /\ UNCHANGED <<users, tokens, settings, cache, api, granted>>

FailsWithoutTransaction(r) ==
    /\ api = "up" /\ InFlight(r)
    /\ req' = [req EXCEPT ![r] = Ended(@, "failed")]
    /\ tokens' = IF req[r].lock THEN tokens \ {req[r].tok} ELSE tokens
    /\ UNCHANGED <<users, settings, cache, api, granted>>

\* A statement fails, or the client has gone, before anything was committed: the deferred Rollback.
Fails(r) ==
    /\ api = "up" /\ InFlight(r)
    /\ req' = [req EXCEPT ![r] = Ended(@, "failed")]
    /\ UNCHANGED <<users, tokens, settings, cache, api, granted>>

Logout(r, t, o) ==
    /\ t # r /\ Session(t) /\ ~Locked(t)
    /\ Begin(r, [NoRequest EXCEPT !.op = "logout", !.pc = o, !.tok = t, !.email = req[t].email])
    /\ tokens' = tokens \ {t}
    /\ UNCHANGED <<users, settings, cache, api, granted>>

\* LogoutAll: the DELETE sees the rows there are when it starts, and ends when it has the locks.
LogoutAll(r, c) ==
    /\ c # r /\ Bearer(c)
    /\ Begin(r, [NoRequest EXCEPT !.op = "logoutAll", !.pc = "revoke", !.email = req[c].email])
    /\ UNCHANGED <<users, tokens, settings, cache, api, granted>>

Visible(r) == {t \in tokens : t \in req[r].before /\ req[t].email = req[r].email}

LogoutAllDelete(r, o) ==
    /\ Step(r, "logoutAll", "revoke") /\ \A t \in Visible(r) : ~Locked(t)
    /\ tokens' = tokens \ Visible(r)
    /\ req' = [req EXCEPT ![r] = Ended(@, o)]
    /\ UNCHANGED <<users, settings, cache, api, granted>>

-----------------------------------------------------------------------------
(* Accounts.                                                               *)

\* ChangePassword: the stored hash compared, the UPDATE later.
ChangePassword(r, c, pw, next) ==
    /\ c # r /\ Bearer(c) /\ users[req[c].email].pw = pw
    /\ Begin(r, [NoRequest EXCEPT !.op = "password", !.pc = "update", !.email = req[c].email,
                                  !.pw = pw, !.next = next])
    /\ UNCHANGED <<users, tokens, settings, cache, api, granted>>

ChangePasswordUpdate(r) ==
    LET q == req[r] IN
    /\ Step(r, "password", "update")
    /\ WriteAccount(q.email, [users[q.email] EXCEPT !.pw = q.next, !.provider = "local"], r, Ended(q, "done"))
    /\ UNCHANGED <<tokens, settings, cache, api>>

\* users.UpdateRole, by an operator whose role may manage roles.
UpdateRole(r, e, role) ==
    /\ Arrives(r, "role") /\ Exists(e)
    /\ WriteAccount(e, [users[e] EXCEPT !.role = role], r, [NoRequest EXCEPT !.op = "role", !.pc = "done"])
    /\ UNCHANGED <<tokens, settings, cache, api>>

\* Mutant: whoever may create tokens chooses the role.
CreateAdminTokenAnyRole(r, c, role) ==
    /\ c # r /\ Bearer(c)
    /\ Begin(r, [NoRequest EXCEPT !.op = "adminToken", !.pc = "done", !.email = req[c].email, !.role = role])
    /\ UNCHANGED <<users, tokens, settings, cache, api, granted>>

\* POST /admin-tokens: the role asked for is the bearer's own unless the bearer is a superadmin.
MayCreate(c, role) == req[c].role = "superadmin" \/ role = req[c].role

CreateAdminToken(r, c, role) ==
    /\ c # r /\ Bearer(c) /\ MayCreate(c, role)
    /\ Begin(r, [NoRequest EXCEPT !.op = "adminToken", !.pc = "done", !.email = req[c].email, !.role = role])
    /\ UNCHANGED <<users, tokens, settings, cache, api, granted>>

-----------------------------------------------------------------------------
(* OIDC.  The authorization code of a callback was given out by one issuer *)
(* and can only be exchanged with it; the person has one subject there.    *)

\* UpdateOIDCSettings.
UpdateOIDCSettings(r, i) ==
    /\ i # settings /\ settings' = i
    /\ Begin(r, [NoRequest EXCEPT !.op = "settings", !.pc = "done"])
    /\ UNCHANGED <<users, tokens, cache, api, granted>>

\* currentSettings: those of the table, or the configuration when the query fails.
currentSettings == {settings, FirstIssuer}

\* Requests that have read the settings and may still write the cached provider, or use it.
Caching(k) == req[k].op \in {"oidc", "start"} /\ req[k].pc \in {"ensure", "verify"}

\* Start and Callback begin by reading the settings, before the mutex.  A request and those under
\* way that go on with other settings have crossed.
ReadsSettings(r, q, i) ==
    LET others == {k \in Requests : Caching(k) /\ req[k].issuer # i}
        started == [q EXCEPT !.pc = "ensure", !.issuer = i, !.crossed = others # {}]
    IN
    /\ Arrives(r, q.op) /\ i \in currentSettings
    /\ req' = [k \in Requests |-> IF k = r THEN Arrived(started)
                                  ELSE IF k \in others THEN [req[k] EXCEPT !.crossed = TRUE] ELSE req[k]]
    /\ UNCHANGED <<users, tokens, settings, cache, api, granted>>

\* Start: the URL it answers with has no part in the sessions, the provider it leaves has.
Start(r, i) == ReadsSettings(r, [NoRequest EXCEPT !.op = "start"], i)

Callback(r, i) == ReadsSettings(r, [NoRequest EXCEPT !.op = "oidc"], i)

Ensured(q) == [q EXCEPT !.pc = IF q.op = "start" THEN "done" ELSE "verify"]

\* Mutant: the provider is made once.
EnsureProviderOnce(r) ==
    /\ api = "up" /\ req[r].op \in {"oidc", "start"} /\ req[r].pc = "ensure"
    /\ cache' = IF cache = "none" THEN req[r].issuer ELSE cache
    /\ req' = [req EXCEPT ![r] = Ensured(@)]
    /\ UNCHANGED <<users, tokens, settings, api, granted>>

\* ensureProvider under the mutex: the cached provider if the settings are those it was made for,
\* else a new one.
EnsureProvider(r) ==
    /\ api = "up" /\ req[r].op \in {"oidc", "start"} /\ req[r].pc = "ensure"
    /\ cache' = req[r].issuer
    /\ req' = [req EXCEPT ![r] = Ensured(@)]
    /\ UNCHANGED <<users, tokens, settings, api, granted>>

\* The exchange and the verification read s.oauth and s.verifier without the mutex: the code and
\* the ID token are accepted when they are from the issuer cached by now, and a refusal is one of
\* the failures.  The ID token names a subject there and leads to an account and a role.
OidcVerify(r, e, role) ==
    /\ Step(r, "oidc", "verify")
    /\ req' = [req EXCEPT ![r] = [@ EXCEPT !.pc = "account", !.subject = cache, !.email = e, !.role = role,
                                           !.held = {users[e]}]]
    /\ UNCHANGED <<users, tokens, settings, cache, api, granted>>

\* LoginOIDC's transaction: the account found by issuer and subject has its role updated, the one
\* found by email is linked as well, and without either an account is created.  The email of the
\* request is that of the account found, which may be another one than the ID token's.
OidcAccount(q) ==
    [role |-> q.role, pw |-> IF Exists(q.email) THEN users[q.email].pw ELSE "random",
     provider |-> q.issuer, subject |-> q.subject]

LoginOIDC(r) ==
    LET q == req[r] IN
    /\ Step(r, "oidc", "account")
    /\ WriteAccount(q.email, OidcAccount(q), r, [q EXCEPT !.pc = "issue"])
    /\ UNCHANGED <<tokens, settings, cache, api>>

-----------------------------------------------------------------------------
(* The API process.                                                        *)

\* It dies: the database rolls back what was open.
ApiCrash ==
    /\ api = "up" /\ api' = "down"
    /\ cache' = "none"
    /\ req' = [r \in Requests |-> IF InFlight(r) THEN Ended(req[r], "failed") ELSE req[r]]
    /\ UNCHANGED <<users, tokens, settings, granted>>

\* EnsureBootstrapAdmin, whose error is fatal: the email is unique.
BootstrapNeeded == \A e \in Emails : users[e].role # "superadmin"

ApiStart ==
    /\ api = "down"
    /\ IF BootstrapNeeded /\ ~Exists(Bootstrap)
       THEN /\ users' = [users EXCEPT ![Bootstrap] =
                           [role |-> "superadmin", pw |-> FirstPassword, provider |-> "local", subject |-> "none"]]
            /\ granted' = [granted EXCEPT ![Bootstrap] = @ \cup {"superadmin"}]
            /\ api' = "up"
       ELSE /\ api' = IF BootstrapNeeded THEN "fatal" ELSE "up"
            /\ UNCHANGED <<users, granted>>
    /\ UNCHANGED <<tokens, req, settings, cache>>

Init ==
    /\ users = [e \in Emails |-> NoAccount]
    /\ tokens = {}
    /\ req = [r \in Requests |-> NoRequest]
    /\ settings = FirstIssuer /\ cache = "none"
    /\ api = "down"
    /\ granted = [e \in Emails |-> {}]

\* What goes on without anybody asking.
Proceed(r) ==
    \/ \E o \in Outcomes : IssueSession(r, o) \/ RefreshCommit(r, o) \/ LogoutAllDelete(r, o)
    \/ RefreshDelete(r) \/ ChangePasswordUpdate(r) \/ EnsureProvider(r) \/ LoginOIDC(r)
    \/ \E e \in Emails, role \in Roles : OidcVerify(r, e, role)

Next ==
    \/ \E r \in Requests :
         \/ \E e \in Emails, pw \in Passwords : Login(r, e, pw)
         \/ \E t \in Requests : Refresh(r, t) \/ LogoutAll(r, t)
         \/ \E t \in Requests, o \in Outcomes : Logout(r, t, o)
         \/ \E c \in Requests, pw \in Passwords, next \in Passwords : ChangePassword(r, c, pw, next)
         \/ \E e \in Emails, role \in Roles : UpdateRole(r, e, role)
         \/ \E c \in Requests, role \in Roles : CreateAdminToken(r, c, role)
         \/ \E i \in Issuers : UpdateOIDCSettings(r, i) \/ Start(r, i) \/ Callback(r, i)
         \/ Proceed(r)
         \/ Fails(r)
    \/ ApiCrash
    \/ ApiStart

Spec == Init /\ [][Next]_vars

\* The API goes on with every request it has taken: each is a goroutine, and each of its queries
\* returns, fails or waits for a lock.
FairSpec == Spec /\ \A r \in Requests : WF_vars(Proceed(r))

-----------------------------------------------------------------------------
(* Properties.                                                             *)

Account ==
    [role: Roles, pw: Passwords \cup {"random"}, provider: Issuers \cup {"local"}, subject: Issuers \cup {"none"}]

\* Types; a row of refresh_tokens belongs to a request that made a session, a lock to a
\* Refresh between its DELETE and its COMMIT on a row that is still there, and no two hold one row.
TypeOK ==
    /\ users \in [Emails -> Account \cup {NoAccount}]
    /\ tokens \subseteq {r \in Requests : Issued(r)}
    /\ settings \in Issuers /\ cache \in Issuers \cup {"none"} /\ api \in {"up", "down", "fatal"}
    /\ \A r \in Requests :
         /\ req[r].op \in Ops \cup {"none"} /\ req[r].email \in Emails /\ req[r].role \in Roles \cup {"none"}
         /\ InFlight(r) => api = "up"
         /\ req[r].lock => req[r].op = "refresh" /\ req[r].pc = "rotate" /\ req[r].tok \in tokens
         /\ \A k \in Requests : req[r].lock /\ req[k].lock /\ req[r].tok = req[k].tok => r = k

\* Request k has spent token t: it rotated it, logged it out, or revoked every session that had
\* been given out when it began.
Spent(t, k) ==
    /\ Committed(k)
    /\ \/ req[k].op \in {"refresh", "logout"} /\ req[k].tok = t
       \/ req[k].op = "logoutAll" /\ req[k].email = req[t].email /\ t \in req[k].before

\* A refresh token has its row exactly as long as no request that was committed has spent it: a
\* Refresh that fails between its DELETE and its COMMIT leaves the session alive, a LogoutAll that
\* waited for one that was rolled back still revokes it, and nothing else loses a session
\* (auth.Refresh's transaction, Logout, LogoutAll).  A Refresh whose COMMIT was applied and not
\* acknowledged reports an error and has spent its token.
TokensAccountedFor ==
    \A t \in Requests : Session(t) => (t \in tokens <=> ~\E k \in Requests : Spent(t, k))

\* "refresh-token reuse is rejected", "logout-all actually clears" (docs/session-validation.md): a
\* token that a request had spent is not refreshed by one that began afterwards.  Refreshes that
\* overlap may both succeed, since nobody looks at the number of rows the DELETE removed.
SpentTokenRefused ==
    \A r \in Requests : Done(r) /\ req[r].op = "refresh" => ~\E k \in req[r].before : Spent(req[r].tok, k)

\* The role in a session is one its account had while the request ran and, for a password login,
\* at a moment when the password that was given was that account's and it was a local account:
\* role changes, password changes and OIDC links race with the logins.
SessionFromHeldAccount ==
    \A r \in Requests : Session(r) =>
        \E a \in req[r].held :
            /\ a.role = req[r].role
            /\ req[r].op = "login" => a.pw = req[r].pw /\ a.provider = "local"

\* The role of an admin API token is one its creator has had, or its creator has been superadmin:
\* neither stale access tokens nor tokens made with tokens reach a role nobody gave
\* (POST /admin-tokens).
AdminRoleWasGranted ==
    \A r \in Requests : Done(r) /\ req[r].op = "adminToken" =>
        {req[r].role, "superadmin"} \cap granted[req[r].email] # {}

\* An account is recorded under the issuer that verified it, unless a Start or a Callback that had
\* read other settings was under way between the callback's reading of them and its verification
\* (oidc.Callback uses s.oauth and s.verifier after ensureProvider has released the mutex).
IssuerVerified ==
    \A r \in Requests : req[r].op = "oidc" /\ req[r].pc \in {"account", "issue", "done"} =>
        req[r].crossed \/ req[r].issuer = req[r].subject

\* Every request ends: the row locks that Refresh takes are given back, also when it fails.
EveryRequestEnds == \A r \in Requests : InFlight(r) ~> ~InFlight(r)

=============================================================================
