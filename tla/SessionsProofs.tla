--------------------------- MODULE SessionsProofs ---------------------------
(***************************************************************************)
(* Sessions, for any number of requests, accounts, roles, passwords and    *)
(* issuers: refresh tokens are accounted for and never served after they   *)
(* were spent, the role of a session is one the account had meanwhile, the *)
(* role of an admin API token was granted to somebody's account, and       *)
(* accounts are recorded under the issuer that verified them unless a      *)
(* Start or a Callback with other settings crossed the login.              *)
(***************************************************************************)
EXTENDS Sessions, TLAPS

-----------------------------------------------------------------------------
(* The inductive invariant.                                                *)

Request ==
    [op: Ops \cup {"none"},
     pc: {"idle", "issue", "ensure", "verify", "account", "delete", "rotate", "revoke", "update",
          "done", "failed", "lost"},
     email: Emails, role: Roles \cup {"none"}, tok: 0..N,
     pw: Passwords \cup {"none"}, next: Passwords \cup {"none"},
     issuer: Issuers \cup {"none"}, subject: Issuers \cup {"none"}, lock: BOOLEAN,
     before: SUBSET Requests, held: SUBSET (Account \cup {NoAccount}), crossed: BOOLEAN]

\* Types of the requests: what has read the OIDC settings has an issuer, a callback
\* that was verified a role and a subject, a change of password a new one.
LocalTypes ==
    /\ req \in [Requests -> Request]
    /\ granted \in [Emails -> SUBSET Roles]
    /\ \A r \in Requests :
         /\ req[r].op \in {"oidc", "start"} => req[r].issuer \in Issuers
         /\ req[r].op = "oidc" /\ req[r].pc = "account" => req[r].role \in Roles /\ req[r].subject \in Issuers
         /\ req[r].op = "password" => req[r].next \in Passwords

Over(r) == req[r].pc \in {"done", "failed", "lost"}

\* A request that knows the role it will put in its session.
HasRole(r) ==
    \/ req[r].op \in {"login", "oidc"} /\ req[r].pc \in {"issue", "done"}
    \/ req[r].op = "refresh" /\ req[r].pc \in {"delete", "rotate", "done"}

\* What a request refers to: a refresh or logout is of a token that was given out,
\* and what came before a request was over by then.
RefersInv(r) ==
    /\ req[r].op \in {"refresh", "logout"} => req[r].tok \in Requests /\ Session(req[r].tok)
    /\ \A k \in req[r].before : Over(k)

\* A refresh was not begun with a token that was spent before.
RefusedInv(r) ==
    req[r].op = "refresh" /\ req[r].pc \in {"delete", "rotate", "done"} =>
        ~\E k \in req[r].before : Spent(req[r].tok, k)

\* The role of a session is one that its account has had meanwhile, with the
\* password that was given.
HeldInv(r) ==
    HasRole(r) =>
        \E a \in req[r].held :
            /\ a.role = req[r].role
            /\ req[r].op = "login" => a.pw = req[r].pw /\ a.provider = "local"

\* Roles come from an account that exists, and bearers have such an account.
RoleInv(r) ==
    /\ HasRole(r) => req[r].role \in granted[req[r].email]
    /\ Done(r) /\ req[r].op = "adminToken" => {req[r].role, "superadmin"} \cap granted[req[r].email] # {}
    /\ req[r].op = "password" /\ req[r].pc = "update" => Exists(req[r].email)

\* A callback that has crossed no login with other settings goes on with the issuer
\* that verified it.
VerifiedInv(r) ==
    req[r].op = "oidc" /\ req[r].pc \in {"account", "issue", "done"} =>
        req[r].crossed \/ req[r].issuer = req[r].subject

RequestInv(r) == RefersInv(r) /\ RefusedInv(r) /\ HeldInv(r) /\ RoleInv(r) /\ VerifiedInv(r)

\* A Refresh past its DELETE that holds no lock found no row.
LockInv == \A r \in Requests :
    req[r].op = "refresh" /\ req[r].pc = "rotate" /\ ~req[r].lock => req[r].tok \notin tokens

\* An account exists once it has been given a role, and has had the role it has.
AccountInv == \A e \in Emails :
    /\ granted[e] # {} => Exists(e)
    /\ Exists(e) => users[e].role \in granted[e]

\* Logins with different settings that are under way together have crossed.  From
\* ensureProvider to its verification a callback finds a provider, and its own unless
\* it has crossed another login.
CacheInv ==
    /\ \A r, k \in Requests :
          Caching(r) /\ Caching(k) /\ req[r].issuer # req[k].issuer => req[r].crossed
    /\ \A r \in Requests : req[r].op = "oidc" /\ req[r].pc = "verify" =>
          cache \in Issuers /\ (req[r].crossed \/ cache = req[r].issuer)

IInv ==
    /\ TypeOK /\ LocalTypes
    /\ \A r \in Requests : RequestInv(r)
    /\ TokensAccountedFor /\ LockInv /\ AccountInv /\ CacheInv
-----------------------------------------------------------------------------
(* Types, and what a step keeps.                                           *)

\* The parts of TypeOK: the tables, and the tokens with their locks.
TableTypes ==
    /\ users \in [Emails -> Account \cup {NoAccount}]
    /\ settings \in Issuers /\ cache \in Issuers \cup {"none"} /\ api \in {"up", "down", "fatal"}
    /\ \A r \in Requests : InFlight(r) => api = "up"

TokenInv ==
    /\ tokens \subseteq {r \in Requests : Issued(r)}
    /\ \A r \in Requests :
         /\ req[r].lock => req[r].op = "refresh" /\ req[r].pc = "rotate" /\ req[r].tok \in tokens
         /\ \A k \in Requests : req[r].lock /\ req[k].lock /\ req[r].tok = req[k].tok => r = k
    /\ TokensAccountedFor /\ LockInv

\* The invariant in the parts in which it is proved.
LEMMA Parts ==
    /\ IInv <=> /\ TableTypes /\ LocalTypes /\ \A r \in Requests : RequestInv(r)
                /\ TokenInv /\ AccountInv /\ CacheInv
    /\ IInv' <=> /\ TableTypes' /\ LocalTypes' /\ \A r \in Requests : RequestInv(r)'
                 /\ TokenInv' /\ AccountInv' /\ CacheInv'
  <1>1. IInv <=> /\ TableTypes /\ LocalTypes /\ \A r \in Requests : RequestInv(r)
                 /\ TokenInv /\ AccountInv /\ CacheInv
    <2>1. LocalTypes => \A r \in Requests : /\ req[r].op \in Ops \cup {"none"} /\ req[r].email \in Emails
                                            /\ req[r].role \in Roles \cup {"none"}
      BY DEF LocalTypes, Request
    <2> QED  BY <2>1 DEF IInv, TypeOK, TableTypes, TokenInv
  <1>2. (IInv <=> /\ TableTypes /\ LocalTypes /\ \A r \in Requests : RequestInv(r)
                  /\ TokenInv /\ AccountInv /\ CacheInv)'
    BY <1>1, PTL
  <1> QED  BY <1>1, <1>2

\* The request is what it was, but that it may have seen more of its account and
\* crossed another login.
Kept(k) ==
    /\ req'[k].op = req[k].op /\ req'[k].pc = req[k].pc /\ req'[k].email = req[k].email
    /\ req'[k].role = req[k].role /\ req'[k].tok = req[k].tok /\ req'[k].pw = req[k].pw
    /\ req'[k].next = req[k].next /\ req'[k].issuer = req[k].issuer /\ req'[k].subject = req[k].subject
    /\ req'[k].lock = req[k].lock /\ req'[k].before = req[k].before
    /\ req[k].held \subseteq req'[k].held
    /\ req[k].crossed => req'[k].crossed

\* No account is the one that does not exist.
LEMMA AccountTypes ==
    /\ NoAccount \notin Account
    /\ \A a \in Account : a.role \in Roles /\ a.pw \in Passwords \cup {"random"}
  BY IssuersAssumption DEF Account, NoAccount

\* A request that is over is spent, a session, and over for good.
LEMMA OverStays ==
    ASSUME \A k \in Requests : Over(k) => Kept(k)
    PROVE  /\ \A k \in Requests : Over(k) => Over(k)'
           /\ \A k \in Requests : Session(k) => Session(k)'
           /\ \A t, k \in Requests : Session(t) /\ Over(k) => (Spent(t, k)' <=> Spent(t, k))
  BY DEF Over, Kept, Session, Issued, Committed, Outcomes, Done, Spent

\* What holds of a request stays so while it is kept.
LEMMA KeptRequest ==
    ASSUME IInv, \A k \in Requests : Over(k) => Kept(k),
           \A e \in Emails : granted[e] \subseteq granted'[e],
           \A e \in Emails : Exists(e) => Exists(e)',
           NEW r \in Requests, Kept(r)
    PROVE  RequestInv(r)'
  <1>1. RequestInv(r) /\ req[r].email \in Emails /\ req[r].before \subseteq Requests
    BY Parts DEF LocalTypes, Request
  <1>2. RefersInv(r)'
    BY <1>1, OverStays DEF RequestInv, RefersInv, Kept
  <1>3. RefusedInv(r)'
    <2> SUFFICES ASSUME req[r].op = "refresh", req[r].pc \in {"delete", "rotate", "done"},
                        NEW k \in req[r].before, Spent(req[r].tok, k)'
                 PROVE  FALSE
      BY DEF RefusedInv, Kept
    <2>1. Over(k) /\ k \in Requests /\ req[r].tok \in Requests /\ Session(req[r].tok)
      BY <1>1 DEF RequestInv, RefersInv
    <2>2. Spent(req[r].tok, k)
      <3>1. PICK t \in Requests : t = req[r].tok /\ t = req'[r].tok
        BY <2>1 DEF Kept
      <3>2. Spent(t, k)'
        BY <3>1 DEF Spent
      <3> QED  BY <2>1, <3>1, <3>2, OverStays
    <2> QED  BY <1>1, <2>2 DEF RequestInv, RefusedInv
  <1>4. HeldInv(r)'
    BY <1>1 DEF RequestInv, HeldInv, HasRole, Kept
  <1>5. RoleInv(r)'
    BY <1>1 DEF RequestInv, RoleInv, HasRole, Done, Kept, Exists
  <1>6. VerifiedInv(r)'
    BY <1>1 DEF RequestInv, VerifiedInv, Kept
  <1> QED  BY <1>2, <1>3, <1>4, <1>5, <1>6 DEF RequestInv

\* A request that fails leaves nothing to be right about but what it refers to.
LEMMA FailedRequest ==
    ASSUME IInv, \A k \in Requests : Over(k) => Kept(k), NEW r \in Requests,
           req'[r].pc = "failed", req'[r].op = req[r].op, req'[r].tok = req[r].tok,
           req'[r].before = req[r].before
    PROVE  RequestInv(r)'
  <1>1. RequestInv(r) /\ req[r].before \subseteq Requests
    BY Parts DEF LocalTypes, Request
  <1>2. RefersInv(r)'
    BY <1>1, OverStays DEF RequestInv, RefersInv
  <1> QED
    BY <1>2 DEF RequestInv, RefusedInv, HeldInv, RoleInv, VerifiedInv, HasRole, Done

\* Tokens are not touched by the steps of a request that neither takes a lock nor
\* ends with a session or a revocation.
LEMMA TokenFrame ==
    ASSUME IInv, NEW r \in Requests, ~Over(r), \A k \in Requests : k # r => Kept(k),
           tokens' = tokens, ~req'[r].lock,
           req'[r].op = "refresh" => req'[r].pc # "rotate",
           Committed(r)' => req'[r].op \notin {"login", "oidc", "refresh", "logout", "logoutAll"}
    PROVE  TokenInv'
  <1>1. \A k \in Requests : (Session(k)' <=> Session(k)) /\ (Issued(k)' <=> Issued(k))
    BY DEF Over, Kept, Session, Issued, Committed, Outcomes, Done
  <1>2. \A t, k \in Requests : Session(t) => (Spent(t, k)' <=> Spent(t, k))
    BY DEF Over, Kept, Session, Issued, Committed, Outcomes, Done, Spent
  <1>3. TokenInv
    BY Parts
  <1>4. TokensAccountedFor'
    BY <1>1, <1>2, <1>3 DEF TokenInv, TokensAccountedFor
  <1>5. LockInv'
    BY <1>3 DEF TokenInv, LockInv, Kept
  <1>6. ASSUME NEW k \in Requests, req'[k].lock
        PROVE  k # r /\ req[k].lock /\ req'[k].op = req[k].op /\ req'[k].pc = req[k].pc /\ req'[k].tok = req[k].tok
    BY <1>6 DEF Kept
  <1> QED  BY <1>1, <1>3, <1>4, <1>5, <1>6 DEF TokenInv

\* The cached provider is not touched by a request that does not go on towards it.
LEMMA CacheFrame ==
    ASSUME IInv, NEW r \in Requests, \A k \in Requests : k # r => Kept(k),
           cache' = cache, ~Caching(r)'
    PROVE  CacheInv'
  <1>1. CacheInv
    BY Parts
  <1>2. ASSUME NEW k \in Requests, Caching(k)'
        PROVE  /\ Caching(k) /\ req'[k].issuer = req[k].issuer /\ req'[k].pc = req[k].pc
               /\ req'[k].op = req[k].op /\ (req[k].crossed => req'[k].crossed)
    BY <1>2 DEF Caching, Kept
  <1> QED  BY <1>1, <1>2 DEF CacheInv, Caching

\* A request that is the same is kept.
LEMMA SameIsKept == \A k \in Requests : req'[k] = req[k] => Kept(k)
  BY DEF Kept
-----------------------------------------------------------------------------
(* Requests that begin.                                                    *)

\* The empty request is one.
LEMMA NoRequestType == NoRequest \in Request
  BY AccountsAssumption, RequestsBound DEF NoRequest, Request

\* A request that begins was idle, knows what was over by then and sees its
\* account as it is.
LEMMA BeginStep ==
    ASSUME IInv, NEW r \in Requests, NEW q \in Request, Begin(r, q)
    PROVE  /\ req[r].pc = "idle" /\ ~Over(r) /\ ~Done(r) /\ ~InFlight(r) /\ api = "up"
           /\ req' \in [Requests -> Request]
           /\ req'[r].op = q.op /\ req'[r].pc = q.pc /\ req'[r].email = q.email /\ req'[r].role = q.role
           /\ req'[r].tok = q.tok /\ req'[r].pw = q.pw /\ req'[r].next = q.next
           /\ req'[r].issuer = q.issuer /\ req'[r].subject = q.subject /\ req'[r].lock = q.lock
           /\ req'[r].crossed = q.crossed
           /\ req'[r].before = {k \in Requests : Over(k)} /\ req'[r].held = {users[q.email]}
           /\ \A k \in Requests : k # r => req'[k] = req[k]
  <1> DEFINE b == {k \in Requests : Over(k)}
             h == {users[q.email]}
             q2 == [q EXCEPT !.before = b, !.held = h]
  <1>1. req' = [req EXCEPT ![r] = q2] /\ req[r].pc = "idle" /\ api = "up"
    BY DEF Begin, Arrived, Arrives, Over, Outcomes
  <1>2. b \in SUBSET Requests /\ h \in SUBSET (Account \cup {NoAccount})
    BY Parts DEF TableTypes, Request
  <1> HIDE DEF b, h
  <1>3. q2 \in Request
    BY <1>2 DEF Request
  <1>4. /\ q2.op = q.op /\ q2.pc = q.pc /\ q2.email = q.email /\ q2.role = q.role /\ q2.tok = q.tok
        /\ q2.pw = q.pw /\ q2.next = q.next /\ q2.issuer = q.issuer /\ q2.subject = q.subject
        /\ q2.lock = q.lock /\ q2.crossed = q.crossed /\ q2.before = b /\ q2.held = h
    BY DEF Request
  <1> HIDE DEF q2
  <1>5. req \in [Requests -> Request]
    BY Parts DEF LocalTypes
  <1>6. req' \in [Requests -> Request] /\ req'[r] = q2 /\ \A k \in Requests : k # r => req'[k] = req[k]
    BY <1>1, <1>3, <1>5
  <1>7. ~Over(r) /\ ~Done(r) /\ ~InFlight(r)
    BY <1>1 DEF Over, Done, InFlight
  <1> QED  BY <1>1, <1>4, <1>6, <1>7 DEF b, h

\* What is read of the account as a request begins: the role of the account, and
\* with a password login the password of a local one.
LEMMA BeginInvariant ==
    ASSUME IInv, NEW r \in Requests, NEW q \in Request, Begin(r, q),
           UNCHANGED <<users, tokens, cache, api, granted>>, settings' = settings \/ settings' \in Issuers,
           ~q.lock, q.pc \notin {"idle", "rotate", "account", "failed", "lost"},
           q.pc = "done" => q.op \in {"adminToken", "settings"},
           q.op \notin {"logout", "oidc", "start"},
           q.op = "refresh" => q.tok \in tokens /\ Session(q.tok),
           q.op \in {"login", "refresh"} => Exists(q.email) /\ q.role = users[q.email].role,
           q.op = "login" => users[q.email].pw = q.pw /\ users[q.email].provider = "local",
           q.op = "password" => q.next \in Passwords /\ Exists(q.email),
           q.op = "adminToken" => {q.role, "superadmin"} \cap granted[q.email] # {}
    PROVE  IInv'
  <1>1. /\ req[r].pc = "idle" /\ ~Over(r) /\ ~Done(r) /\ ~InFlight(r) /\ api = "up"
        /\ req' \in [Requests -> Request]
        /\ req'[r].op = q.op /\ req'[r].pc = q.pc /\ req'[r].email = q.email /\ req'[r].role = q.role
        /\ req'[r].tok = q.tok /\ req'[r].pw = q.pw /\ req'[r].next = q.next
        /\ req'[r].issuer = q.issuer /\ req'[r].subject = q.subject /\ req'[r].lock = q.lock
        /\ req'[r].crossed = q.crossed
        /\ req'[r].before = {k \in Requests : Over(k)} /\ req'[r].held = {users[q.email]}
        /\ \A k \in Requests : k # r => req'[k] = req[k]
    BY BeginStep
  <1>2. /\ TableTypes /\ LocalTypes /\ TokenInv /\ AccountInv /\ CacheInv
        /\ q.email \in Emails
    BY Parts DEF Request
  <1>3. \A k \in Requests : k # r => Kept(k)
    BY <1>1, SameIsKept
  <1>11. \A k \in Requests : Over(k) => Kept(k)
    BY <1>1, <1>3
  <1>4. TableTypes'
    BY <1>1, <1>2 DEF TableTypes, InFlight
  <1>5. LocalTypes'
    BY <1>1, <1>2, ZenonT(60) DEF LocalTypes, TableTypes
  <1>6. AccountInv'
    BY <1>2 DEF AccountInv, Exists
  <1>7. TokenInv'
    BY <1>1, <1>3, TokenFrame DEF Committed, Outcomes
  <1>8. CacheInv'
    BY <1>1, <1>3, CacheFrame DEF Caching
  <1>9. RequestInv(r)'
    <2>1. RefersInv(r)'
      <3>1. q.op = "refresh" => q.tok \in Requests /\ Session(q.tok)
        BY <1>2 DEF TokenInv
      <3>2. q.op = "refresh" => Session(q.tok)'
        BY <1>11, <3>1, OverStays
      <3>3. \A k \in req'[r].before : Over(k)'
        BY <1>1, <1>11, OverStays
      <3>4. req'[r].op = "refresh" => req'[r].tok \in Requests /\ Session(req[r].tok)'
        BY <1>1, <3>1, <3>2 DEF Session, Issued, Committed, Done
      <3> QED  BY <1>1, <3>3, <3>4 DEF RefersInv
    <2>2. RefusedInv(r)'
      <3> SUFFICES ASSUME q.op = "refresh", NEW k \in Requests, Over(k), Spent(req[r].tok, k)'
                   PROVE  FALSE
        BY <1>1 DEF RefusedInv
      <3>1. PICK t \in Requests : t = q.tok /\ Session(t) /\ t \in tokens
        BY <1>2 DEF TokenInv
      <3>2. Spent(t, k)'
        BY <1>1, <3>1 DEF Spent
      <3>3. Spent(t, k)
        BY <1>11, <3>1, <3>2, OverStays
      <3> QED  BY <1>2, <3>1, <3>3 DEF TokenInv, TokensAccountedFor
    <2>3. HeldInv(r)'
      BY <1>1 DEF HeldInv, HasRole
    <2>4. RoleInv(r)'
      <3>1. q.op \in {"login", "refresh"} => q.role \in granted[q.email]
        BY <1>2 DEF AccountInv
      <3> QED  BY <1>1, <3>1 DEF RoleInv, HasRole, Done, Exists
    <2>5. VerifiedInv(r)'
      BY <1>1 DEF VerifiedInv
    <2> QED  BY <2>1, <2>2, <2>3, <2>4, <2>5 DEF RequestInv
  <1>10. \A k \in Requests : RequestInv(k)'
    <2>1. \A e \in Emails : Exists(e) => Exists(e)'
      BY DEF Exists
    <2>2. \A k \in Requests : Kept(k) => RequestInv(k)'
      BY <1>11, <2>1, KeptRequest
    <2> QED  BY <1>3, <1>9, <2>2
  <1> QED  BY <1>4, <1>5, <1>6, <1>7, <1>8, <1>10, Parts

\* Whoever shows a token of a session or of the admin API has an account that has
\* had its role, or has been superadmin.
LEMMA BearerFacts ==
    ASSUME IInv, NEW c \in Requests, Bearer(c)
    PROVE  /\ req[c].email \in Emails /\ Exists(req[c].email)
           /\ {req[c].role, "superadmin"} \cap granted[req[c].email] # {}
  <1>1. RoleInv(c) /\ AccountInv /\ req[c].email \in Emails
    BY Parts DEF RequestInv, LocalTypes, Request
  <1>2. {req[c].role, "superadmin"} \cap granted[req[c].email] # {}
    BY <1>1 DEF RoleInv, HasRole, Bearer, Parse, Session, Issued, Authenticate, Done
  <1> QED  BY <1>1, <1>2 DEF AccountInv

\* Login.
LEMMA LoginInvariant ==
    ASSUME IInv, NEW r \in Requests, NEW e \in Emails, NEW pw \in Passwords, Login(r, e, pw)
    PROVE  IInv'
  <1> DEFINE q == [NoRequest EXCEPT !.op = "login", !.pc = "issue", !.email = e, !.pw = pw,
                                    !.role = users[e].role]
  <1>1. Exists(e) /\ users[e].role \in Roles
    BY Parts, AccountTypes DEF Login, Exists, NoAccount, TableTypes
  <1>2. Begin(r, q) /\ UNCHANGED <<users, tokens, settings, cache, api, granted>>
    BY DEF Login
  <1>3. q \in Request
    BY <1>1, NoRequestType DEF Request, Ops
  <1>4. /\ q.op = "login" /\ q.pc = "issue" /\ q.email = e /\ q.pw = pw /\ q.role = users[e].role
        /\ ~q.lock
    BY DEF NoRequest
  <1>5. users[e].provider = "local" /\ users[e].pw = pw
    BY DEF Login
  <1> HIDE DEF q
  <1> QED  BY <1>1, <1>2, <1>3, <1>4, <1>5, BeginInvariant

\* Refresh reads a token that has its row and the role its account has now.
LEMMA RefreshInvariant ==
    ASSUME IInv, NEW r \in Requests, NEW t \in Requests, Refresh(r, t)
    PROVE  IInv'
  <1> DEFINE e == req[t].email
             q == [NoRequest EXCEPT !.op = "refresh", !.pc = "delete", !.tok = t, !.email = e, !.role = users[e].role]
  <1>1. t \in tokens /\ Session(t) /\ Bearer(t)
    BY DEF Refresh, Bearer, Parse
  <1>2. e \in Emails /\ Exists(e)
    BY <1>1, BearerFacts
  <1>3. users[e].role \in Roles
    BY <1>2, Parts, AccountTypes DEF TableTypes, Exists
  <1>4. Begin(r, q) /\ UNCHANGED <<users, tokens, settings, cache, api, granted>>
    BY DEF Refresh
  <1>5. t \in 0..N
    BY RequestsBound DEF Requests
  <1> HIDE DEF e
  <1>6. q \in Request
    BY <1>2, <1>3, <1>5, NoRequestType DEF Request, Ops
  <1>7. /\ q.op = "refresh" /\ q.pc = "delete" /\ q.tok = t /\ q.email = e /\ q.role = users[e].role
        /\ ~q.lock
    BY DEF NoRequest
  <1> HIDE DEF q
  <1> QED  BY <1>1, <1>2, <1>4, <1>6, <1>7, BeginInvariant

\* Requests of a bearer: the end of all sessions, a new password, an admin API token.
LEMMA BearerInvariant ==
    ASSUME IInv, NEW r \in Requests, NEW c \in Requests
    PROVE  /\ LogoutAll(r, c) => IInv'
           /\ \A pw \in Passwords, next \in Passwords : ChangePassword(r, c, pw, next) => IInv'
           /\ \A role \in Roles : CreateAdminToken(r, c, role) => IInv'
  <1> DEFINE e == req[c].email
  <1>1. ASSUME LogoutAll(r, c) PROVE IInv'
    <2> DEFINE q == [NoRequest EXCEPT !.op = "logoutAll", !.pc = "revoke", !.email = e]
    <2>1. e \in Emails
      BY <1>1, BearerFacts DEF LogoutAll
    <2>2. Begin(r, q) /\ UNCHANGED <<users, tokens, settings, cache, api, granted>>
      BY <1>1 DEF LogoutAll
    <2> HIDE DEF e
    <2>3. q \in Request
      BY <2>1, NoRequestType DEF Request, Ops
    <2>4. q.op = "logoutAll" /\ q.pc = "revoke" /\ ~q.lock
      BY DEF NoRequest
    <2> HIDE DEF q
    <2> QED  BY <2>2, <2>3, <2>4, BeginInvariant
  <1>2. ASSUME NEW pw \in Passwords, NEW next \in Passwords, ChangePassword(r, c, pw, next) PROVE IInv'
    <2> DEFINE q == [NoRequest EXCEPT !.op = "password", !.pc = "update", !.email = e, !.pw = pw, !.next = next]
    <2>1. e \in Emails /\ Exists(e)
      BY <1>2, BearerFacts DEF ChangePassword
    <2>2. Begin(r, q) /\ UNCHANGED <<users, tokens, settings, cache, api, granted>>
      BY <1>2 DEF ChangePassword
    <2> HIDE DEF e
    <2>3. q \in Request
      BY <2>1, NoRequestType DEF Request, Ops
    <2>4. q.op = "password" /\ q.pc = "update" /\ q.next = next /\ q.email = e /\ ~q.lock
      BY DEF NoRequest
    <2> HIDE DEF q
    <2> QED  BY <2>1, <2>2, <2>3, <2>4, BeginInvariant
  <1>3. ASSUME NEW role \in Roles, CreateAdminToken(r, c, role) PROVE IInv'
    <2> DEFINE q == [NoRequest EXCEPT !.op = "adminToken", !.pc = "done", !.email = e, !.role = role]
    <2>1. e \in Emails /\ {req[c].role, "superadmin"} \cap granted[e] # {}
      BY <1>3, BearerFacts DEF CreateAdminToken
    <2>2. {role, "superadmin"} \cap granted[e] # {}
      BY <1>3, <2>1 DEF CreateAdminToken, MayCreate
    <2>3. Begin(r, q) /\ UNCHANGED <<users, tokens, settings, cache, api, granted>>
      BY <1>3 DEF CreateAdminToken
    <2> HIDE DEF e
    <2>4. q \in Request
      BY <2>1, NoRequestType DEF Request, Ops
    <2>5. /\ q.op = "adminToken" /\ q.pc = "done" /\ q.role = role /\ q.email = e /\ ~q.lock
      BY DEF NoRequest
    <2> HIDE DEF q
    <2> QED  BY <2>2, <2>3, <2>4, <2>5, BeginInvariant
  <1> QED  BY <1>1, <1>2, <1>3

\* A change of the OIDC settings.
LEMMA SettingsInvariant ==
    ASSUME IInv, NEW r \in Requests, NEW i \in Issuers, UpdateOIDCSettings(r, i)
    PROVE  IInv'
  <1> DEFINE q == [NoRequest EXCEPT !.op = "settings", !.pc = "done"]
  <1>1. Begin(r, q) /\ UNCHANGED <<users, tokens, cache, api, granted>> /\ settings' \in Issuers
    BY DEF UpdateOIDCSettings
  <1>2. q \in Request
    BY NoRequestType DEF Request, Ops
  <1>3. q.op = "settings" /\ q.pc = "done" /\ ~q.lock
    BY DEF NoRequest
  <1> HIDE DEF q
  <1> QED  BY <1>1, <1>2, <1>3, BeginInvariant

\* Start and Callback go on with the settings they have read; they cross the logins
\* under way that have read others.
LEMMA ReadsInvariant ==
    ASSUME IInv, NEW r \in Requests, NEW i \in Issuers, NEW q \in Request, ReadsSettings(r, q, i),
           q.op \in {"oidc", "start"}, ~q.lock
    PROVE  IInv'
  <1> DEFINE others == {k \in Requests : Caching(k) /\ req[k].issuer # i}
             c == others # {}
             before == {k \in Requests : Over(k)}
             held == {users[q.email]}
             started == [q EXCEPT !.pc = "ensure", !.issuer = i, !.crossed = c]
             new == [started EXCEPT !.before = before, !.held = held]
             Crosses(x) == [x EXCEPT !.crossed = TRUE]
  <1>1. /\ api = "up" /\ req[r].pc = "idle" /\ ~Over(r) /\ ~Caching(r)
        /\ UNCHANGED <<users, tokens, settings, cache, api, granted>>
    BY DEF ReadsSettings, Arrives, Over, Caching
  <1>2. req' = [k \in Requests |-> IF k = r THEN new ELSE IF k \in others THEN Crosses(req[k]) ELSE req[k]]
    <2>1. started.email = q.email
      BY DEF Request
    <2>2. Arrived(started) = new
      BY <2>1 DEF Arrived, Over, Outcomes
    <2> QED  BY <2>2 DEF ReadsSettings
  <1>3. TableTypes /\ LocalTypes /\ AccountInv /\ CacheInv /\ q.email \in Emails
    BY Parts DEF Request
  <1>4. before \in SUBSET Requests /\ held \in SUBSET (Account \cup {NoAccount}) /\ c \in BOOLEAN
    BY <1>3 DEF TableTypes
  <1> HIDE DEF before, held, c
  <1>5. new \in Request
    <2>1. started \in Request
      BY <1>4, ZenonT(60) DEF Request
    <2> HIDE DEF started
    <2> QED  BY <1>4, <2>1, ZenonT(60) DEF Request
  <1>6. /\ new.op = q.op /\ new.pc = "ensure" /\ new.issuer = i /\ ~new.lock /\ new.crossed = c
        /\ new.before = before
    BY DEF Request
  <1>7. ASSUME NEW x \in Request
        PROVE  /\ Crosses(x) \in Request /\ Crosses(x).crossed
               /\ Crosses(x).op = x.op /\ Crosses(x).pc = x.pc /\ Crosses(x).email = x.email
               /\ Crosses(x).role = x.role /\ Crosses(x).tok = x.tok /\ Crosses(x).pw = x.pw
               /\ Crosses(x).next = x.next /\ Crosses(x).issuer = x.issuer /\ Crosses(x).subject = x.subject
               /\ Crosses(x).lock = x.lock /\ Crosses(x).before = x.before /\ Crosses(x).held = x.held
    <2>1. Crosses(x) \in Request
      BY ZenonT(60) DEF Request
    <2> QED  BY <2>1 DEF Request
  <1> HIDE DEF new, Crosses
  <1>8. req'[r] = new
    BY <1>2
  <1>9. ASSUME NEW k \in Requests, k # r
        PROVE  req'[k] \in Request /\ Kept(k) /\ (k \in others => req'[k].crossed)
    <2>1. req[k] \in Request
      BY <1>3 DEF LocalTypes
    <2>2. CASE k \in others
      <3>1. req'[k] = Crosses(req[k])
        BY <1>2, <1>9, <2>2
      <3> QED  BY <1>7, <2>1, <3>1 DEF Kept
    <2>3. CASE k \notin others
      <3>1. req'[k] = req[k]
        BY <1>2, <1>9, <2>3
      <3> QED  BY <2>1, <2>3, <3>1, SameIsKept
    <2> QED  BY <2>2, <2>3
  <1>10. req' \in [Requests -> Request]
    <2>1. req' = [k \in Requests |-> req'[k]]
      BY <1>2
    <2> QED  BY <1>5, <1>8, <1>9, <2>1
  <1>11. (\A k \in Requests : k # r => Kept(k)) /\ (\A k \in Requests : Over(k) => Kept(k))
    BY <1>1, <1>9
  <1>12. TableTypes' /\ AccountInv'
    BY <1>1, <1>3 DEF TableTypes, AccountInv, Exists
  <1>13. LocalTypes'
    BY <1>1, <1>3, <1>6, <1>8, <1>10, <1>11 DEF LocalTypes, Kept
  <1>14. TokenInv'
    BY <1>1, <1>6, <1>8, <1>11, TokenFrame DEF Committed, Outcomes
  <1>15. CacheInv'
    <2>1. ASSUME NEW k \in Requests, k # r, Caching(k)'
          PROVE  /\ Caching(k) /\ req'[k].issuer = req[k].issuer /\ req'[k].op = req[k].op
                 /\ req'[k].pc = req[k].pc /\ (req[k].crossed => req'[k].crossed)
                 /\ req[k].issuer # i => req'[k].crossed /\ c
      <3>1. Kept(k)
        BY <1>11, <2>1
      <3>2. Caching(k)
        BY <2>1, <3>1 DEF Caching, Kept
      <3>3. req[k].issuer # i => k \in others
        BY <3>2
      <3> QED  BY <1>9, <2>1, <3>1, <3>2, <3>3 DEF Kept, c
    <2>2. ASSUME NEW j \in Requests, NEW k \in Requests, Caching(j)', Caching(k)',
                 req'[j].issuer # req'[k].issuer
          PROVE  req'[j].crossed
      <3>1. CASE j # r /\ k # r
        BY <1>3, <2>1, <2>2, <3>1 DEF CacheInv
      <3>2. CASE j = r /\ k # r
        BY <1>6, <1>8, <2>1, <2>2, <3>2
      <3>3. CASE j # r /\ k = r
        BY <1>6, <1>8, <2>1, <2>2, <3>3
      <3>4. CASE j = r /\ k = r
        BY <2>2, <3>4
      <3> QED  BY <3>1, <3>2, <3>3, <3>4
    <2>3. ASSUME NEW k \in Requests, req'[k].op = "oidc", req'[k].pc = "verify"
          PROVE  cache' \in Issuers /\ (req'[k].crossed \/ cache' = req'[k].issuer)
      <3>1. k # r /\ Caching(k)'
        BY <1>6, <1>8, <2>3 DEF Caching
      <3> QED  BY <1>1, <1>3, <2>1, <2>3, <3>1 DEF CacheInv
    <2> QED  BY <2>2, <2>3 DEF CacheInv
  <1>16. RequestInv(r)'
    <2>1. \A k \in before : Over(k)'
      BY <1>11, OverStays DEF before
    <2>2. RefersInv(r)'
      BY <1>6, <1>8, <2>1 DEF RefersInv
    <2> QED  BY <1>6, <1>8, <2>2 DEF RequestInv, RefusedInv, HeldInv, RoleInv, VerifiedInv, HasRole, Done
  <1>17. \A k \in Requests : RequestInv(k)'
    <2>1. \A e \in Emails : granted[e] \subseteq granted'[e]
      <3>1. granted' = granted
        BY <1>1
      <3> QED  BY <3>1
    <2>2. \A e \in Emails : Exists(e) => Exists(e)'
      BY <1>1 DEF Exists
    <2>3. \A k \in Requests : Kept(k) => RequestInv(k)'
      BY <1>11, <2>1, <2>2, KeptRequest
    <2> QED  BY <1>11, <1>16, <2>3
  <1> QED  BY <1>12, <1>13, <1>14, <1>15, <1>17, Parts

\* The start of a login and its callback.
LEMMA CallbackInvariant ==
    ASSUME IInv, NEW r \in Requests, NEW i \in Issuers, Start(r, i) \/ Callback(r, i)
    PROVE  IInv'
  <1> DEFINE Q(op) == [NoRequest EXCEPT !.op = op]
  <1>1. ASSUME NEW op \in {"oidc", "start"}
        PROVE  Q(op) \in Request /\ Q(op).op = op /\ ~Q(op).lock
    BY NoRequestType DEF NoRequest, Request, Ops
  <1>2. ReadsSettings(r, Q("oidc"), i) \/ ReadsSettings(r, Q("start"), i)
    BY DEF Start, Callback
  <1> HIDE DEF Q
  <1> QED  BY <1>1, <1>2, ReadsInvariant

\* A logout deletes the row of its token, unless a Refresh has deleted it already.
LEMMA LogoutInvariant ==
    ASSUME IInv, NEW r \in Requests, NEW t \in Requests, NEW o \in Outcomes, Logout(r, t, o)
    PROVE  IInv'
  <1> DEFINE q == [NoRequest EXCEPT !.op = "logout", !.pc = o, !.tok = t, !.email = req[t].email]
  <1>1. /\ t # r /\ Session(t) /\ ~Locked(t) /\ Begin(r, q) /\ tokens' = tokens \ {t}
        /\ UNCHANGED <<users, settings, cache, api, granted>>
    BY DEF Logout
  <1>2. /\ TableTypes /\ LocalTypes /\ TokenInv /\ AccountInv /\ req[t].email \in Emails /\ t \in 0..N
    BY Parts, RequestsBound DEF LocalTypes, Request, Requests
  <1>3. q \in Request
    BY <1>2, NoRequestType DEF Request, Ops, Outcomes
  <1>4. q.op = "logout" /\ q.pc = o /\ q.tok = t /\ ~q.lock
    BY DEF NoRequest
  <1> HIDE DEF q
  <1>5. /\ req[r].pc = "idle" /\ ~Over(r) /\ ~Done(r) /\ api = "up"
        /\ req' \in [Requests -> Request]
        /\ req'[r].op = "logout" /\ req'[r].pc = o /\ req'[r].tok = t
        /\ ~req'[r].lock
        /\ req'[r].before = {k \in Requests : Over(k)}
        /\ \A k \in Requests : k # r => req'[k] = req[k]
    BY <1>1, <1>3, <1>4, BeginStep
  <1>6. \A k \in Requests : k # r => Kept(k)
    BY <1>5, SameIsKept
  <1>7. \A k \in Requests : Over(k) => Kept(k)
    BY <1>5, <1>6
  <1>9. TableTypes' /\ LocalTypes' /\ AccountInv'
    BY <1>1, <1>2, <1>5 DEF TableTypes, InFlight, Outcomes, LocalTypes, AccountInv, Exists
  <1>10. CacheInv'
    BY <1>1, <1>5, <1>6, CacheFrame DEF Caching
  <1>11. RequestInv(r)'
    <2>1. Session(t)'
      BY <1>1, <1>7, OverStays
    <2>2. \A k \in req'[r].before : Over(k)'
      BY <1>5, <1>7, OverStays
    <2>3. RefersInv(r)'
      BY <1>5, <2>1, <2>2 DEF RefersInv, Session, Done
    <2> QED  BY <1>5, <2>3 DEF RequestInv, RefusedInv, HeldInv, RoleInv, VerifiedInv, HasRole
  <1>12. \A k \in Requests : RequestInv(k)'
    <2>1. \A e \in Emails : Exists(e) => Exists(e)'
      BY <1>1 DEF Exists
    <2>2. \A e \in Emails : granted[e] \subseteq granted'[e]
      BY <1>1
    <2>3. \A k \in Requests : Kept(k) => RequestInv(k)'
      BY <1>7, <2>1, <2>2, KeptRequest
    <2> QED  BY <1>6, <1>11, <2>3
  <1>13. TokenInv'
    <2>1. \A k \in Requests : (Session(k)' <=> Session(k)) /\ (Issued(k)' <=> Issued(k))
      BY <1>5 DEF Session, Issued, Committed, Outcomes, Done
    <2>2. ASSUME NEW u \in Requests, Session(u)
          PROVE  /\ \A k \in Requests : k # r => (Spent(u, k)' <=> Spent(u, k))
                 /\ ~Spent(u, r) /\ (Spent(u, r)' <=> u = t)
      <3>1. u # r
        BY <1>5, <2>2 DEF Session, Done
      <3>2. req'[u] = req[u]
        BY <1>5, <3>1
      <3> QED  BY <1>5, <3>2 DEF Spent, Committed, Outcomes
    <2>3. TokensAccountedFor'
      <3> SUFFICES ASSUME NEW u \in Requests, Session(u)
                   PROVE  u \in tokens' <=> ~\E k \in Requests : Spent(u, k)'
        BY <2>1 DEF TokensAccountedFor
      <3>1. u \in tokens <=> ~\E k \in Requests : Spent(u, k)
        BY <1>2 DEF TokenInv, TokensAccountedFor
      <3>2. CASE u = t
        BY <1>1, <2>2, <3>2
      <3>3. CASE u # t
        BY <1>1, <2>2, <3>1, <3>3
      <3> QED  BY <3>2, <3>3
    <2>4. LockInv'
      BY <1>1, <1>2, <1>5 DEF TokenInv, LockInv, Outcomes
    <2>5. \A k \in Requests : req'[k].lock => req[k].lock /\ req[k].tok # t /\ req'[k] = req[k]
      BY <1>1, <1>5 DEF Locked
    <2> QED  BY <1>1, <1>2, <2>1, <2>3, <2>4, <2>5 DEF TokenInv
  <1> QED  BY <1>9, <1>10, <1>12, <1>13, Parts
-----------------------------------------------------------------------------
(* Requests that go on.                                                    *)

\* The account that request r writes becomes one that has had the account's role,
\* and the requests of that account see it.
LEMMA WriteAccountStep ==
    ASSUME IInv, NEW e \in Emails, NEW account \in Account, NEW r \in Requests, NEW q \in Request,
           WriteAccount(e, account, r, q), ~Over(r)
    PROVE  /\ AccountInv' /\ users' \in [Emails -> Account \cup {NoAccount}]
           /\ granted' \in [Emails -> SUBSET Roles]
           /\ \A f \in Emails : granted[f] \subseteq granted'[f] /\ (Exists(f) => Exists(f)')
           /\ account.role \in granted'[e]
           /\ req' \in [Requests -> Request]
           /\ req'[r].op = q.op /\ req'[r].pc = q.pc /\ req'[r].email = q.email /\ req'[r].role = q.role
           /\ req'[r].tok = q.tok /\ req'[r].pw = q.pw /\ req'[r].next = q.next
           /\ req'[r].issuer = q.issuer /\ req'[r].subject = q.subject /\ req'[r].lock = q.lock
           /\ req'[r].before = q.before /\ req'[r].crossed = q.crossed
           /\ q.email = e => account \in req'[r].held
           /\ \A k \in Requests : k # r => Kept(k)
           /\ \A k \in Requests : req'[k].crossed = IF k = r THEN q.crossed ELSE req[k].crossed
  <1>1. /\ users \in [Emails -> Account \cup {NoAccount}] /\ granted \in [Emails -> SUBSET Roles]
        /\ req \in [Requests -> Request] /\ AccountInv
    BY Parts DEF TableTypes, LocalTypes
  <1>2. /\ users' = [users EXCEPT ![e] = account]
        /\ granted' = [granted EXCEPT ![e] = @ \cup {account.role}]
        /\ account # NoAccount /\ account.role \in Roles
    BY AccountTypes DEF WriteAccount
  <1>3. \A f \in Emails : granted[f] \subseteq granted'[f] /\ (Exists(f) => Exists(f)')
    BY <1>1, <1>2 DEF Exists
  <1>4. AccountInv'
    BY <1>1, <1>2 DEF AccountInv, Exists
  <1>5. users' \in [Emails -> Account \cup {NoAccount}] /\ granted' \in [Emails -> SUBSET Roles]
        /\ account.role \in granted'[e]
    BY <1>1, <1>2
  <1> DEFINE Now(k) == IF k = r THEN q ELSE req[k]
             Sees(x) == [x EXCEPT !.held = x.held \cup {account}]
  <1>6. \A k \in Requests : req'[k] = IF (InFlight(k) \/ k = r) /\ Now(k).email = e
                                       THEN Sees(Now(k)) ELSE Now(k)
    BY DEF WriteAccount
  <1>7. \A k \in Requests : Now(k) \in Request
    BY <1>1
  <1>8. ASSUME NEW x \in Request
        PROVE  /\ Sees(x) \in Request /\ Sees(x).held = x.held \cup {account}
               /\ Sees(x).op = x.op /\ Sees(x).pc = x.pc /\ Sees(x).email = x.email /\ Sees(x).role = x.role
               /\ Sees(x).tok = x.tok /\ Sees(x).pw = x.pw /\ Sees(x).next = x.next
               /\ Sees(x).issuer = x.issuer /\ Sees(x).subject = x.subject /\ Sees(x).lock = x.lock
               /\ Sees(x).before = x.before /\ Sees(x).crossed = x.crossed
    <2>1. x.held \cup {account} \in SUBSET (Account \cup {NoAccount})
      BY DEF Request
    <2> QED  BY <2>1 DEF Request
  <1>9. req' = [k \in Requests |-> req'[k]]
    BY DEF WriteAccount
  <1> HIDE DEF Sees
  <1>10. \A k \in Requests : req'[k] \in Request
    BY <1>6, <1>7, <1>8
  <1>11. req' \in [Requests -> Request]
    BY <1>9, <1>10
  <1>12. \A k \in Requests : k # r => req'[k] = req[k] \/ req'[k] = Sees(req[k])
    BY <1>6
  <1>13. \A k \in Requests : k # r => Kept(k)
    BY <1>1, <1>8, <1>12 DEF Kept
  <1>14. \A k \in Requests : k # r => req'[k].crossed = req[k].crossed
    BY <1>1, <1>8, <1>12
  <1>15. req'[r] = IF q.email = e THEN Sees(q) ELSE q
    BY <1>6
  <1>16. /\ req'[r].op = q.op /\ req'[r].pc = q.pc /\ req'[r].email = q.email /\ req'[r].role = q.role
         /\ req'[r].tok = q.tok /\ req'[r].pw = q.pw /\ req'[r].next = q.next
         /\ req'[r].issuer = q.issuer /\ req'[r].subject = q.subject /\ req'[r].lock = q.lock
         /\ req'[r].before = q.before /\ req'[r].crossed = q.crossed
         /\ q.email = e => account \in req'[r].held
    BY <1>8, <1>15
  <1> QED  BY <1>3, <1>4, <1>5, <1>11, <1>13, <1>14, <1>16

\* A write of an account ends its request, or leads a callback to its session with
\* the role that was written.
LEMMA WriteInvariant ==
    ASSUME IInv, NEW e \in Emails, NEW account \in Account, NEW r \in Requests, NEW q \in Request,
           WriteAccount(e, account, r, q), ~Over(r), api = "up",
           UNCHANGED <<tokens, settings, cache, api>>, ~q.lock, \A k \in q.before : Over(k),
           \/ q.op \in {"role", "password"} /\ q.pc = "done" /\ q.next \in Passwords \cup {"none"}
              /\ (q.op = "password" => q.next \in Passwords)
           \/ /\ req[r].op = "oidc" /\ req[r].pc = "account" /\ q.op = "oidc" /\ q.pc = "issue"
              /\ q.email = e /\ q.role = account.role /\ q.crossed = req[r].crossed
              /\ q.issuer = req[r].issuer /\ q.subject = req[r].subject
    PROVE  IInv'
  <1>1. /\ AccountInv' /\ users' \in [Emails -> Account \cup {NoAccount}]
        /\ granted' \in [Emails -> SUBSET Roles]
        /\ \A f \in Emails : granted[f] \subseteq granted'[f] /\ (Exists(f) => Exists(f)')
        /\ account.role \in granted'[e]
        /\ req' \in [Requests -> Request]
        /\ req'[r].op = q.op /\ req'[r].pc = q.pc /\ req'[r].email = q.email /\ req'[r].role = q.role
        /\ req'[r].tok = q.tok /\ req'[r].pw = q.pw /\ req'[r].next = q.next
        /\ req'[r].issuer = q.issuer /\ req'[r].subject = q.subject /\ req'[r].lock = q.lock
        /\ req'[r].before = q.before /\ req'[r].crossed = q.crossed
        /\ q.email = e => account \in req'[r].held
        /\ \A k \in Requests : k # r => Kept(k)
        /\ \A k \in Requests : req'[k].crossed = IF k = r THEN q.crossed ELSE req[k].crossed
    BY WriteAccountStep
  <1>2. TableTypes /\ LocalTypes /\ RequestInv(r) /\ q.before \subseteq Requests
    BY Parts DEF Request
  <1>3. \A k \in Requests : Over(k) => Kept(k)
    BY <1>1
  <1>5. TableTypes'
    BY <1>1, <1>2 DEF TableTypes, InFlight
  <1>6. LocalTypes'
    <2>1. /\ req'[r].op \in {"oidc", "start"} => req'[r].issuer \in Issuers
          /\ req'[r].op = "oidc" => req'[r].pc # "account"
          /\ req'[r].op = "password" => req'[r].next \in Passwords
      BY <1>1, <1>2, AccountTypes DEF LocalTypes
    <2>2. \A k \in Requests : k # r =>
             /\ req'[k].op \in {"oidc", "start"} => req'[k].issuer \in Issuers
             /\ req'[k].op = "oidc" /\ req'[k].pc = "account" =>
                   req'[k].role \in Roles /\ req'[k].subject \in Issuers
             /\ req'[k].op = "password" => req'[k].next \in Passwords
      BY <1>1, <1>2 DEF LocalTypes, Kept
    <2> QED  BY <1>1, <2>1, <2>2 DEF LocalTypes
  <1>7. TokenInv'
    BY <1>1, TokenFrame DEF Committed, Outcomes
  <1>8. CacheInv'
    BY <1>1, CacheFrame DEF Caching
  <1>9. RequestInv(r)'
    <2>1. RefersInv(r)'
      <3>1. \A k \in req'[r].before : Over(k)'
        BY <1>1, <1>2, <1>3, OverStays
      <3> QED  BY <1>1, <3>1 DEF RefersInv
    <2>2. HeldInv(r)' /\ RoleInv(r)' /\ RefusedInv(r)'
      BY <1>1 DEF HeldInv, RoleInv, RefusedInv, HasRole, Done
    <2>3. VerifiedInv(r)'
      BY <1>1, <1>2 DEF RequestInv, VerifiedInv
    <2> QED  BY <2>1, <2>2, <2>3 DEF RequestInv
  <1>10. \A k \in Requests : RequestInv(k)'
    <2>1. /\ \A f \in Emails : granted[f] \subseteq granted'[f]
          /\ \A f \in Emails : Exists(f) => Exists(f)'
      BY <1>1
    <2>2. \A k \in Requests : Kept(k) => RequestInv(k)'
      BY <1>3, <2>1, KeptRequest
    <2> QED  BY <1>1, <1>9, <2>2
  <1> QED  BY <1>1, <1>5, <1>6, <1>7, <1>8, <1>10, Parts

\* UpdateRole, the UPDATE of ChangePassword and the transaction of LoginOIDC.
LEMMA AccountInvariant ==
    ASSUME IInv, NEW r \in Requests
    PROVE  /\ \A e \in Emails, role \in Roles : UpdateRole(r, e, role) => IInv'
           /\ ChangePasswordUpdate(r) => IInv'
           /\ LoginOIDC(r) => IInv'
  <1>1. TableTypes /\ LocalTypes /\ RequestInv(r)
    BY Parts
  <1>2. ASSUME NEW e \in Emails, NEW role \in Roles, UpdateRole(r, e, role) PROVE IInv'
    <2> DEFINE q == [NoRequest EXCEPT !.op = "role", !.pc = "done"]
               account == [users[e] EXCEPT !.role = role]
    <2>1. account \in Account
      <3>1. users[e] \in Account
        BY <1>1, <1>2 DEF UpdateRole, Exists, TableTypes
      <3> QED  BY <3>1 DEF Account
    <2>2. q \in Request
      BY NoRequestType DEF Request, Ops
    <2>3. q.op = "role" /\ q.pc = "done" /\ ~q.lock /\ q.before = {} /\ q.next = "none"
      BY DEF NoRequest
    <2>4. WriteAccount(e, account, r, q) /\ api = "up" /\ ~Over(r) /\ UNCHANGED <<tokens, settings, cache, api>>
      BY <1>2 DEF UpdateRole, Arrives, Over
    <2> HIDE DEF q, account
    <2> QED  BY <2>1, <2>2, <2>3, <2>4, WriteInvariant
  <1>3. ASSUME ChangePasswordUpdate(r) PROVE IInv'
    <2> DEFINE e == req[r].email
               q == Ended(req[r], "done")
               account == [users[e] EXCEPT !.pw = req[r].next, !.provider = "local"]
    <2>1. req[r] \in Request /\ req[r].op = "password" /\ req[r].pc = "update" /\ api = "up"
      BY <1>1, <1>3 DEF ChangePasswordUpdate, Step, LocalTypes
    <2>2. e \in Emails /\ Exists(e) /\ req[r].next \in Passwords
      BY <1>1, <2>1 DEF RequestInv, RoleInv, LocalTypes, Request
    <2>3. account \in Account
      <3>1. users[e] \in Account
        BY <1>1, <2>2 DEF Exists, TableTypes
      <3> QED  BY <2>2, <3>1 DEF Account
    <2>4. q \in Request
      BY <2>1 DEF Request, Ended
    <2>5. /\ q.op = "password" /\ q.pc = "done" /\ ~q.lock /\ q.before = req[r].before
          /\ q.next = req[r].next
      BY <2>1 DEF Request, Ended
    <2>6. \A k \in req[r].before : Over(k)
      BY <1>1 DEF RequestInv, RefersInv
    <2>7. WriteAccount(e, account, r, q) /\ ~Over(r) /\ UNCHANGED <<tokens, settings, cache, api>>
      BY <1>3, <2>1 DEF ChangePasswordUpdate, Over
    <2> HIDE DEF e, q, account
    <2> QED  BY <2>1, <2>2, <2>3, <2>4, <2>5, <2>6, <2>7, WriteInvariant
  <1>4. ASSUME LoginOIDC(r) PROVE IInv'
    <2> DEFINE e == req[r].email
               q == [req[r] EXCEPT !.pc = "issue"]
               account == OidcAccount(req[r])
    <2>1. req[r] \in Request /\ req[r].op = "oidc" /\ req[r].pc = "account" /\ api = "up" /\ e \in Emails
      BY <1>1, <1>4 DEF LoginOIDC, Step, LocalTypes, Request
    <2>2. account \in Account /\ account.role = req[r].role
      <3> DEFINE pw == IF Exists(e) THEN users[e].pw ELSE "random"
      <3>1. pw \in Passwords \cup {"random"}
        BY <1>1, <2>1, AccountTypes DEF TableTypes, Exists
      <3>2. account = [role |-> req[r].role, pw |-> pw, provider |-> req[r].issuer, subject |-> req[r].subject]
        BY DEF OidcAccount
      <3> HIDE DEF pw, account
      <3>3. req[r].role \in Roles /\ req[r].issuer \in Issuers /\ req[r].subject \in Issuers
        BY <1>1, <2>1 DEF LocalTypes
      <3> QED  BY <3>1, <3>2, <3>3 DEF Account
    <2>3. q \in Request
      BY <2>1 DEF Request
    <2>4. /\ q.op = "oidc" /\ q.pc = "issue" /\ q.lock = req[r].lock /\ q.before = req[r].before
          /\ q.email = e /\ q.role = req[r].role /\ q.crossed = req[r].crossed
          /\ q.issuer = req[r].issuer /\ q.subject = req[r].subject
      BY <2>1 DEF Request
    <2>5. ~req[r].lock
      BY <2>1, Parts DEF TokenInv
    <2>6. \A k \in req[r].before : Over(k)
      BY <1>1 DEF RequestInv, RefersInv
    <2>7. WriteAccount(e, account, r, q) /\ ~Over(r) /\ UNCHANGED <<tokens, settings, cache, api>>
      BY <1>4, <2>1 DEF LoginOIDC, Over
    <2> HIDE DEF e, q, account
    <2> QED  BY <2>1, <2>2, <2>3, <2>4, <2>5, <2>6, <2>7, WriteInvariant
  <1> QED  BY <1>2, <1>3, <1>4

\* What a step of a request under way leaves: all but its place and its lock.
LEMMA StepFields ==
    ASSUME IInv, NEW r \in Requests, NEW p, NEW l \in BOOLEAN,
           req' = [req EXCEPT ![r] = [req[r] EXCEPT !.pc = p, !.lock = l]],
           p \in {"verify", "issue", "rotate", "done", "failed", "lost"}
    PROVE  /\ req' \in [Requests -> Request]
           /\ req'[r].pc = p /\ req'[r].lock = l
           /\ req'[r].op = req[r].op /\ req'[r].email = req[r].email /\ req'[r].role = req[r].role
           /\ req'[r].tok = req[r].tok /\ req'[r].pw = req[r].pw /\ req'[r].next = req[r].next
           /\ req'[r].issuer = req[r].issuer /\ req'[r].subject = req[r].subject
           /\ req'[r].before = req[r].before /\ req'[r].held = req[r].held /\ req'[r].crossed = req[r].crossed
           /\ \A k \in Requests : k # r => req'[k] = req[k]
           /\ \A k \in Requests : k # r => Kept(k)
           /\ LocalTypes' \/ granted' # granted
  <1> DEFINE q == [req[r] EXCEPT !.pc = p, !.lock = l]
  <1>1. req \in [Requests -> Request] /\ req[r] \in Request /\ LocalTypes
    BY Parts DEF LocalTypes
  <1>2. q \in Request
    BY <1>1, ZenonT(60) DEF Request
  <1>3. /\ q.pc = p /\ q.lock = l
        /\ q.op = req[r].op /\ q.email = req[r].email /\ q.role = req[r].role
        /\ q.tok = req[r].tok /\ q.pw = req[r].pw /\ q.next = req[r].next
        /\ q.issuer = req[r].issuer /\ q.subject = req[r].subject
        /\ q.before = req[r].before /\ q.held = req[r].held /\ q.crossed = req[r].crossed
    BY <1>1 DEF Request
  <1> HIDE DEF q
  <1>4. req' \in [Requests -> Request] /\ req'[r] = q /\ \A k \in Requests : k # r => req'[k] = req[k]
    BY <1>1, <1>2 DEF q
  <1>5. \A k \in Requests : k # r => Kept(k)
    BY <1>4, SameIsKept
  <1>6. LocalTypes' \/ granted' # granted
    BY <1>1, <1>3, <1>4 DEF LocalTypes
  <1> QED  BY <1>3, <1>4, <1>5, <1>6

\* A step that keeps the tokens and the provider right keeps the invariant when what
\* was read is what the session will be made of.
LEMMA ProgressInvariant ==
    ASSUME IInv, NEW r \in Requests, NEW p, NEW l \in BOOLEAN,
           req' = [req EXCEPT ![r] = [req[r] EXCEPT !.pc = p, !.lock = l]],
           ~Over(r), api = "up", UNCHANGED <<users, settings, api, granted>>,
           cache' \in Issuers \cup {"none"}, TokenInv', CacheInv',
           \/ p = "failed"
           \/ p = "verify" /\ req[r].op = "oidc"
           \/ p = "rotate" /\ req[r].op = "refresh" /\ req[r].pc = "delete"
           \/ p \in Outcomes /\ req[r].op \in {"login", "oidc"} /\ req[r].pc = "issue"
           \/ p \in Outcomes /\ req[r].op = "refresh" /\ req[r].pc = "rotate"
           \/ p \in Outcomes /\ req[r].op \in {"logoutAll", "start"}
    PROVE  IInv'
  <1>1. p \in {"verify", "issue", "rotate", "done", "failed", "lost"}
    BY DEF Outcomes
  <1>2. /\ req' \in [Requests -> Request]
        /\ req'[r].pc = p /\ req'[r].lock = l
        /\ req'[r].op = req[r].op /\ req'[r].email = req[r].email /\ req'[r].role = req[r].role
        /\ req'[r].tok = req[r].tok /\ req'[r].pw = req[r].pw /\ req'[r].next = req[r].next
        /\ req'[r].issuer = req[r].issuer /\ req'[r].subject = req[r].subject
        /\ req'[r].before = req[r].before /\ req'[r].held = req[r].held /\ req'[r].crossed = req[r].crossed
        /\ \A k \in Requests : k # r => req'[k] = req[k]
        /\ \A k \in Requests : k # r => Kept(k)
        /\ LocalTypes'
    BY <1>1, StepFields
  <1>3. \A k \in Requests : Over(k) => Kept(k)
    BY <1>2
  <1>4. TableTypes' /\ AccountInv'
    BY <1>2, Parts DEF TableTypes, InFlight, AccountInv, Exists
  <1>5. RequestInv(r)'
    <2>1. CASE p = "failed"
      BY <1>2, <1>3, <2>1, FailedRequest
    <2>2. CASE p # "failed"
      <3>1. RequestInv(r) /\ req[r].before \subseteq Requests
        BY Parts DEF LocalTypes, Request
      <3>2. RefersInv(r)'
        BY <1>2, <1>3, <3>1, OverStays DEF RequestInv, RefersInv
      <3>3. (HasRole(r)' => HasRole(r)) /\ (Done(r)' => req[r].op # "adminToken")
        BY <1>2, <2>2 DEF HasRole, Outcomes, Done
      <3>4. RefusedInv(r)'
        <4> SUFFICES ASSUME req[r].op = "refresh", p \in {"rotate", "done"},
                            NEW k \in req[r].before, Spent(req[r].tok, k)'
                     PROVE  FALSE
          BY <1>1, <1>2 DEF RefusedInv
        <4>1. Over(k) /\ k \in Requests /\ req[r].tok \in Requests /\ Session(req[r].tok)
          BY <3>1 DEF RequestInv, RefersInv
        <4>2. PICK t \in Requests : t = req[r].tok /\ t = req'[r].tok
          BY <1>2, <4>1
        <4>3. Spent(t, k)'
          BY <4>2 DEF Spent
        <4>4. Spent(req[r].tok, k)
          BY <1>3, <4>1, <4>2, <4>3, OverStays
        <4>5. req[r].pc \in {"delete", "rotate", "done"}
          BY <2>2 DEF Outcomes
        <4> QED  BY <3>1, <4>4, <4>5 DEF RequestInv, RefusedInv
      <3>5. HeldInv(r)'
        BY <1>2, <3>1, <3>3 DEF RequestInv, HeldInv
      <3>6. RoleInv(r)'
        BY <1>1, <1>2, <3>1, <3>3 DEF RequestInv, RoleInv
      <3>7. VerifiedInv(r)'
        BY <1>2, <2>2, <3>1 DEF RequestInv, VerifiedInv, Outcomes
      <3> QED  BY <3>2, <3>4, <3>5, <3>6, <3>7 DEF RequestInv
    <2> QED  BY <2>1, <2>2
  <1>6. \A k \in Requests : RequestInv(k)'
    <2>1. \A e \in Emails : granted[e] \subseteq granted'[e]
      <3>1. granted' = granted
        OBVIOUS
      <3> QED  BY <3>1
    <2>2. \A e \in Emails : Exists(e) => Exists(e)'
      BY DEF Exists
    <2>3. \A k \in Requests : Kept(k) => RequestInv(k)'
      BY <1>3, <2>1, <2>2, KeptRequest
    <2> QED  BY <1>2, <1>5, <2>3
  <1> QED  BY <1>2, <1>4, <1>6, Parts

\* issueSession gives out a token that nobody has spent.
LEMMA IssueInvariant ==
    ASSUME IInv, NEW r \in Requests, NEW o \in Outcomes, IssueSession(r, o)
    PROVE  IInv'
  <1>1. /\ api = "up" /\ req[r].op \in {"login", "oidc"} /\ req[r].pc = "issue" /\ tokens' = tokens \cup {r}
        /\ req' = [req EXCEPT ![r] = [req[r] EXCEPT !.pc = o, !.lock = FALSE]]
        /\ UNCHANGED <<users, settings, cache, api, granted>>
    BY DEF IssueSession, Ended
  <1>2. /\ req'[r].pc = o /\ ~req'[r].lock /\ req'[r].op = req[r].op
        /\ req'[r].email = req[r].email
        /\ \A k \in Requests : k # r => req'[k] = req[k]
        /\ \A k \in Requests : k # r => Kept(k)
    BY <1>1, StepFields DEF Outcomes
  <1>3. /\ TokenInv /\ TableTypes /\ ~Over(r) /\ ~Session(r) /\ ~Issued(r)
        /\ \A k \in Requests : RefersInv(k)
    BY <1>1, Parts DEF Over, Session, Issued, Committed, Outcomes, Done, RequestInv
  <1>4. CacheInv'
    BY <1>1, <1>2, CacheFrame DEF Caching, Outcomes
  <1>5. TokenInv'
    <2>1. \A k \in Requests : /\ k # r => (Session(k)' <=> Session(k))
                              /\ Issued(k)' <=> Issued(k) \/ k = r
      BY <1>1, <1>2 DEF Session, Issued, Committed, Done
    <2>2. ASSUME NEW t \in Requests, Session(t) PROVE \A k \in Requests : Spent(t, k)' <=> Spent(t, k)
      <3>1. req'[t] = req[t]
        BY <1>2, <1>3, <2>2
      <3>2. ~Spent(t, r) /\ ~Spent(t, r)'
        BY <1>1, <1>2, <1>3 DEF Spent
      <3> QED  BY <1>2, <3>1, <3>2 DEF Spent, Committed
    <2>3. ASSUME NEW k \in Requests, Spent(r, k)' PROVE FALSE
      <3>1. k # r
        BY <1>1, <1>2, <2>3 DEF Spent
      <3>2. req'[k] = req[k] /\ RefersInv(k)
        BY <1>2, <1>3, <3>1
      <3>3. req[k].op \in {"refresh", "logout"} => req[k].tok # r
        BY <1>3, <3>2 DEF RefersInv
      <3>4. r \notin req[k].before
        BY <1>3, <3>2 DEF RefersInv
      <3> QED  BY <2>3, <3>2, <3>3, <3>4 DEF Spent
    <2>4. TokensAccountedFor'
      <3> SUFFICES ASSUME NEW t \in Requests, Session(t)'
                   PROVE  t \in tokens' <=> ~\E k \in Requests : Spent(t, k)'
        BY DEF TokensAccountedFor
      <3>1. CASE t = r
        BY <1>1, <2>3, <3>1
      <3>2. CASE t # r
        <4>1. Session(t)
          BY <2>1, <3>2
        <4>2. t \in tokens <=> ~\E k \in Requests : Spent(t, k)
          BY <1>3, <4>1 DEF TokenInv, TokensAccountedFor
        <4> QED  BY <1>1, <2>2, <3>2, <4>1, <4>2
      <3> QED  BY <3>1, <3>2
    <2>5. LockInv'
      <3> SUFFICES ASSUME NEW k \in Requests, req'[k].op = "refresh", req'[k].pc = "rotate", ~req'[k].lock
                   PROVE  req'[k].tok \notin tokens'
        BY DEF LockInv
      <3>1. k # r /\ req'[k] = req[k] /\ RefersInv(k)
        BY <1>2, <1>3 DEF Outcomes
      <3>2. req[k].tok # r /\ req[k].tok \notin tokens
        BY <1>3, <3>1 DEF RefersInv, TokenInv, LockInv
      <3> QED  BY <1>1, <3>1, <3>2
    <2>6. \A k \in Requests : req'[k].lock => k # r /\ req'[k] = req[k]
      BY <1>2
    <2> QED  BY <1>1, <1>3, <2>1, <2>4, <2>5, <2>6 DEF TokenInv
  <1>6. cache' \in Issuers \cup {"none"} /\ FALSE \in BOOLEAN
    BY <1>1, <1>3 DEF TableTypes
  <1> QED  BY <1>1, <1>3, <1>4, <1>5, <1>6, ProgressInvariant

\* The cached provider is not touched by the steps that do not go on towards it.
LEMMA StepCache ==
    ASSUME IInv, NEW r \in Requests, NEW p \in {"issue", "rotate", "done", "failed", "lost"}, NEW l \in BOOLEAN,
           req' = [req EXCEPT ![r] = [req[r] EXCEPT !.pc = p, !.lock = l]],
           cache' = cache
    PROVE  CacheInv'
  <1>1. req'[r].pc = p /\ \A k \in Requests : k # r => Kept(k)
    BY StepFields
  <1> QED  BY <1>1, CacheFrame DEF Caching

\* Refresh deletes the row of its token, and holds the lock if there was one.
LEMMA RefreshDeleteInvariant ==
    ASSUME IInv, NEW r \in Requests, RefreshDelete(r)
    PROVE  IInv'
  <1> DEFINE l == req[r].tok \in tokens
  <1>1. /\ api = "up" /\ req[r].op = "refresh" /\ req[r].pc = "delete" /\ ~Locked(req[r].tok)
        /\ req' = [req EXCEPT ![r] = [req[r] EXCEPT !.pc = "rotate", !.lock = l]]
        /\ UNCHANGED <<users, tokens, settings, cache, api, granted>>
    BY DEF RefreshDelete, Step
  <1>2. l \in BOOLEAN /\ (l <=> req[r].tok \in tokens)
    OBVIOUS
  <1> HIDE DEF l
  <1>3. /\ req'[r].pc = "rotate" /\ req'[r].lock = l /\ req'[r].op = "refresh"
        /\ req'[r].tok = req[r].tok
        /\ \A k \in Requests : k # r => req'[k] = req[k]
    BY <1>1, <1>2, StepFields
  <1>4. TokenInv /\ TableTypes /\ ~Over(r) /\ InFlight(r)
    BY <1>1, Parts DEF Over, InFlight
  <1>5. CacheInv'
    BY <1>1, <1>2, <1>4, StepCache
  <1>6. TokenInv'
    <2>1. \A k \in Requests : /\ Session(k)' <=> Session(k)
                              /\ Issued(k)' <=> Issued(k)
                              /\ Committed(k)' <=> Committed(k)
      BY <1>1, <1>3 DEF Session, Issued, Committed, Outcomes, Done
    <2>2. \A k \in Requests : Committed(k) => req'[k] = req[k]
      BY <1>1, <1>3 DEF Committed, Outcomes
    <2>3. \A t, k \in Requests : Session(t) => (Spent(t, k)' <=> Spent(t, k))
      BY <2>1, <2>2 DEF Spent, Session, Issued
    <2>4. TokensAccountedFor'
      BY <1>1, <1>4, <2>1, <2>3 DEF TokenInv, TokensAccountedFor
    <2>5. LockInv'
      BY <1>1, <1>2, <1>3, <1>4 DEF TokenInv, LockInv
    <2>6. \A k \in Requests : k # r /\ req'[k].lock => req'[k] = req[k] /\ req[k].tok # req[r].tok
      BY <1>1, <1>3 DEF Locked
    <2>7. \A i, k \in Requests : req'[i].lock /\ req'[k].lock /\ req'[i].tok = req'[k].tok => i = k
      BY <1>3, <1>4, <2>6 DEF TokenInv
    <2>8. \A k \in Requests : req'[k].lock =>
             req'[k].op = "refresh" /\ req'[k].pc = "rotate" /\ req'[k].tok \in tokens'
      BY <1>1, <1>2, <1>3, <1>4, <2>6 DEF TokenInv
    <2>9. tokens' \subseteq {k \in Requests : Issued(k)'}
      BY <1>1, <1>4, <2>1 DEF TokenInv
    <2> QED  BY <2>4, <2>5, <2>7, <2>8, <2>9 DEF TokenInv
  <1>7. cache' \in Issuers \cup {"none"}
    BY <1>1, <1>4 DEF TableTypes
  <1> QED  BY <1>1, <1>2, <1>4, <1>5, <1>6, <1>7, ProgressInvariant

\* The commit of a Refresh spends its token and gives out a new one.
LEMMA RefreshCommitInvariant ==
    ASSUME IInv, NEW r \in Requests, NEW o \in Outcomes, RefreshCommit(r, o)
    PROVE  IInv'
  <1> DEFINE old == req[r].tok
  <1>1. /\ api = "up" /\ req[r].op = "refresh" /\ req[r].pc = "rotate" /\ tokens' = (tokens \ {old}) \cup {r}
        /\ req' = [req EXCEPT ![r] = [req[r] EXCEPT !.pc = o, !.lock = FALSE]]
        /\ UNCHANGED <<users, settings, cache, api, granted>>
    BY DEF RefreshCommit, Step, Ended
  <1>2. /\ req'[r].pc = o /\ ~req'[r].lock /\ req'[r].op = "refresh" /\ req'[r].tok = old
        /\ \A k \in Requests : k # r => req'[k] = req[k]
    BY <1>1, StepFields DEF Outcomes
  <1>3. /\ TokenInv /\ TableTypes /\ ~Over(r) /\ ~Session(r) /\ ~Issued(r)
        /\ \A k \in Requests : RefersInv(k)
    BY <1>1, Parts DEF Over, Session, Issued, Committed, Outcomes, Done, RequestInv
  <1>4. CacheInv'
    BY <1>1, StepCache DEF Outcomes
  <1>5. old \in Requests /\ Session(old) /\ old # r
    BY <1>1, <1>3 DEF RefersInv
  <1> HIDE DEF old
  <1>6. TokenInv'
    <2>1. \A k \in Requests : /\ k # r => (Session(k)' <=> Session(k))
                              /\ Issued(k)' <=> Issued(k) \/ k = r
      BY <1>1, <1>2 DEF Session, Issued, Committed, Done
    <2>2. ASSUME NEW t \in Requests, Session(t)
          PROVE  /\ \A k \in Requests : k # r => (Spent(t, k)' <=> Spent(t, k))
                 /\ ~Spent(t, r) /\ (Spent(t, r)' <=> t = old)
      <3>1. req'[t] = req[t]
        BY <1>2, <1>3, <2>2
      <3>2. ~Spent(t, r) /\ (Spent(t, r)' <=> t = old)
        BY <1>1, <1>2 DEF Spent, Committed, Outcomes
      <3> QED  BY <1>2, <3>1, <3>2 DEF Spent, Committed
    <2>3. ASSUME NEW k \in Requests, Spent(r, k)' PROVE FALSE
      <3>1. k # r
        BY <1>2, <1>5, <2>3 DEF Spent
      <3>2. req'[k] = req[k] /\ RefersInv(k)
        BY <1>2, <1>3, <3>1
      <3>3. req[k].op \in {"refresh", "logout"} => req[k].tok # r
        BY <1>3, <3>2 DEF RefersInv
      <3>4. r \notin req[k].before
        BY <1>3, <3>2 DEF RefersInv
      <3> QED  BY <2>3, <3>2, <3>3, <3>4 DEF Spent
    <2>4. TokensAccountedFor'
      <3> SUFFICES ASSUME NEW t \in Requests, Session(t)'
                   PROVE  t \in tokens' <=> ~\E k \in Requests : Spent(t, k)'
        BY DEF TokensAccountedFor
      <3>1. CASE t = r
        BY <1>1, <2>3, <3>1
      <3>2. CASE t = old
        BY <1>1, <1>5, <2>2, <3>2
      <3>3. CASE t # r /\ t # old
        <4>1. Session(t)
          BY <2>1, <3>3
        <4>2. t \in tokens <=> ~\E k \in Requests : Spent(t, k)
          BY <1>3, <4>1 DEF TokenInv, TokensAccountedFor
        <4>3. t \in tokens' <=> t \in tokens
          BY <1>1, <3>3
        <4> QED  BY <2>2, <3>3, <4>1, <4>2, <4>3
      <3> QED  BY <3>1, <3>2, <3>3
    <2>5. LockInv'
      <3> SUFFICES ASSUME NEW k \in Requests, req'[k].op = "refresh", req'[k].pc = "rotate", ~req'[k].lock
                   PROVE  req'[k].tok \notin tokens'
        BY DEF LockInv
      <3>1. k # r /\ req'[k] = req[k] /\ RefersInv(k)
        BY <1>2, <1>3 DEF Outcomes
      <3>2. req[k].tok # r /\ req[k].tok \notin tokens
        BY <1>3, <3>1 DEF RefersInv, TokenInv, LockInv
      <3> QED  BY <1>1, <3>1, <3>2
    <2>6. ASSUME NEW k \in Requests, req'[k].lock PROVE k # r /\ req'[k] = req[k] /\ req[k].tok # old
      <3>1. k # r /\ req'[k] = req[k]
        BY <1>2, <2>6
      <3>2. CASE req[r].lock
        BY <1>3, <2>6, <3>1, <3>2 DEF TokenInv, old
      <3>3. CASE ~req[r].lock
        <4>1. old \notin tokens
          BY <1>1, <1>3, <3>3 DEF TokenInv, LockInv, old
        <4>2. req[k].tok \in tokens
          BY <1>3, <2>6, <3>1 DEF TokenInv
        <4> QED  BY <3>1, <4>1, <4>2
      <3> QED  BY <3>1, <3>2, <3>3
    <2>7. \A k \in Requests : req'[k].lock =>
             req'[k].op = "refresh" /\ req'[k].pc = "rotate" /\ req'[k].tok \in tokens'
      BY <1>1, <1>3, <2>6 DEF TokenInv
    <2>8. \A i, k \in Requests : req'[i].lock /\ req'[k].lock /\ req'[i].tok = req'[k].tok => i = k
      BY <1>3, <2>6 DEF TokenInv
    <2>9. tokens' \subseteq {k \in Requests : Issued(k)'}
      BY <1>1, <1>3, <2>1 DEF TokenInv
    <2> QED  BY <2>4, <2>5, <2>7, <2>8, <2>9 DEF TokenInv
  <1>7. cache' \in Issuers \cup {"none"} /\ FALSE \in BOOLEAN
    BY <1>1, <1>3 DEF TableTypes
  <1> QED  BY <1>1, <1>3, <1>4, <1>6, <1>7, ProgressInvariant

\* LogoutAll spends the tokens it sees, none of which a Refresh has locked.
LEMMA LogoutAllInvariant ==
    ASSUME IInv, NEW r \in Requests, NEW o \in Outcomes, LogoutAllDelete(r, o)
    PROVE  IInv'
  <1>1. /\ api = "up" /\ req[r].op = "logoutAll" /\ req[r].pc = "revoke"
        /\ \A t \in Visible(r) : ~Locked(t)
        /\ tokens' = tokens \ Visible(r)
        /\ req' = [req EXCEPT ![r] = [req[r] EXCEPT !.pc = o, !.lock = FALSE]]
        /\ UNCHANGED <<users, settings, cache, api, granted>>
    BY DEF LogoutAllDelete, Step, Ended
  <1>2. /\ req'[r].pc = o /\ ~req'[r].lock /\ req'[r].op = "logoutAll"
        /\ req'[r].email = req[r].email /\ req'[r].before = req[r].before
        /\ \A k \in Requests : k # r => req'[k] = req[k]
    BY <1>1, StepFields DEF Outcomes
  <1>3. TokenInv /\ TableTypes /\ ~Over(r)
    BY <1>1, Parts DEF Over
  <1>4. CacheInv'
    BY <1>1, StepCache DEF Outcomes
  <1>5. TokenInv'
    <2>1. \A k \in Requests : (Session(k)' <=> Session(k)) /\ (Issued(k)' <=> Issued(k))
      BY <1>1, <1>2 DEF Session, Issued, Committed, Outcomes, Done
    <2>2. ASSUME NEW t \in Requests, Session(t)
          PROVE  /\ \A k \in Requests : k # r => (Spent(t, k)' <=> Spent(t, k))
                 /\ ~Spent(t, r)
                 /\ Spent(t, r)' <=> req[r].email = req[t].email /\ t \in req[r].before
      <3>1. req'[t] = req[t]
        BY <1>1, <1>2, <2>2 DEF Session, Issued
      <3>2. ~Spent(t, r) /\ (Spent(t, r)' <=> req[r].email = req[t].email /\ t \in req[r].before)
        BY <1>1, <1>2, <3>1 DEF Spent, Committed, Outcomes
      <3> QED  BY <1>2, <3>1, <3>2 DEF Spent, Committed
    <2>3. TokensAccountedFor'
      <3> SUFFICES ASSUME NEW t \in Requests, Session(t)
                   PROVE  t \in tokens' <=> ~\E k \in Requests : Spent(t, k)'
        BY <2>1 DEF TokensAccountedFor
      <3>1. t \in tokens <=> ~\E k \in Requests : Spent(t, k)
        BY <1>3 DEF TokenInv, TokensAccountedFor
      <3>2. t \in tokens' <=> t \in tokens /\ ~(req[r].email = req[t].email /\ t \in req[r].before)
        BY <1>1 DEF Visible
      <3> QED  BY <2>2, <3>1, <3>2
    <2>4. LockInv'
      BY <1>1, <1>2, <1>3 DEF TokenInv, LockInv
    <2>5. ASSUME NEW k \in Requests, req'[k].lock
          PROVE  /\ req'[k] = req[k] /\ req[k].lock
                 /\ req[k].op = "refresh" /\ req[k].pc = "rotate" /\ req[k].tok \in tokens'
      <3>1. req'[k] = req[k] /\ req[k].lock
        BY <1>2, <2>5
      <3> QED  BY <1>1, <1>3, <3>1 DEF TokenInv, Locked
    <2>6. \A i, k \in Requests : req'[i].lock /\ req'[k].lock /\ req'[i].tok = req'[k].tok => i = k
      BY <1>3, <2>5 DEF TokenInv
    <2>7. tokens' \subseteq {k \in Requests : Issued(k)'}
      BY <1>1, <1>3, <2>1 DEF TokenInv
    <2>8. \A k \in Requests : req'[k].lock =>
             req'[k].op = "refresh" /\ req'[k].pc = "rotate" /\ req'[k].tok \in tokens'
      BY <2>5
    <2> QED  BY <2>3, <2>4, <2>6, <2>7, <2>8 DEF TokenInv
  <1>6. cache' \in Issuers \cup {"none"} /\ FALSE \in BOOLEAN
    BY <1>1, <1>3 DEF TableTypes
  <1> QED  BY <1>1, <1>3, <1>4, <1>5, <1>6, ProgressInvariant

\* A step of a request that has no lock neither takes one nor changes the tokens.
LEMMA StepTokens ==
    ASSUME IInv, NEW r \in Requests, NEW p \in {"verify", "done", "failed"},
           req' = [req EXCEPT ![r] = [req[r] EXCEPT !.pc = p, !.lock = FALSE]],
           ~Over(r), tokens' = tokens, p = "done" => req[r].op = "start"
    PROVE  TokenInv'
  <1>1. /\ req'[r].pc = p /\ ~req'[r].lock /\ req'[r].op = req[r].op
        /\ \A k \in Requests : k # r => Kept(k)
    BY StepFields
  <1> QED  BY <1>1, TokenFrame DEF Committed, Outcomes

\* A request that fails before anything is committed.
LEMMA FailsInvariant ==
    ASSUME IInv, NEW r \in Requests, Fails(r)
    PROVE  IInv'
  <1>1. /\ api = "up" /\ ~Over(r)
        /\ req' = [req EXCEPT ![r] = [req[r] EXCEPT !.pc = "failed", !.lock = FALSE]]
        /\ UNCHANGED <<users, tokens, settings, cache, api, granted>>
    BY DEF Fails, Ended, InFlight, Over
  <1>2. TokenInv' /\ CacheInv'
    BY <1>1, StepTokens, StepCache
  <1>3. cache' \in Issuers \cup {"none"} /\ FALSE \in BOOLEAN
    BY <1>1, Parts DEF TableTypes
  <1> QED  BY <1>1, <1>2, <1>3, ProgressInvariant

\* ensureProvider caches the issuer that the request has read: the callbacks under way
\* that have read another have crossed it.
LEMMA EnsureInvariant ==
    ASSUME IInv, NEW r \in Requests, EnsureProvider(r)
    PROVE  IInv'
  <1> DEFINE p == IF req[r].op = "start" THEN "done" ELSE "verify"
  <1>1. /\ api = "up" /\ req[r].op \in {"oidc", "start"} /\ req[r].pc = "ensure" /\ cache' = req[r].issuer
        /\ req' = [req EXCEPT ![r] = [req[r] EXCEPT !.pc = p]]
        /\ UNCHANGED <<users, tokens, settings, api, granted>>
    BY DEF EnsureProvider, Ensured
  <1>2. /\ TokenInv /\ CacheInv /\ ~Over(r) /\ Caching(r) /\ req[r] \in Request /\ req[r].lock = FALSE
        /\ req[r].issuer \in Issuers
    BY <1>1, Parts DEF Over, Caching, LocalTypes, TokenInv, Request
  <1>3. p \in {"verify", "done"} /\ (p = "done" <=> req[r].op = "start")
    OBVIOUS
  <1> HIDE DEF p
  <1>4. req' = [req EXCEPT ![r] = [req[r] EXCEPT !.pc = p, !.lock = FALSE]]
    <2>1. [req[r] EXCEPT !.pc = p] = [req[r] EXCEPT !.pc = p, !.lock = FALSE]
      BY <1>2 DEF Request
    <2> QED  BY <1>1, <2>1
  <1>5. /\ req'[r].pc = p /\ req'[r].op = req[r].op
        /\ req'[r].issuer = req[r].issuer /\ req'[r].crossed = req[r].crossed
        /\ \A k \in Requests : k # r => req'[k] = req[k]
    BY <1>3, <1>4, StepFields
  <1>6. TokenInv'
    BY <1>1, <1>2, <1>3, <1>4, StepTokens
  <1>7. CacheInv'
    <2>1. ASSUME NEW k \in Requests, Caching(k)'
          PROVE  /\ Caching(k) /\ req'[k].issuer = req[k].issuer /\ req'[k].crossed = req[k].crossed
      BY <1>2, <1>5, <2>1 DEF Caching
    <2>2. ASSUME NEW k \in Requests, req'[k].op = "oidc", req'[k].pc = "verify"
          PROVE  cache' \in Issuers /\ (req'[k].crossed \/ cache' = req'[k].issuer)
      <3>1. Caching(k)'
        BY <2>2 DEF Caching
      <3>2. req[k].issuer # req[r].issuer => req[k].crossed
        BY <1>2, <2>1, <3>1 DEF CacheInv
      <3> QED  BY <1>1, <1>2, <2>1, <3>1, <3>2
    <2>3. \A j, k \in Requests : Caching(j)' /\ Caching(k)' /\ req'[j].issuer # req'[k].issuer => req'[j].crossed
      BY <1>2, <2>1 DEF CacheInv
    <2> QED  BY <2>2, <2>3 DEF CacheInv
  <1>8. cache' \in Issuers \cup {"none"} /\ FALSE \in BOOLEAN
    BY <1>1, <1>2
  <1>9. \/ p = "verify" /\ req[r].op = "oidc"
        \/ p \in Outcomes /\ req[r].op = "start"
    BY <1>1, <1>3 DEF Outcomes
  <1> QED  BY <1>1, <1>2, <1>4, <1>6, <1>7, <1>8, <1>9, ProgressInvariant

\* A callback is verified with the cached provider, which is its own unless it has
\* crossed other settings; from now on it is about the account of the ID token.
LEMMA VerifyInvariant ==
    ASSUME IInv, NEW r \in Requests, NEW e \in Emails, NEW role \in Roles, OidcVerify(r, e, role)
    PROVE  IInv'
  <1> DEFINE held == {users[e]}
             new == [req[r] EXCEPT !.pc = "account", !.subject = cache, !.email = e, !.role = role,
                                   !.held = held]
  <1>1. /\ api = "up" /\ req[r].op = "oidc" /\ req[r].pc = "verify"
        /\ req' = [req EXCEPT ![r] = new]
        /\ UNCHANGED <<users, tokens, settings, cache, api, granted>>
    BY DEF OidcVerify, Step
  <1>2. /\ TableTypes /\ LocalTypes /\ TokenInv /\ AccountInv /\ CacheInv /\ RequestInv(r)
        /\ ~Over(r) /\ req[r] \in Request /\ ~req[r].lock
    BY <1>1, Parts DEF Over, LocalTypes, TokenInv
  <1>3. cache \in Issuers /\ (req[r].crossed \/ cache = req[r].issuer) /\ held \in SUBSET (Account \cup {NoAccount})
    BY <1>1, <1>2 DEF CacheInv, TableTypes
  <1> HIDE DEF held
  <1>4. new \in Request
    BY <1>2, <1>3 DEF Request
  <1>5. /\ new.op = req[r].op /\ new.pc = "account" /\ new.subject = cache /\ new.role = role
        /\ new.issuer = req[r].issuer /\ new.crossed = req[r].crossed /\ new.lock = req[r].lock
        /\ new.before = req[r].before
    BY <1>2 DEF Request
  <1> HIDE DEF new
  <1>6. /\ req' \in [Requests -> Request] /\ req'[r] = new
        /\ \A k \in Requests : k # r => req'[k] = req[k]
    BY <1>1, <1>2, <1>4 DEF LocalTypes
  <1>7. (\A k \in Requests : k # r => Kept(k)) /\ (\A k \in Requests : Over(k) => Kept(k))
    BY <1>2, <1>6, SameIsKept
  <1>8. TableTypes' /\ AccountInv'
    BY <1>1, <1>2 DEF TableTypes, AccountInv, Exists
  <1>9. LocalTypes'
    BY <1>1, <1>2, <1>3, <1>5, <1>6 DEF LocalTypes
  <1>10. TokenInv'
    BY <1>1, <1>2, <1>5, <1>6, <1>7, TokenFrame DEF Committed, Outcomes
  <1>11. CacheInv'
    BY <1>1, <1>5, <1>6, <1>7, CacheFrame DEF Caching
  <1>12. RequestInv(r)'
    <2>1. \A k \in req[r].before : Over(k)'
      BY <1>2, <1>7, OverStays DEF RequestInv, RefersInv, Request
    <2>2. RefersInv(r)'
      BY <1>1, <1>5, <1>6, <2>1 DEF RefersInv
    <2>3. RefusedInv(r)' /\ HeldInv(r)' /\ RoleInv(r)'
      BY <1>1, <1>5, <1>6 DEF RefusedInv, HeldInv, RoleInv, HasRole, Done
    <2>4. VerifiedInv(r)'
      BY <1>3, <1>5, <1>6 DEF VerifiedInv
    <2> QED  BY <2>2, <2>3, <2>4 DEF RequestInv
  <1>13. \A k \in Requests : RequestInv(k)'
    <2>1. \A f \in Emails : granted[f] \subseteq granted'[f]
      <3>1. granted' = granted
        BY <1>1
      <3> QED  BY <3>1
    <2>2. \A f \in Emails : Exists(f) => Exists(f)'
      BY <1>1 DEF Exists
    <2>3. \A k \in Requests : Kept(k) => RequestInv(k)'
      BY <1>7, <2>1, <2>2, KeptRequest
    <2> QED  BY <1>7, <1>12, <2>3
  <1> QED  BY <1>8, <1>9, <1>10, <1>11, <1>13, Parts
-----------------------------------------------------------------------------
(* The API process.                                                        *)

\* A crash fails the requests under way and rolls back what they had deleted.
LEMMA CrashInvariant == IInv /\ ApiCrash => IInv'
  <1> SUFFICES ASSUME IInv, ApiCrash PROVE IInv'
    OBVIOUS
  <1>1. /\ api' = "down" /\ cache' = "none" /\ UNCHANGED <<users, tokens, settings, granted>>
        /\ req' = [r \in Requests |-> IF InFlight(r) THEN Ended(req[r], "failed") ELSE req[r]]
    BY DEF ApiCrash
  <1>2. TableTypes /\ LocalTypes /\ TokenInv /\ AccountInv /\ CacheInv
    BY Parts
  <1>3. ASSUME NEW q \in Request
        PROVE  /\ Ended(q, "failed") \in Request
               /\ Ended(q, "failed").pc = "failed" /\ ~Ended(q, "failed").lock
               /\ Ended(q, "failed").op = q.op /\ Ended(q, "failed").tok = q.tok
               /\ Ended(q, "failed").role = q.role /\ Ended(q, "failed").issuer = q.issuer
               /\ Ended(q, "failed").subject = q.subject /\ Ended(q, "failed").next = q.next
               /\ Ended(q, "failed").email = q.email /\ Ended(q, "failed").before = q.before
               /\ Ended(q, "failed").crossed = q.crossed
    BY ZenonT(60) DEF Request, Ended
  <1>4. ASSUME NEW k \in Requests
        PROVE  /\ req'[k] \in Request
               /\ InFlight(k) => /\ req'[k].pc = "failed" /\ ~req'[k].lock /\ req'[k].op = req[k].op
                                 /\ req'[k].tok = req[k].tok /\ req'[k].before = req[k].before
               /\ ~InFlight(k) => req'[k] = req[k] /\ Kept(k)
               /\ req'[k].op = req[k].op /\ req'[k].role = req[k].role /\ req'[k].issuer = req[k].issuer
               /\ req'[k].subject = req[k].subject /\ req'[k].next = req[k].next
               /\ req'[k].email = req[k].email /\ req'[k].tok = req[k].tok /\ req'[k].before = req[k].before
               /\ req'[k].crossed = req[k].crossed
    <2>1. req[k] \in Request
      BY <1>2 DEF LocalTypes
    <2> QED  BY <1>1, <1>3, <2>1, SameIsKept
  <1>5. req' \in [Requests -> Request]
    <2>1. req' = [k \in Requests |-> req'[k]]
      BY <1>1
    <2> QED  BY <1>4, <2>1
  <1>6. \A k \in Requests : ~InFlight(k)'
    BY <1>4 DEF InFlight
  <1>7. \A k \in Requests : Over(k) => Kept(k)
    BY <1>4 DEF Over, InFlight
  <1>8. TableTypes' /\ LocalTypes' /\ AccountInv'
    BY <1>1, <1>2, <1>4, <1>5, <1>6 DEF TableTypes, LocalTypes, AccountInv, Exists
  <1>9. CacheInv'
    <2>1. \A k \in Requests : ~Caching(k)'
      BY <1>6 DEF Caching, InFlight
    <2> QED  BY <2>1 DEF CacheInv, Caching
  <1>10. TokenInv'
    <2>1. \A k \in Requests : /\ Committed(k)' <=> Committed(k)
                              /\ Issued(k)' <=> Issued(k)
                              /\ Session(k)' <=> Session(k)
      BY <1>4 DEF Done, Committed, Outcomes, Issued, Session, InFlight
    <2>2. \A t, k \in Requests : Spent(t, k)' <=> Spent(t, k)
      BY <1>4, <2>1 DEF Spent
    <2>3. TokensAccountedFor'
      BY <1>1, <1>2, <2>1, <2>2 DEF TokenInv, TokensAccountedFor
    <2>4. \A k \in Requests : ~req'[k].lock
      BY <1>2, <1>4 DEF TokenInv, InFlight
    <2>5. LockInv'
      BY <1>4 DEF LockInv, InFlight
    <2>6. tokens' \subseteq {k \in Requests : Issued(k)'}
      BY <1>1, <1>2, <2>1 DEF TokenInv
    <2> QED  BY <2>3, <2>4, <2>5, <2>6 DEF TokenInv
  <1>11. \A k \in Requests : RequestInv(k)'
    <2>1. \A e \in Emails : granted[e] \subseteq granted'[e]
      <3>1. granted' = granted
        BY <1>1
      <3> QED  BY <3>1
    <2>2. \A e \in Emails : Exists(e) => Exists(e)'
      BY <1>1 DEF Exists
    <2>3. \A k \in Requests : Kept(k) => RequestInv(k)'
      BY <1>7, <2>1, <2>2, KeptRequest
    <2>4. ASSUME NEW k \in Requests, InFlight(k) PROVE RequestInv(k)'
      <3>1. /\ req'[k].pc = "failed" /\ req'[k].op = req[k].op /\ req'[k].tok = req[k].tok
            /\ req'[k].before = req[k].before
        BY <1>4, <2>4
      <3> QED  BY <1>7, <3>1, FailedRequest
    <2> QED  BY <1>4, <2>3, <2>4
  <1> QED  BY <1>8, <1>9, <1>10, <1>11, Parts

\* A start makes the first account if there is no superadmin and its email is free.
LEMMA ApiStartInvariant == IInv /\ ApiStart => IInv'
  <1> SUFFICES ASSUME IInv, ApiStart PROVE IInv'
    OBVIOUS
  <1> DEFINE account == [role |-> "superadmin", pw |-> FirstPassword, provider |-> "local", subject |-> "none"]
  <1>1. /\ api = "down" /\ api' \in {"up", "fatal"} /\ UNCHANGED <<tokens, req, settings, cache>>
        /\ \/ UNCHANGED <<users, granted>>
           \/ /\ users' = [users EXCEPT ![Bootstrap] = account]
              /\ granted' = [granted EXCEPT ![Bootstrap] = @ \cup {"superadmin"}]
    BY DEF ApiStart
  <1>2. TableTypes /\ LocalTypes /\ TokenInv /\ AccountInv /\ CacheInv
    BY Parts
  <1>3. account \in Account /\ account.role = "superadmin" /\ account # NoAccount
    <2>1. account \in Account
      BY AccountsAssumption DEF Account
    <2> QED  BY <2>1, AccountTypes
  <1> HIDE DEF account
  <1>4. \A k \in Requests : ~InFlight(k)
    BY <1>1, <1>2 DEF TableTypes
  <1>5. TableTypes'
    BY <1>1, <1>2, <1>3, <1>4, AccountsAssumption DEF TableTypes, InFlight
  <1>6. LocalTypes'
    BY <1>1, <1>2, AccountsAssumption DEF LocalTypes
  <1>7. AccountInv'
    BY <1>1, <1>2, <1>3, AccountsAssumption DEF AccountInv, Exists, TableTypes, LocalTypes
  <1>8. TokenInv' /\ CacheInv'
    BY <1>1, <1>2 DEF TokenInv, LockInv, TokensAccountedFor, Spent, Session, Issued, Committed, Done, CacheInv, Caching
  <1>9. \A k \in Requests : Kept(k)
    BY <1>1, SameIsKept
  <1>10. /\ \A e \in Emails : granted[e] \subseteq granted'[e]
         /\ \A e \in Emails : Exists(e) => Exists(e)'
    BY <1>1, <1>2, <1>3, AccountsAssumption DEF LocalTypes, TableTypes, Exists
  <1>11. \A k \in Requests : Over(k) => Kept(k)
    BY <1>9
  <1>12. \A k \in Requests : Kept(k) => RequestInv(k)'
    BY <1>10, <1>11, KeptRequest
  <1> QED  BY <1>5, <1>6, <1>7, <1>8, <1>9, <1>12, Parts

-----------------------------------------------------------------------------
(* What follows for every behaviour.                                       *)

\* The invariant holds before anything is asked.
LEMMA InitInv == Init => IInv
  <1> SUFFICES ASSUME Init PROVE IInv
    OBVIOUS
  <1>1. \A r \in Requests : req[r] = NoRequest
    BY DEF Init
  <1>2. NoRequest.op = "none" /\ NoRequest.pc = "idle" /\ ~NoRequest.lock /\ NoRequest.before = {}
    BY DEF NoRequest
  <1>3. LocalTypes
    BY <1>2, NoRequestType DEF Init, LocalTypes
  <1>4. TableTypes /\ AccountInv
    BY <1>1, <1>2, IssuersAssumption DEF Init, TableTypes, AccountInv, Exists, InFlight
  <1>5. TokenInv /\ CacheInv
    BY <1>1, <1>2 DEF Init, TokenInv, LockInv, TokensAccountedFor, Session, Done, CacheInv, Caching
  <1>6. \A r \in Requests : RequestInv(r)
    BY <1>1, <1>2 DEF RequestInv, RefersInv, RefusedInv, HeldInv, RoleInv, VerifiedInv, HasRole, Done
  <1> QED  BY <1>3, <1>4, <1>5, <1>6, Parts

\* Every step keeps the invariant.
LEMMA NextInv == IInv /\ [Next]_vars => IInv'
  <1> SUFFICES ASSUME IInv, [Next]_vars PROVE IInv'
    OBVIOUS
  <1>1. ASSUME NEW r \in Requests, Proceed(r) PROVE IInv'
    BY <1>1, IssueInvariant, RefreshDeleteInvariant, RefreshCommitInvariant, LogoutAllInvariant,
       AccountInvariant, EnsureInvariant, VerifyInvariant
    DEF Proceed
  <1>2. ASSUME NEW r \in Requests, NEW t \in Requests, Refresh(r, t) \/ LogoutAll(r, t)
        PROVE  IInv'
    BY <1>2, RefreshInvariant, BearerInvariant
  <1>3. CASE UNCHANGED vars
    <2>1. TypeOK' <=> TypeOK
      BY <1>3 DEF vars, TypeOK, Issued, Committed, InFlight
    <2>2. /\ LocalTypes' /\ LockInv' /\ AccountInv' /\ CacheInv'
          /\ TokensAccountedFor'
      BY <1>3 DEF vars, IInv, LocalTypes, LockInv, AccountInv, CacheInv, TokensAccountedFor, Session,
                  Issued, Committed, Done, Spent, Exists, Caching
    <2>3. \A r \in Requests : RequestInv(r)'
      BY <1>3 DEF vars, IInv, RequestInv, RefersInv, RefusedInv, HeldInv, RoleInv, VerifiedInv,
                  HasRole, Over, Done, Session, Issued, Committed, Spent, Exists
    <2> QED  BY <2>1, <2>2, <2>3 DEF IInv
  <1>4. ASSUME NEW r \in Requests, NEW c \in Requests, NEW pw \in Passwords, NEW next \in Passwords,
               ChangePassword(r, c, pw, next)
        PROVE  IInv'
    BY <1>4, BearerInvariant
  <1>5. ASSUME NEW r \in Requests, NEW c \in Requests, NEW role \in Roles, CreateAdminToken(r, c, role)
        PROVE  IInv'
    BY <1>5, BearerInvariant
  <1>6. ASSUME NEW r \in Requests, NEW e \in Emails, NEW role \in Roles, UpdateRole(r, e, role)
        PROVE  IInv'
    BY <1>6, AccountInvariant
  <1> QED
    BY <1>1, <1>2, <1>3, <1>4, <1>5, <1>6, LoginInvariant, LogoutInvariant, SettingsInvariant,
       CallbackInvariant, FailsInvariant, CrashInvariant, ApiStartInvariant
    DEF Next

\* The invariant holds in every state, whatever requests overlap, fail or die with
\* the process (auth, oidc, users, the admin API tokens and EnsureBootstrapAdmin).
THEOREM Invariance == Spec => []IInv
  BY InitInv, NextInv, PTL DEF Spec

\* A refresh token has its row exactly as long as no request that was committed has
\* spent it, and a Refresh that was committed has spent its token also when it reports an
\* error, its acknowledgement being lost (Refresh's transaction, Logout, LogoutAll).
THEOREM NoTokenIsLost == Spec => []TokensAccountedFor
  <1>1. IInv => TokensAccountedFor
    BY DEF IInv
  <1> QED  BY <1>1, Invariance, PTL

\* A token that was spent when a Refresh began is refused to it.
THEOREM ReuseIsRejected == Spec => []SpentTokenRefused
  <1>1. IInv => SpentTokenRefused
    BY DEF IInv, RequestInv, RefusedInv, SpentTokenRefused, Done
  <1> QED  BY <1>1, Invariance, PTL

\* The role in a session is one that the account had while the request ran, with the
\* password that was given (Login, Refresh, LoginOIDC).
THEOREM SessionsAreHeld == Spec => []SessionFromHeldAccount
  <1>1. IInv => SessionFromHeldAccount
    BY DEF IInv, RequestInv, HeldInv, HasRole, SessionFromHeldAccount, Session, Issued, Done
  <1> QED  BY <1>1, Invariance, PTL

\* However stale the sessions and tokens it was made with, an admin API token has a role
\* that its creator was given at some time, unless that was superadmin (POST /admin-tokens).
THEOREM RolesAreGranted == Spec => []AdminRoleWasGranted
  <1>1. IInv => AdminRoleWasGranted
    BY DEF IInv, RequestInv, RoleInv, AdminRoleWasGranted
  <1> QED  BY <1>1, Invariance, PTL

\* An account is recorded under the issuer that verified it unless a Start or a Callback
\* that had read other settings crossed the callback (oidc.Callback after ensureProvider).
THEOREM IssuerIsVerified == Spec => []IssuerVerified
  <1>1. IInv => IssuerVerified
    BY DEF IInv, RequestInv, VerifiedInv, IssuerVerified
  <1> QED  BY <1>1, Invariance, PTL
=============================================================================
