--------------------------- MODULE Authorization ---------------------------
(***************************************************************************)
(* How a request is allowed or refused: role statements, role bindings of  *)
(* a subject to a resource pattern, the role of the credential itself, and *)
(* bucket policies (policies.Service, authz.Authorizer, the authorization  *)
(* helpers of the S3 and admin routers), while operators change those      *)
(* tables and processes start and run the migrations again.  A decision is *)
(* several queries, each in a transaction of its own.  Requests only read, *)
(* so one request at a time meets every case; it is made by one credential *)
(* in one of the ways the S3 router knows, or by nobody.  Names are        *)
(* sequences of parts, a pattern is a text that may end in a star.         *)
(***************************************************************************)
EXTENDS Integers, Sequences, SequencesExt

CONSTANTS
    Roles,
    Seeds,       \* role statements that the migrations insert
    Statements,  \* role statements that operators create
    Patterns,    \* resource patterns of bindings, in the order of the query: "*" is the last
    Documents,   \* bucket policies as they are sent; each is a set of statements
    Asked,       \* what requests are about: action, resource, context of the request
    MaxChanges   \* bound: changes of the tables while one request is decided

Pattern == [text: Seq(STRING), star: BOOLEAN]

ASSUME StatementsAssumption ==
    \A st \in Seeds \cup Statements :
        /\ st.role \in Roles /\ st.effect \in {"allow", "deny"}
        /\ st.action \in Pattern /\ st.resource \in Pattern
ASSUME PatternsAssumption == Patterns \in Seq(Pattern)
ASSUME ChangesBound == MaxChanges \in Nat

VARIABLES
    statements,  \* role_policy_statements, unique by all its columns
    bindings,    \* subject_role_bindings of the credential: the role of each pattern
    own,         \* the role of the credential: its row's at the S3 API, its token's at the admin API
    policy,      \* the bucket's policy; {} when it has none
    q            \* the request

vars == <<statements, bindings, own, policy, q>>

Scopes == 1..Len(Patterns)

\* The first of some scopes in the order of the query.
Earliest(scopes) == CHOOSE i \in scopes : \A k \in scopes : i <= k

-----------------------------------------------------------------------------
(* Evaluation.                                                             *)

match(pattern, value) ==
    IF pattern.star THEN IsPrefix(pattern.text, value) ELSE pattern.text = value

Matching(role, ask) ==
    {st \in statements : st.role = role /\ match(st.action, ask.action) /\ match(st.resource, ask.resource)}

\* Evaluate: a deny ends it.
Evaluate(role, ask) ==
    /\ \A st \in Matching(role, ask) : st.effect # "deny"
    /\ \E st \in Matching(role, ask) : st.effect = "allow"

\* The same in the evaluation tool (evaluateRoleStatements).
evaluateRoleStatements(role, ask) ==
    LET explicitDeny == \E st \in Matching(role, ask) : st.effect = "deny"
        allowed == \E st \in Matching(role, ask) : st.effect = "allow"
    IN  ~explicitDeny /\ allowed

\* rolesForSubjectResource: the bound roles by the scope of their binding, to be taken in the order
\* of the scopes; none for a subject without a name.
rolesForSubjectResource(who, ask) ==
    [i \in {j \in Scopes : who = "key" /\ bindings[j] # "none" /\ match(Patterns[j], ask.resource)} |->
        bindings[i]]

\* The roles of the scopes that are left, and the first of them.
Scoped(roles) == DOMAIN roles
FirstRole(roles) == roles[Earliest(Scoped(roles))]

\* bucketPolicyConditionsMatch: all six operators are "matches one of the values" or its negation;
\* what the request does not have is the empty string.
ConditionsMatch(conditions, context) ==
    \A c \in conditions : c.negated # (context[c.key] \in c.values)

\* Principal, or everybody but NotPrincipal; "*" names everybody.
PrincipalMatches(st, principal) ==
    st.notPrincipal # (st.principals \cap {"*", principal} # {})

evaluateBucketPolicy(principal, ask) ==
    LET applies == {st \in policy :
                      /\ PrincipalMatches(st, principal)
                      /\ \E p \in st.actions : match(p, ask.action)
                      /\ \E p \in st.resources : match(p, ask.resource)
                      /\ ConditionsMatch(st.conditions, ask.context)}
    IN  IF \E st \in applies : st.effect = "Deny" THEN "deny"
        ELSE IF \E st \in applies : st.effect = "Allow" THEN "allow" ELSE "none"

\* Roles bound to the credential for what is asked, roles the request has, and roles that allow it.
Bound(ask) == {bindings[i] : i \in {j \in Scopes : bindings[j] # "none" /\ match(Patterns[j], ask.resource)}}
Held(who, ask) == {own} \cup (IF who = "key" THEN Bound(ask) ELSE {})
Allowing(ask) == {role \in Roles : Evaluate(role, ask)}

\* Mutant: one bound role is asked.
ExplainFirstBinding(ask, fallbackRole) ==
    \/ Bound(ask) # {} /\ evaluateRoleStatements(FirstRole(rolesForSubjectResource("key", ask)), ask)
    \/ evaluateRoleStatements(fallbackRole, ask)

\* What ExplainSubjectAuthorization says of a request: the role that whoever asks has named for the
\* subject is evaluated last, whether there are bindings or not.
Explain(ask, fallbackRole) ==
    \/ \E role \in Bound(ask) : evaluateRoleStatements(role, ask)
    \/ evaluateRoleStatements(fallbackRole, ask)

-----------------------------------------------------------------------------
(* A request.                                                              *)

NoQuestion == [action |-> <<>>, resource |-> <<>>, context |-> <<>>]

NoRequest ==
    [pc |-> "idle", ask |-> NoQuestion, who |-> "nobody", own |-> "none", decision |-> "none",
     first |-> "none", roles |-> [i \in {} |-> "none"], allowed |-> FALSE,
     failed |-> FALSE, changes |-> 0, held |-> {}, allowing |-> {}, decisions |-> {}]

Tables == <<statements, bindings, own, policy>>

\* authenticateS3Identity: a URL signed in advance in one of two forms, a signed request, or the access
\* key and the secret in headers, which identify the credential without saying its name to what follows.
authenticateS3Identity(sent, valid) ==
    CASE sent \in {"presigned", "signed"} /\ valid -> "key"
      [] sent = "keys" /\ valid                    -> "unnamed"
      [] sent = "presigned" /\ ~valid              -> "bad"
      [] OTHER                                     -> "nobody"

Known(who) == who \in {"key", "unnamed"}

Principal(who) == IF who = "key" THEN "key" ELSE "*"

\* The identity is established, with its role: that of the credential's row, or for the admin API
\* the one in the token's claims, which does not follow the account's row (Sessions says how stale it
\* may be).  UpdateRole is another role in the row or another token.  Only requests for objects
\* are about the bucket's policy (authorizeBucketPolicyAware); others go to the roles at once
\* (authorizeS3Request, the admin API's authorize).
Authenticate(ask, sent, valid, aware) ==
    LET who == authenticateS3Identity(sent, valid) IN
    /\ q.pc = "idle"
    /\ q' = [NoRequest EXCEPT !.pc = IF who = "bad" \/ ~(Known(who) \/ aware) THEN "done"
                                     ELSE IF aware THEN "policy" ELSE "resolve",
                              !.ask = ask, !.who = who, !.own = own,
                              !.held = Held(who, ask), !.allowing = Allowing(ask),
                              !.decisions = IF who = "bad" THEN {}
                                            ELSE IF aware THEN {evaluateBucketPolicy(Principal(who), ask)}
                                            ELSE {"none"}]
    /\ UNCHANGED Tables

\* EvaluateBucketPolicy: GetBucketPolicy answers "not found" to every error of its query.
Decision(lost) == IF lost THEN "none" ELSE evaluateBucketPolicy(Principal(q.who), q.ask)

\* Mutant: a deny is left to the roles.
EvaluateBucketPolicyRolesFirst(lost) ==
    /\ q.pc = "policy"
    /\ q' = [q EXCEPT !.decision = Decision(lost), !.failed = lost,
                      !.pc = IF Known(q.who) THEN "resolve" ELSE "done",
                      !.allowed = Decision(lost) = "allow" /\ ~Known(q.who)]
    /\ UNCHANGED Tables

EvaluateBucketPolicy(lost) ==
    LET decision == Decision(lost) IN
    /\ q.pc = "policy"
    /\ q' = [q EXCEPT !.decision = decision, !.failed = lost,
                      !.pc = IF decision = "deny" \/ ~Known(q.who) THEN "done" ELSE "resolve",
                      !.allowed = decision = "allow" /\ ~Known(q.who)]
    /\ UNCHANGED Tables

\* Mutant: the credential's own role is what remains.
ResolveRoleOwn ==
    /\ q.pc = "resolve"
    /\ q' = [q EXCEPT !.pc = "bindings", !.first = q.own]
    /\ UNCHANGED Tables

\* AuthorizeSubject: ResolveRole's query, the same query again, then the statements of one role
\* after the other, and at last those of the role resolved first.
ResolveRole ==
    /\ q.pc = "resolve"
    /\ q' = [q EXCEPT !.pc = "bindings",
                      !.first = IF Scoped(rolesForSubjectResource(q.who, q.ask)) = {} THEN q.own
                                ELSE FirstRole(rolesForSubjectResource(q.who, q.ask))]
    /\ UNCHANGED Tables

ReadBindings ==
    /\ q.pc = "bindings"
    /\ q' = [q EXCEPT !.pc = "roles", !.roles = rolesForSubjectResource(q.who, q.ask)]
    /\ UNCHANGED Tables

\* A request no role allows is still allowed by a bucket policy that says so.
AuthorizeRole ==
    LET left == Scoped(q.roles)
        role == IF left = {} THEN q.first ELSE FirstRole(q.roles)
    IN
    /\ q.pc = "roles"
    /\ q' = IF Evaluate(role, q.ask) THEN [q EXCEPT !.pc = "done", !.allowed = TRUE]
            ELSE IF left # {} THEN [q EXCEPT !.roles = [i \in left \ {Earliest(left)} |-> @[i]]]
            ELSE [q EXCEPT !.pc = "done", !.allowed = q.decision = "allow"]
    /\ UNCHANGED Tables

\* A query of AuthorizeSubject fails.
AuthorizeFails ==
    /\ q.pc \in {"resolve", "bindings", "roles"} /\ ~q.failed
    /\ q' = [q EXCEPT !.pc = "done", !.failed = TRUE, !.allowed = q.decision = "allow"]
    /\ UNCHANGED Tables

Answered == q.pc = "done" /\ q' = NoRequest /\ UNCHANGED Tables

-----------------------------------------------------------------------------
(* Operators, and the migrations that every process runs when it starts.   *)

\* The tables change while a request is decided, and history keeps what it could have met.  A
\* request that is decided is forgotten before they change again.
Changed ==
    \/ q.pc = "idle" /\ UNCHANGED q
    \/ /\ q.pc \notin {"idle", "done"} /\ q.changes < MaxChanges
       /\ \E old \in {q} :
            q' = [old EXCEPT !.changes = @ + 1,
                             !.held = @ \cup Held(old.who, old.ask)', !.allowing = @ \cup Allowing(old.ask)',
                             !.decisions = IF old.pc = "policy"
                                           THEN @ \cup {evaluateBucketPolicy(Principal(old.who), old.ask)'} ELSE @]

\* The statements of superadmin are protected; a second row like one there is fails.
CreateStatement(st) ==
    /\ st.role # "superadmin" /\ st \notin statements
    /\ statements' = statements \cup {st}
    /\ UNCHANGED <<bindings, own, policy>> /\ Changed

UpdateStatement(old, st) ==
    /\ old \in statements /\ old.role # "superadmin" /\ st.role = old.role /\ st \notin statements
    /\ statements' = (statements \ {old}) \cup {st}
    /\ UNCHANGED <<bindings, own, policy>> /\ Changed

DeleteStatement(st) ==
    /\ st \in statements /\ st.role # "superadmin"
    /\ statements' = statements \ {st}
    /\ UNCHANGED <<bindings, own, policy>> /\ Changed

\* db.Migrate runs every file again: INSERT ... ON CONFLICT DO NOTHING brings back what was deleted.
Migrate ==
    /\ statements' = statements \cup Seeds
    /\ UNCHANGED <<bindings, own, policy>> /\ Changed

UpsertBinding(i, role) ==
    /\ bindings' = [bindings EXCEPT ![i] = role]
    /\ UNCHANGED <<statements, own, policy>> /\ Changed

DeleteBinding(i) ==
    /\ bindings[i] # "none"
    /\ bindings' = [bindings EXCEPT ![i] = "none"]
    /\ UNCHANGED <<statements, own, policy>> /\ Changed

UpdateRole(role) ==
    /\ own' = role
    /\ UNCHANGED <<statements, bindings, policy>> /\ Changed

\* normalizeBucketPolicy refuses a document without statements, and one with a statement that has
\* another effect, or no principal, action, resource or value of a condition.
normalizeStringOrList(values) == values # {}

normalizeBucketPolicyPrincipal(principals) == normalizeStringOrList(principals)

normalizeBucketPolicyConditions(conditions) == \A c \in conditions : normalizeStringOrList(c.values)

normalizeBucketPolicy(doc) ==
    /\ doc # {}
    /\ \A st \in doc :
         /\ st.effect \in {"Allow", "Deny"}
         /\ normalizeBucketPolicyPrincipal(st.principals)
         /\ normalizeStringOrList(st.actions) /\ normalizeStringOrList(st.resources)
         /\ normalizeBucketPolicyConditions(st.conditions)

PutBucketPolicy(doc) ==
    /\ normalizeBucketPolicy(doc)
    /\ policy' = doc
    /\ UNCHANGED <<statements, bindings, own>> /\ Changed

DeleteBucketPolicy ==
    /\ policy # {}
    /\ policy' = {}
    /\ UNCHANGED <<statements, bindings, own>> /\ Changed

Init ==
    /\ statements = Seeds
    /\ bindings = [i \in Scopes |-> "none"]
    /\ own \in Roles
    /\ policy = {}
    /\ q = NoRequest

Next ==
    \/ \E ask \in Asked, sent \in {"presigned", "signed", "keys", "nothing"}, valid, aware \in BOOLEAN :
         Authenticate(ask, sent, valid, aware)
    \/ \E lost \in BOOLEAN : EvaluateBucketPolicy(lost)
    \/ ResolveRole \/ ReadBindings \/ AuthorizeRole \/ AuthorizeFails \/ Answered
    \/ \E st \in Statements : CreateStatement(st) \/ DeleteStatement(st)
    \/ \E old \in Statements, st \in Statements : UpdateStatement(old, st)
    \/ \E i \in Scopes, role \in Roles : UpsertBinding(i, role)
    \/ \E i \in Scopes : DeleteBinding(i)
    \/ \E role \in Roles : UpdateRole(role)
    \/ \E doc \in Documents : PutBucketPolicy(doc)
    \/ DeleteBucketPolicy
    \/ Migrate

Spec == Init /\ [][Next]_vars

-----------------------------------------------------------------------------
(* Properties.                                                             *)

\* What the tables say of a question: a deny of the bucket's policy is final; then its allow, or a
\* bound role that allows, or, where the request has no bound role, the credential's own.
Permitted(ask, who, decision) ==
    /\ decision # "deny"
    /\ \/ decision = "allow"
       \/ Known(who) /\ (IF who # "key" \/ Bound(ask) = {} THEN {own} ELSE Bound(ask)) \cap Allowing(ask) # {}

\* A request is allowed exactly when the tables permit it, if neither they nor a query failed it
\* while it was decided: the two queries of the bindings, the order of the roles and the role that
\* is asked again at the end come to that (policies.AuthorizeSubject, s3 authorizeBucketPolicyAware).
DecisionExact ==
    q.pc = "done" /\ q.changes = 0 /\ ~q.failed =>
        (q.allowed <=> \E d \in q.decisions : Permitted(q.ask, q.who, d))

\* However the tables change meanwhile, an allowed request had a role that it held while it ran and
\* that allowed it while it ran, or a bucket policy that did; and a bucket policy that denied it all
\* the time was not passed over, unless its query failed ("explicit Deny overrides Allow",
\* docs/api.md): grants revoked before a request began are not used.
NoGrantFromNowhere ==
    q.pc = "done" /\ q.allowed =>
        /\ q.held \cap q.allowing # {} \/ "allow" \in q.decisions
        /\ q.decisions = {"deny"} => q.failed

\* The evaluation tool never hides access that a request has: it may say "allowed" of a credential
\* whose own role is set aside by its bindings, never "denied" of one that is allowed, whatever
\* fallback role it is asked with where the bindings decide, and with the credential's own role
\* elsewhere (policies.ExplainSubjectAuthorization against AuthorizeSubject).
ExplainCoversAccess ==
    \A ask \in Asked, who \in {"key", "unnamed"}, fallbackRole \in Roles :
        /\ Permitted(ask, who, "none")
        /\ fallbackRole = own \/ (who = "key" /\ Bound(ask) # {})
        => Explain(ask, fallbackRole)

=============================================================================
