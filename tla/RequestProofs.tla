--------------------------- MODULE RequestProofs ---------------------------
(***************************************************************************)
(* The requests for objects: what lets them in and what they leave.        *)
(*                                                                         *)
(* Authorization, for any roles, statements, patterns, bucket policies,    *)
(* questions and number of changes: a decision is the one the tables call  *)
(* for, nothing is granted that was not granted while the request ran, and *)
(* the evaluation tool hides no access.                                    *)
(*                                                                         *)
(* Writes, for any requests, keys, users, sizes, quotas, rows and faults:  *)
(* how far quotas can be overrun, and that answers are true.               *)
(***************************************************************************)
EXTENDS Authorization, Writes, FiniteSetTheorems, WellFoundedInduction, TLAPS

-----------------------------------------------------------------------------
(* Policies: the inductive invariant.                                      *)

Verdicts == {"allow", "deny", "none"}

RoleLists == UNION {[scopes -> Roles] : scopes \in SUBSET Scopes}

Request ==
    [pc : {"idle", "policy", "resolve", "bindings", "roles", "done"},
     ask : Asked \cup {NoQuestion}, who : {"key", "unnamed", "bad", "nobody"},
     own : Roles \cup {"none"}, decision : Verdicts, first : Roles \cup {"none"}, roles : RoleLists,
     allowed : BOOLEAN, failed : BOOLEAN, changes : Nat,
     held : SUBSET Roles, allowing : SUBSET Roles, decisions : SUBSET Verdicts]

PolicyTypes ==
    /\ bindings \in [Scopes -> Roles \cup {"none"}]
    /\ own \in Roles
    /\ q \in Request

Undecided == {"policy", "resolve", "bindings", "roles"}
ByRole == {"resolve", "bindings", "roles"}

\* What the tables say now of the request.
Verdict == evaluateBucketPolicy(Principal(q.who), q.ask)
HeldNow == Held(q.who, q.ask)
AllowingNow == Allowing(q.ask)
Listed == rolesForSubjectResource(q.who, q.ask)
Resolved == IF Scoped(Listed) = {} THEN own ELSE FirstRole(Listed)
RolesPermit ==
    /\ Known(q.who)
    /\ (IF q.who # "key" \/ Bound(q.ask) = {} THEN {own} ELSE Bound(q.ask)) \cap AllowingNow # {}

\* It is part of the history of a request that is being decided.
HistoryInv ==
    /\ q.pc \in Undecided => HeldNow \subseteq q.held /\ AllowingNow \subseteq q.allowing
    /\ q.pc = "policy" => Verdict \in q.decisions /\ ~q.failed

\* What it has read has been true at some time, and no deny was passed over.
ReadInv ==
    /\ q.pc \in Undecided => q.own \in q.held
    /\ q.pc \in ByRole => (q.decision = "allow" => "allow" \in q.decisions)
    /\ q.pc \in ByRole => (q.decisions = {"deny"} => q.failed)
    /\ q.pc \in {"bindings", "roles"} => q.first \in q.held
    /\ q.pc = "roles" => \A i \in Scoped(q.roles) : q.roles[i] \in q.held

\* Without a change or a failure it has read what the tables say now, and the roles it has
\* already asked do not allow it.
CurrentInv ==
    q.changes = 0 /\ ~q.failed =>
        /\ q.pc \in Undecided => q.own = own
        /\ q.pc = "policy" => q.decisions = {Verdict}
        /\ q.pc \in ByRole => Known(q.who) /\ q.decisions = {q.decision} /\ q.decision # "deny"
        /\ q.pc \in {"bindings", "roles"} => q.first = Resolved
        /\ q.pc = "roles" =>
             /\ Scoped(q.roles) \subseteq Scoped(Listed)
             /\ \A i \in Scoped(q.roles) : q.roles[i] = Listed[i]
             /\ \A i \in Scoped(Listed) \ Scoped(q.roles) : Listed[i] \notin AllowingNow

IInv ==
    /\ PolicyTypes
    /\ HistoryInv /\ ReadInv /\ CurrentInv
    /\ DecisionExact /\ NoGrantFromNowhere

-----------------------------------------------------------------------------
(* The order of the scopes.                                                *)

\* Some of the scopes have a first one: the scopes up to it are the fewest.
LEMMA EarliestExists ==
    ASSUME NEW S \in SUBSET Nat, S # {}
    PROVE  Earliest(S) \in S
  <1> DEFINE UpTo(i) == 0..i
             Starts == {UpTo(i) : i \in S}
  <1>1. IsWellFoundedOn(StrictSubsetOrdering(Nat), FiniteSubsetsOf(Nat))
    BY FS_StrictSubsetOrderingWellFounded
  <1>2. Starts \subseteq FiniteSubsetsOf(Nat) /\ Starts # {}
    <2>1. ASSUME NEW i \in S PROVE UpTo(i) \in FiniteSubsetsOf(Nat)
      <3>1. 0 \in Int /\ i \in Int /\ 0..i \in SUBSET Nat
        OBVIOUS
      <3>2. IsFiniteSet(0..i)
        BY <3>1, FS_Interval
      <3> QED  BY <3>1, <3>2 DEF FiniteSubsetsOf
    <2> QED  BY <2>1
  <1>3. PICK p \in Starts : \A o \in Starts : ~ (<<o, p>> \in StrictSubsetOrdering(Nat))
    <2> HIDE DEF Starts
    <2> QED  BY <1>1, <1>2, WFMin
  <1>4. PICK i \in S : p = UpTo(i)
    OBVIOUS
  <1>5. ASSUME NEW k \in S, k < i PROVE FALSE
    <2>1. i \in Nat /\ k \in Nat /\ UpTo(k) \subseteq UpTo(i) /\ i \in UpTo(i) /\ i \notin UpTo(k)
      BY <1>5
    <2>2. UpTo(k) \in Starts /\ UpTo(k) \in SUBSET Nat /\ UpTo(i) \in SUBSET Nat
      BY <2>1
    <2> HIDE DEF UpTo, Starts
    <2>3. <<UpTo(k), UpTo(i)>> \in StrictSubsetOrdering(Nat)
      BY <2>1, <2>2 DEF StrictSubsetOrdering
    <2> QED  BY <1>3, <1>4, <2>2, <2>3
  <1>6. \A k \in S : i <= k
    BY <1>5
  <1> QED  BY <1>6 DEF Earliest

\* The first of the roles in a list is one of them.
LEMMA FirstRoleListed ==
    ASSUME NEW roles \in RoleLists, Scoped(roles) # {}
    PROVE  /\ Earliest(Scoped(roles)) \in Scoped(roles)
           /\ Scoped(roles) \subseteq Scopes
           /\ \A i \in Scoped(roles) : roles[i] \in Roles
           /\ FirstRole(roles) = roles[Earliest(Scoped(roles))]
  <1>1. PICK scopes \in SUBSET Scopes : roles \in [scopes -> Roles]
    BY DEF RoleLists
  <1>2. Scoped(roles) = scopes /\ Scopes \subseteq Nat
    BY <1>1 DEF Scoped, Scopes
  <1> QED  BY <1>1, <1>2, EarliestExists DEF FirstRole

\* A list without its first role is a list.
LEMMA RestOfRoles ==
    ASSUME NEW roles \in RoleLists, NEW i
    PROVE  /\ [k \in Scoped(roles) \ {i} |-> roles[k]] \in RoleLists
           /\ Scoped([k \in Scoped(roles) \ {i} |-> roles[k]]) = Scoped(roles) \ {i}
  <1>1. PICK scopes \in SUBSET Scopes : roles \in [scopes -> Roles]
    BY DEF RoleLists
  <1>2. Scoped(roles) = scopes
    BY <1>1 DEF Scoped
  <1>3. [k \in scopes \ {i} |-> roles[k]] \in [scopes \ {i} -> Roles] /\ scopes \ {i} \in SUBSET Scopes
    BY <1>1
  <1> QED  BY <1>2, <1>3 DEF RoleLists, Scoped

\* What the query of the bindings returns: the bound roles, for a credential with a name.
LEMMA BoundRoles ==
    ASSUME PolicyTypes, NEW who, NEW ask
    PROVE  LET roles == rolesForSubjectResource(who, ask) IN
           /\ roles \in RoleLists
           /\ who # "key" => Scoped(roles) = {}
           /\ who = "key" => Bound(ask) = {roles[i] : i \in Scoped(roles)}
  <1> DEFINE scopes == {j \in Scopes : who = "key" /\ bindings[j] # "none" /\ match(Patterns[j], ask.resource)}
             roles == rolesForSubjectResource(who, ask)
  <1>1. roles = [i \in scopes |-> bindings[i]] /\ Scoped(roles) = scopes
    BY DEF rolesForSubjectResource, Scoped
  <1>2. \A i \in scopes : bindings[i] \in Roles
    BY DEF PolicyTypes
  <1>3. scopes \in SUBSET Scopes
    OBVIOUS
  <1>4. who # "key" => scopes = {}
    OBVIOUS
  <1>5. who = "key" => Bound(ask) = {bindings[i] : i \in scopes}
    BY DEF Bound
  <1> HIDE DEF scopes, roles
  <1>6. roles \in [scopes -> Roles]
    BY <1>1, <1>2
  <1>7. roles \in RoleLists
    BY <1>3, <1>6 DEF RoleLists
  <1>8. {bindings[i] : i \in scopes} = {roles[i] : i \in scopes}
    BY <1>1
  <1> QED  BY <1>1, <1>4, <1>5, <1>7, <1>8 DEF roles

\* What the tables hold of a request is roles; what a policy says is one of three verdicts.
LEMMA TableTypes ==
    ASSUME PolicyTypes, NEW who, NEW ask, NEW principal
    PROVE  /\ Held(who, ask) \subseteq Roles /\ own \in Held(who, ask)
           /\ Allowing(ask) \subseteq Roles
           /\ evaluateBucketPolicy(principal, ask) \in Verdicts
  BY DEF PolicyTypes, Held, Bound, Allowing, evaluateBucketPolicy, Verdicts

\* The two evaluations of a role's statements agree (Evaluate, evaluateRoleStatements).
LEMMA EvaluationsAgree ==
    ASSUME NEW role, NEW ask
    PROVE  evaluateRoleStatements(role, ask) <=> Evaluate(role, ask)
  BY DEF evaluateRoleStatements, Evaluate

-----------------------------------------------------------------------------
(* The steps of a request.                                                 *)

\* A step that changes no table leaves what they say of the request.
LEMMA TablesStay ==
    ASSUME UNCHANGED Tables, q'.who = q.who, q'.ask = q.ask
    PROVE  /\ Verdict' = Verdict /\ HeldNow' = HeldNow /\ AllowingNow' = AllowingNow
           /\ Listed' = Listed /\ Resolved' = Resolved /\ (RolesPermit' <=> RolesPermit)
  <1>1. /\ statements' = statements /\ bindings' = bindings /\ own' = own /\ policy' = policy
    BY DEF Tables
  <1>2. Verdict' = Verdict
    BY <1>1 DEF Verdict, evaluateBucketPolicy, Principal
  <1>3. HeldNow' = HeldNow
    BY <1>1 DEF HeldNow, Held, Bound
  <1>4. AllowingNow' = AllowingNow
    BY <1>1 DEF AllowingNow, Allowing, Evaluate, Matching
  <1>5. Listed' = Listed
    BY <1>1 DEF Listed, rolesForSubjectResource
  <1>6. Resolved' = Resolved
    BY <1>1, <1>5 DEF Resolved
  <1>7. RolesPermit' <=> RolesPermit
    BY <1>1, <1>4 DEF RolesPermit, Known, Bound
  <1> QED  BY <1>2, <1>3, <1>4, <1>5, <1>6, <1>7

\* The types of what the tables say.
LEMMA NowTypes ==
    ASSUME PolicyTypes
    PROVE  /\ Verdict \in Verdicts /\ HeldNow \subseteq Roles /\ own \in HeldNow
           /\ AllowingNow \subseteq Roles /\ Listed \in RoleLists /\ Resolved \in HeldNow
           /\ \A i \in Scoped(Listed) : Listed[i] \in HeldNow
           /\ q.who # "key" => Scoped(Listed) = {}
  <1>1. /\ Verdict \in Verdicts /\ HeldNow \subseteq Roles /\ own \in HeldNow
        /\ AllowingNow \subseteq Roles
    BY TableTypes DEF Verdict, HeldNow, AllowingNow
  <1>2. /\ Listed \in RoleLists
        /\ q.who # "key" => Scoped(Listed) = {}
        /\ q.who = "key" => Bound(q.ask) = {Listed[i] : i \in Scoped(Listed)}
    BY BoundRoles DEF Listed
  <1>3. \A i \in Scoped(Listed) : Listed[i] \in HeldNow
    BY <1>2 DEF HeldNow, Held
  <1>4. Resolved \in HeldNow
    BY <1>1, <1>2, <1>3, FirstRoleListed DEF Resolved
  <1> QED  BY <1>1, <1>2, <1>3, <1>4

\* Whether the roles permit it, by the list of the bound ones.
LEMMA RolesPermitByList ==
    ASSUME PolicyTypes, Known(q.who)
    PROVE  RolesPermit <=> \/ Scoped(Listed) = {} /\ own \in AllowingNow
                           \/ \E i \in Scoped(Listed) : Listed[i] \in AllowingNow
  <1>1. /\ q.who # "key" => Scoped(Listed) = {}
        /\ q.who = "key" => Bound(q.ask) = {Listed[i] : i \in Scoped(Listed)}
    BY BoundRoles DEF Listed
  <1>2. CASE q.who # "key"
    BY <1>1, <1>2 DEF RolesPermit
  <1>3. CASE q.who = "key"
    <2>1. Bound(q.ask) = {} <=> Scoped(Listed) = {}
      BY <1>1, <1>3
    <2> QED  BY <1>1, <1>3, <2>1 DEF RolesPermit
  <1> QED  BY <1>2, <1>3

\* A role of the tables allows the request when its statements do.
LEMMA AllowingRoles ==
    ASSUME NEW role \in Roles
    PROVE  Evaluate(role, q.ask) <=> role \in AllowingNow
  BY DEF AllowingNow, Allowing

\* A request without an answer: nothing is known of it yet.
LEMMA NoRequestType ==
    /\ NoRequest \in Request /\ NoRequest.pc = "idle"
    /\ NoRequest.changes = 0 /\ ~NoRequest.failed /\ ~NoRequest.allowed /\ NoRequest.decision = "none"
  <1>1. NoRequest.roles \in [{} -> Roles] /\ {} \in SUBSET Scopes
    BY DEF NoRequest
  <1>2. NoRequest.roles \in RoleLists
    BY <1>1 DEF RoleLists
  <1> QED  BY <1>2 DEF NoRequest, Request, Verdicts

\* Initially there is no request, and nothing is said of it.
LEMMA InitInv == Init => IInv
  <1> SUFFICES ASSUME Init PROVE IInv
    OBVIOUS
  <1>1. PolicyTypes /\ q.pc = "idle"
    BY NoRequestType DEF Init, PolicyTypes
  <1> QED  BY <1>1 DEF IInv, HistoryInv, ReadInv, CurrentInv, DecisionExact, NoGrantFromNowhere, Undecided, ByRole

\* The answer is given and the request is forgotten.
LEMMA AnsweredInvariant ==
    ASSUME IInv, Answered
    PROVE  IInv'
  <1>1. q' = NoRequest /\ own' = own /\ bindings' = bindings
    BY DEF Answered, Tables
  <1>2. PolicyTypes' /\ q'.pc = "idle"
    BY <1>1, NoRequestType DEF IInv, PolicyTypes
  <1> QED  BY <1>2 DEF IInv, HistoryInv, ReadInv, CurrentInv, DecisionExact, NoGrantFromNowhere, Undecided, ByRole

\* A request comes in: its history begins with what the tables say.
LEMMA AuthenticateInvariant ==
    ASSUME IInv, NEW ask \in Asked, NEW sent \in {"presigned", "signed", "keys", "nothing"},
           NEW valid \in BOOLEAN, NEW aware \in BOOLEAN, Authenticate(ask, sent, valid, aware)
    PROVE  IInv'
  <1> DEFINE who == authenticateS3Identity(sent, valid)
             verdict == evaluateBucketPolicy(Principal(who), ask)
             decisions == IF who = "bad" THEN {} ELSE IF aware THEN {verdict} ELSE {"none"}
             pc == IF who = "bad" \/ ~(Known(who) \/ aware) THEN "done"
                   ELSE IF aware THEN "policy" ELSE "resolve"
  <1>1. /\ q' = [NoRequest EXCEPT !.pc = pc, !.ask = ask, !.who = who, !.own = own,
                                  !.held = Held(who, ask), !.allowing = Allowing(ask),
                                  !.decisions = decisions]
        /\ UNCHANGED <<statements, bindings, own, policy>>
    BY DEF Authenticate, Tables
  <1>2. /\ PolicyTypes /\ who \in {"key", "unnamed", "bad", "nobody"} /\ pc \in {"done", "policy", "resolve"}
        /\ Held(who, ask) \subseteq Roles /\ own \in Held(who, ask) /\ Allowing(ask) \subseteq Roles
        /\ verdict \in Verdicts
    BY TableTypes DEF IInv, authenticateS3Identity
  <1>3. decisions \in SUBSET Verdicts
    BY <1>2 DEF Verdicts
  <1> HIDE DEF who, verdict, decisions, pc
  <1>4. q' \in Request
    BY <1>1, <1>2, <1>3, NoRequestType DEF Request, PolicyTypes
  <1>5. /\ q'.pc = pc /\ q'.ask = ask /\ q'.who = who /\ q'.own = own /\ q'.decisions = decisions
        /\ q'.held = Held(who, ask) /\ q'.allowing = Allowing(ask)
        /\ q'.decision = "none" /\ ~q'.allowed /\ ~q'.failed
    BY <1>1, NoRequestType DEF Request
  <1>6. PolicyTypes'
    BY <1>1, <1>2, <1>4 DEF PolicyTypes
  <1>7. /\ HeldNow' = Held(who, ask) /\ AllowingNow' = Allowing(ask) /\ Verdict' = verdict
        /\ (Known(q.who)' <=> Known(who))
    <2>1. HeldNow' = Held(who, ask)
      BY <1>1, <1>5 DEF HeldNow, Held, Bound
    <2>2. AllowingNow' = Allowing(ask)
      BY <1>1, <1>5 DEF AllowingNow, Allowing, Evaluate, Matching
    <2>3. Verdict' = verdict
      BY <1>1, <1>5 DEF Verdict, verdict, evaluateBucketPolicy, Principal
    <2> QED  BY <1>5, <2>1, <2>2, <2>3 DEF Known
  <1>8. HistoryInv'
    BY <1>5, <1>7 DEF HistoryInv, pc, decisions
  <1>9. ReadInv'
    BY <1>2, <1>5 DEF ReadInv, Undecided, ByRole, pc, decisions
  <1>10. CurrentInv'
    BY <1>1, <1>2, <1>5, <1>7 DEF CurrentInv, Undecided, ByRole, pc, decisions
  <1>11. NoGrantFromNowhere'
    BY <1>5 DEF NoGrantFromNowhere
  <1>12. DecisionExact'
    <2> SUFFICES ASSUME pc = "done", NEW d \in decisions
                 PROVE  ~Permitted(ask, who, d)'
      BY <1>5 DEF DecisionExact
    <2>1. ~Known(who)
      BY DEF pc, decisions, Known
    <2>2. d = "none"
      BY DEF pc, decisions
    <2> QED  BY <2>1, <2>2 DEF Permitted, Known
  <1> QED  BY <1>6, <1>8, <1>9, <1>10, <1>11, <1>12 DEF IInv

\* The bucket's policy is asked, or its query fails.
LEMMA PolicyInvariant ==
    ASSUME IInv, NEW lost \in BOOLEAN, EvaluateBucketPolicy(lost)
    PROVE  IInv'
  <1> DEFINE decision == Decision(lost)
             pc == IF decision = "deny" \/ ~Known(q.who) THEN "done" ELSE "resolve"
  <1>1. /\ q.pc = "policy"
        /\ q' = [q EXCEPT !.decision = decision, !.failed = lost, !.pc = pc,
                          !.allowed = decision = "allow" /\ ~Known(q.who)]
        /\ UNCHANGED Tables /\ own' = own /\ bindings' = bindings
    BY DEF EvaluateBucketPolicy, Tables
  <1>2. PolicyTypes /\ q \in Request /\ decision \in Verdicts /\ pc \in {"done", "resolve"}
    BY NowTypes DEF IInv, PolicyTypes, Decision, Verdict, Verdicts
  <1>3. decision = IF lost THEN "none" ELSE Verdict
    BY DEF Decision, Verdict
  <1> HIDE DEF decision, pc
  <1>4. /\ q' \in Request /\ q'.pc = pc /\ q'.decision = decision /\ (q'.failed <=> lost)
        /\ (q'.allowed <=> decision = "allow" /\ ~Known(q.who))
        /\ q'.ask = q.ask /\ q'.who = q.who /\ q'.own = q.own /\ q'.changes = q.changes
        /\ q'.held = q.held /\ q'.allowing = q.allowing /\ q'.decisions = q.decisions
    BY <1>1, <1>2, ZenonT(60) DEF Request
  <1>5. /\ Verdict' = Verdict /\ HeldNow' = HeldNow /\ AllowingNow' = AllowingNow
        /\ (RolesPermit' <=> RolesPermit) /\ (Known(q.who)' <=> Known(q.who))
    BY <1>1, <1>4, TablesStay DEF Known
  <1>6. PolicyTypes'
    BY <1>1, <1>2, <1>4 DEF PolicyTypes
  <1>7. HistoryInv'
    BY <1>1, <1>2, <1>4, <1>5 DEF IInv, HistoryInv, Undecided
  <1>8. Verdict \in q.decisions
    BY <1>1 DEF IInv, HistoryInv
  <1>9. ReadInv'
    BY <1>1, <1>2, <1>3, <1>4, <1>8 DEF IInv, ReadInv, Undecided, ByRole, pc
  <1>10. q.changes = 0 /\ ~lost /\ ~q.failed => q.decisions = {decision} /\ q.own = own
    BY <1>1, <1>3 DEF IInv, CurrentInv, Undecided
  <1>11. ~q.failed
    BY <1>1 DEF IInv, HistoryInv
  <1>12. CurrentInv'
    BY <1>1, <1>2, <1>4, <1>5, <1>10, <1>11 DEF CurrentInv, Undecided, ByRole, pc
  <1>13. NoGrantFromNowhere'
    BY <1>3, <1>4, <1>8 DEF NoGrantFromNowhere
  <1>14. DecisionExact'
    <2>1. ASSUME pc = "done", q.changes = 0, ~lost
          PROVE  q'.allowed <=> \E d \in q.decisions : Permitted(q.ask, q.who, d)'
      <3>1. q.decisions = {decision} /\ (decision = "deny" \/ ~Known(q.who))
        BY <1>10, <1>11, <2>1 DEF pc
      <3> QED  BY <1>4, <3>1 DEF Permitted, Known
    <2> QED  BY <1>4, <2>1 DEF DecisionExact
  <1> QED  BY <1>6, <1>7, <1>9, <1>12, <1>13, <1>14 DEF IInv

\* ResolveRole finds a role that the request holds.
LEMMA ResolveRoleInvariant ==
    ASSUME IInv, ResolveRole
    PROVE  IInv'
  <1>1. /\ q.pc = "resolve"
        /\ q' = [q EXCEPT !.pc = "bindings", !.first = IF Scoped(Listed) = {} THEN q.own ELSE FirstRole(Listed)]
        /\ UNCHANGED Tables /\ own' = own /\ bindings' = bindings
    BY DEF ResolveRole, Tables, Listed
  <1> DEFINE first == IF Scoped(Listed) = {} THEN q.own ELSE FirstRole(Listed)
  <1>2. PolicyTypes /\ q \in Request /\ HeldNow \subseteq q.held /\ q.own \in q.held /\ q.held \subseteq Roles
    BY <1>1 DEF IInv, PolicyTypes, HistoryInv, ReadInv, Undecided, Request
  <1>3. first \in q.held
    BY <1>2, NowTypes, FirstRoleListed
  <1>4. q.own = own => first = Resolved
    BY DEF Resolved
  <1> HIDE DEF first
  <1>5. /\ q' \in Request /\ q'.pc = "bindings" /\ q'.first = first
        /\ q'.ask = q.ask /\ q'.who = q.who /\ q'.own = q.own /\ q'.changes = q.changes
        /\ q'.held = q.held /\ q'.allowing = q.allowing /\ q'.decisions = q.decisions
        /\ q'.decision = q.decision /\ q'.failed = q.failed
    BY <1>1, <1>2, <1>3 DEF Request, first
  <1>6. /\ HeldNow' = HeldNow /\ AllowingNow' = AllowingNow
        /\ Listed' = Listed /\ Resolved' = Resolved /\ (Known(q.who)' <=> Known(q.who))
    BY <1>1, <1>5, TablesStay DEF Known
  <1>7. PolicyTypes'
    BY <1>1, <1>2, <1>5 DEF PolicyTypes
  <1>8. HistoryInv' /\ ReadInv'
    BY <1>1, <1>3, <1>5, <1>6 DEF IInv, HistoryInv, ReadInv, Undecided, ByRole
  <1>9. CurrentInv'
    BY <1>1, <1>4, <1>5, <1>6 DEF IInv, CurrentInv, Undecided, ByRole
  <1>10. NoGrantFromNowhere' /\ DecisionExact'
    BY <1>5 DEF NoGrantFromNowhere, DecisionExact
  <1> QED  BY <1>7, <1>8, <1>9, <1>10 DEF IInv

\* The bindings are read again, for the roles to be asked.
LEMMA ReadBindingsInvariant ==
    ASSUME IInv, ReadBindings
    PROVE  IInv'
  <1>1. /\ q.pc = "bindings" /\ q' = [q EXCEPT !.pc = "roles", !.roles = Listed]
        /\ UNCHANGED Tables /\ own' = own /\ bindings' = bindings
    BY DEF ReadBindings, Tables, Listed
  <1>2. /\ PolicyTypes /\ q \in Request /\ HeldNow \subseteq q.held /\ Listed \in RoleLists
        /\ \A i \in Scoped(Listed) : Listed[i] \in HeldNow
    BY <1>1, NowTypes DEF IInv, PolicyTypes, HistoryInv, Undecided
  <1>3. /\ q' \in Request /\ q'.pc = "roles" /\ q'.roles = Listed /\ q'.first = q.first
        /\ q'.ask = q.ask /\ q'.who = q.who /\ q'.own = q.own /\ q'.changes = q.changes
        /\ q'.held = q.held /\ q'.allowing = q.allowing /\ q'.decisions = q.decisions
        /\ q'.decision = q.decision /\ q'.failed = q.failed
    BY <1>1, <1>2 DEF Request
  <1>4. /\ HeldNow' = HeldNow /\ AllowingNow' = AllowingNow
        /\ Listed' = Listed /\ Resolved' = Resolved /\ (Known(q.who)' <=> Known(q.who))
    BY <1>1, <1>3, TablesStay DEF Known
  <1>5. PolicyTypes'
    BY <1>1, <1>2, <1>3 DEF PolicyTypes
  <1>6. HistoryInv' /\ ReadInv'
    BY <1>1, <1>2, <1>3, <1>4 DEF IInv, HistoryInv, ReadInv, Undecided, ByRole
  <1>7. CurrentInv'
    BY <1>1, <1>3, <1>4 DEF IInv, CurrentInv, Undecided, ByRole
  <1>8. NoGrantFromNowhere' /\ DecisionExact'
    BY <1>3 DEF NoGrantFromNowhere, DecisionExact
  <1> QED  BY <1>5, <1>6, <1>7, <1>8 DEF IInv

\* A query of AuthorizeSubject fails: only the bucket's policy can allow the request.
LEMMA AuthorizeFailsInvariant ==
    ASSUME IInv, AuthorizeFails
    PROVE  IInv'
  <1>1. /\ q.pc \in ByRole /\ q' = [q EXCEPT !.pc = "done", !.failed = TRUE, !.allowed = q.decision = "allow"]
        /\ UNCHANGED Tables /\ own' = own /\ bindings' = bindings
    BY DEF AuthorizeFails, Tables, ByRole
  <1>2. PolicyTypes /\ q \in Request
    BY DEF IInv, PolicyTypes
  <1>3. /\ q' \in Request /\ q'.pc = "done" /\ q'.failed /\ (q'.allowed <=> q.decision = "allow")
        /\ q'.held = q.held /\ q'.allowing = q.allowing /\ q'.decisions = q.decisions
    BY <1>1, <1>2 DEF Request
  <1>4. PolicyTypes'
    BY <1>1, <1>2, <1>3 DEF PolicyTypes
  <1>5. HistoryInv' /\ ReadInv' /\ CurrentInv'
    BY <1>3 DEF HistoryInv, ReadInv, CurrentInv, Undecided, ByRole
  <1>6. NoGrantFromNowhere' /\ DecisionExact'
    BY <1>1, <1>3 DEF IInv, ReadInv, NoGrantFromNowhere, DecisionExact
  <1> QED  BY <1>4, <1>5, <1>6 DEF IInv

\* One role is asked: it allows the request, or the next one is asked, and after the last of them
\* the role resolved first.
LEMMA AuthorizeRoleInvariant ==
    ASSUME IInv, AuthorizeRole
    PROVE  IInv'
  <1> DEFINE left == Scoped(q.roles)
             role == IF left = {} THEN q.first ELSE FirstRole(q.roles)
             rest == [i \in left \ {Earliest(left)} |-> q.roles[i]]
  <1>1. /\ q.pc = "roles"
        /\ q' = IF Evaluate(role, q.ask) THEN [q EXCEPT !.pc = "done", !.allowed = TRUE]
                ELSE IF left # {} THEN [q EXCEPT !.roles = rest]
                ELSE [q EXCEPT !.pc = "done", !.allowed = q.decision = "allow"]
        /\ UNCHANGED Tables /\ own' = own /\ bindings' = bindings
    BY DEF AuthorizeRole, Tables
  <1>2. /\ PolicyTypes /\ q \in Request /\ q.roles \in RoleLists /\ q.held \subseteq Roles
        /\ HeldNow \subseteq q.held /\ AllowingNow \subseteq q.allowing
        /\ q.first \in q.held /\ \A i \in left : q.roles[i] \in q.held
    BY <1>1 DEF IInv, PolicyTypes, HistoryInv, ReadInv, Undecided, Request
  <1>3. left # {} => Earliest(left) \in left /\ role = q.roles[Earliest(left)]
    BY <1>2, FirstRoleListed
  <1>4. role \in q.held /\ (Evaluate(role, q.ask) <=> role \in AllowingNow)
    BY <1>2, <1>3, AllowingRoles
  <1>5. rest \in RoleLists /\ Scoped(rest) = left \ {Earliest(left)}
    BY <1>2, RestOfRoles
  <1>6. \A i \in Scoped(rest) : rest[i] = q.roles[i]
    BY <1>5
  <1>7. ASSUME q.changes = 0, ~q.failed
        PROVE  /\ Known(q.who) /\ q.decisions = {q.decision} /\ q.decision # "deny" /\ q.first = Resolved
               /\ left \subseteq Scoped(Listed) /\ \A i \in left : q.roles[i] = Listed[i]
               /\ \A i \in Scoped(Listed) \ left : Listed[i] \notin AllowingNow
    BY <1>1, <1>7 DEF IInv, CurrentInv, ByRole
  <1>8. /\ q.decision = "allow" => "allow" \in q.decisions
        /\ q.decisions = {"deny"} => q.failed
    BY <1>1 DEF IInv, ReadInv, ByRole
  <1> HIDE DEF left, role, rest
  <1>9. CASE ~Evaluate(role, q.ask) /\ left # {}
    <2>1. /\ q' \in Request /\ q'.pc = "roles" /\ q'.roles = rest /\ q'.first = q.first
          /\ q'.ask = q.ask /\ q'.who = q.who /\ q'.own = q.own /\ q'.changes = q.changes
          /\ q'.held = q.held /\ q'.allowing = q.allowing /\ q'.decisions = q.decisions
          /\ q'.decision = q.decision /\ q'.failed = q.failed
      BY <1>1, <1>2, <1>5, <1>9 DEF Request
    <2>2. /\ HeldNow' = HeldNow /\ AllowingNow' = AllowingNow
          /\ Listed' = Listed /\ Resolved' = Resolved /\ (Known(q.who)' <=> Known(q.who))
      BY <1>1, <2>1, TablesStay DEF Known
    <2>3. PolicyTypes'
      BY <1>1, <1>2, <2>1 DEF PolicyTypes
    <2>4. HistoryInv'
      BY <1>2, <2>1, <2>2 DEF HistoryInv, Undecided
    <2>5. ReadInv'
      BY <1>1, <1>2, <1>5, <1>6, <2>1 DEF IInv, ReadInv, Undecided, ByRole
    <2>6. CurrentInv'
      <3> SUFFICES ASSUME q.changes = 0, ~q.failed
                   PROVE  CurrentInv'
        BY <2>1 DEF CurrentInv
      <3>1. q.own = own
        BY <1>1 DEF IInv, CurrentInv, Undecided
      <3>2. Scoped(rest) \subseteq Scoped(Listed) /\ \A i \in Scoped(rest) : rest[i] = Listed[i]
        BY <1>5, <1>6, <1>7
      <3>3. Listed[Earliest(left)] \notin AllowingNow
        BY <1>3, <1>4, <1>7, <1>9
      <3>4. \A i \in Scoped(Listed) \ Scoped(rest) : Listed[i] \notin AllowingNow
        BY <1>5, <1>7, <3>3
      <3> QED  BY <1>1, <1>7, <2>1, <2>2, <3>1, <3>2, <3>4 DEF CurrentInv, Undecided, ByRole
    <2>7. NoGrantFromNowhere' /\ DecisionExact'
      BY <2>1 DEF NoGrantFromNowhere, DecisionExact
    <2> QED  BY <2>3, <2>4, <2>5, <2>6, <2>7 DEF IInv
  <1>10. CASE Evaluate(role, q.ask) \/ left = {}
    <2>1. /\ q' \in Request /\ q'.pc = "done"
          /\ (q'.allowed <=> Evaluate(role, q.ask) \/ q.decision = "allow")
          /\ q'.ask = q.ask /\ q'.who = q.who /\ q'.changes = q.changes
          /\ q'.held = q.held /\ q'.allowing = q.allowing /\ q'.decisions = q.decisions
          /\ q'.failed = q.failed
      BY <1>1, <1>2, <1>10, ZenonT(60) DEF Request
    <2>2. RolesPermit' <=> RolesPermit
      BY <1>1, <2>1, TablesStay
    <2>3. PolicyTypes'
      BY <1>1, <1>2, <2>1 DEF PolicyTypes
    <2>4. HistoryInv' /\ ReadInv' /\ CurrentInv'
      BY <2>1 DEF HistoryInv, ReadInv, CurrentInv, Undecided, ByRole
    <2>5. NoGrantFromNowhere'
      BY <1>2, <1>4, <1>8, <2>1 DEF NoGrantFromNowhere
    <2>6. DecisionExact'
      <3>1. ASSUME q.changes = 0, ~q.failed
            PROVE  RolesPermit <=> Evaluate(role, q.ask)
        <4>1. RolesPermit <=> \/ Scoped(Listed) = {} /\ own \in AllowingNow
                              \/ \E i \in Scoped(Listed) : Listed[i] \in AllowingNow
          BY <1>2, <1>7, <3>1, RolesPermitByList
        <4>2. CASE left # {}
          BY <1>3, <1>4, <1>7, <1>10, <3>1, <4>1, <4>2
        <4>3. CASE left = {}
          <5>1. role = Resolved
            BY <1>7, <3>1, <4>3 DEF role
          <5>2. CASE Scoped(Listed) = {}
            BY <1>4, <4>1, <5>1, <5>2 DEF Resolved
          <5>3. CASE Scoped(Listed) # {}
            <6>1. role \in {Listed[i] : i \in Scoped(Listed)}
              BY <1>2, <5>1, <5>3, NowTypes, FirstRoleListed DEF Resolved
            <6> QED  BY <1>4, <1>7, <3>1, <4>1, <4>3, <5>3, <6>1
          <5> QED  BY <5>2, <5>3
        <4> QED  BY <4>2, <4>3
      <3>2. ASSUME q.changes = 0, ~q.failed, NEW d \in q.decisions
            PROVE  Permitted(q.ask, q.who, d)' <=> Evaluate(role, q.ask) \/ q.decision = "allow"
        <4>1. Permitted(q.ask, q.who, d)' <=> d # "deny" /\ (d = "allow" \/ RolesPermit')
          BY DEF Permitted, RolesPermit, AllowingNow
        <4>2. d = q.decision /\ q.decision # "deny"
          BY <1>7, <3>2
        <4> QED  BY <2>2, <3>1, <3>2, <4>1, <4>2
      <3> QED  BY <1>7, <2>1, <3>2 DEF DecisionExact
    <2> QED  BY <2>3, <2>4, <2>5, <2>6 DEF IInv
  <1> QED  BY <1>9, <1>10

-----------------------------------------------------------------------------
(* The operators and the migrations.                                       *)

\* A table changes: whatever it says now joins the history, and the request is no longer one
\* whose decision must be exact.
LEMMA ChangedInvariant ==
    ASSUME IInv, Changed, bindings' \in [Scopes -> Roles \cup {"none"}], own' \in Roles
    PROVE  IInv'
  <1>1. CASE q.pc = "idle" /\ UNCHANGED q
    BY <1>1 DEF IInv, PolicyTypes, HistoryInv, ReadInv, CurrentInv, DecisionExact, NoGrantFromNowhere,
                Undecided, ByRole
  <1>2. CASE q.pc \notin {"idle", "done"}
    <2>1. PICK old \in {q} :
            q' = [old EXCEPT !.changes = @ + 1,
                             !.held = @ \cup Held(old.who, old.ask)', !.allowing = @ \cup Allowing(old.ask)',
                             !.decisions = IF old.pc = "policy"
                                           THEN @ \cup {evaluateBucketPolicy(Principal(old.who), old.ask)'} ELSE @]
      BY <1>2 DEF Changed
    <2> DEFINE held == Held(old.who, old.ask)'
               allowing == Allowing(old.ask)'
               verdict == evaluateBucketPolicy(Principal(old.who), old.ask)'
    <2>2. held \subseteq Roles /\ allowing \subseteq Roles /\ verdict \in Verdicts
      BY DEF Held, Bound, Allowing, evaluateBucketPolicy, Verdicts
    <2>3. q \in Request /\ old = q
      BY DEF IInv, PolicyTypes
    <2> HIDE DEF held, allowing, verdict
    <2>4. q' = [q EXCEPT !.changes = q.changes + 1, !.held = q.held \cup held, !.allowing = q.allowing \cup allowing,
                         !.decisions = IF q.pc = "policy" THEN q.decisions \cup {verdict} ELSE q.decisions]
      BY <2>1, <2>3 DEF held, allowing, verdict
    <2>5. /\ q' \in Request /\ q'.changes = q.changes + 1 /\ q.changes \in Nat
          /\ q'.held = q.held \cup held /\ q'.allowing = q.allowing \cup allowing
          /\ q'.decisions = IF q.pc = "policy" THEN q.decisions \cup {verdict} ELSE q.decisions
          /\ q'.pc = q.pc /\ q'.ask = q.ask /\ q'.who = q.who /\ q'.own = q.own
          /\ q'.first = q.first /\ q'.roles = q.roles /\ q'.decision = q.decision /\ q'.failed = q.failed
      <3> DEFINE count == q.changes + 1
                 nowHeld == q.held \cup held
                 nowAllowing == q.allowing \cup allowing
                 decided == IF q.pc = "policy" THEN q.decisions \cup {verdict} ELSE q.decisions
      <3>1. q.changes \in Nat /\ q.held \subseteq Roles /\ q.allowing \subseteq Roles /\ q.decisions \subseteq Verdicts
        BY <2>3 DEF Request
      <3>2. count \in Nat /\ nowHeld \subseteq Roles /\ nowAllowing \subseteq Roles /\ decided \subseteq Verdicts
        BY <2>2, <3>1
      <3>3. q' = [q EXCEPT !.changes = count, !.held = nowHeld, !.allowing = nowAllowing, !.decisions = decided]
        BY <2>4
      <3> HIDE DEF count, nowHeld, nowAllowing, decided
      <3>4. q' \in Request
        BY <2>3, <3>2, <3>3 DEF Request
      <3>5. /\ q'.changes = count /\ q'.held = nowHeld /\ q'.allowing = nowAllowing /\ q'.decisions = decided
            /\ q'.pc = q.pc /\ q'.ask = q.ask /\ q'.who = q.who /\ q'.own = q.own
            /\ q'.first = q.first /\ q'.roles = q.roles /\ q'.decision = q.decision /\ q'.failed = q.failed
        BY <2>3, <3>3 DEF Request
      <3> QED  BY <3>1, <3>4, <3>5 DEF count, nowHeld, nowAllowing, decided
    <2>6. HeldNow' = held /\ AllowingNow' = allowing /\ Verdict' = verdict
      <3>1. HeldNow' = held
        BY <2>3, <2>5 DEF HeldNow, held, Held, Bound
      <3>2. AllowingNow' = allowing
        BY <2>3, <2>5 DEF AllowingNow, allowing, Allowing, Evaluate, Matching
      <3>3. Verdict' = verdict
        BY <2>3, <2>5 DEF Verdict, verdict, evaluateBucketPolicy, Principal
      <3> QED  BY <3>1, <3>2, <3>3
    <2>7. PolicyTypes'
      BY <2>5 DEF PolicyTypes
    <2>8. HistoryInv'
      BY <2>5, <2>6 DEF IInv, HistoryInv
    <2>9. ReadInv'
      BY <2>5 DEF IInv, ReadInv, Undecided, ByRole
    <2>10. q'.changes # 0
      BY <2>5
    <2>11. CurrentInv' /\ DecisionExact'
      BY <2>10 DEF CurrentInv, DecisionExact
    <2>12. NoGrantFromNowhere'
      BY <1>2, <2>5 DEF NoGrantFromNowhere
    <2> QED  BY <2>7, <2>8, <2>9, <2>11, <2>12 DEF IInv
  <1> QED  BY <1>1, <1>2 DEF Changed

\* A step that changes nothing keeps the inductive invariant.
LEMMA StutterInv == IInv /\ UNCHANGED vars => IInv'
  <1> SUFFICES ASSUME IInv, UNCHANGED vars PROVE IInv'
    OBVIOUS
  <1>1. UNCHANGED <<statements, bindings, own, policy, q>>
    BY DEF vars
  <1>2. UNCHANGED Tables /\ q'.who = q.who /\ q'.ask = q.ask
    BY <1>1 DEF Tables
  <1>3. /\ Verdict' = Verdict /\ HeldNow' = HeldNow /\ AllowingNow' = AllowingNow
        /\ Listed' = Listed /\ Resolved' = Resolved
    BY <1>2, TablesStay
  <1>4. HistoryInv' /\ ReadInv' /\ CurrentInv'
    BY <1>1, <1>3 DEF IInv, HistoryInv, ReadInv, CurrentInv, Known
  <1>5. PolicyTypes' /\ NoGrantFromNowhere'
    BY <1>1 DEF IInv, PolicyTypes, NoGrantFromNowhere
  <1>6. DecisionExact'
    BY <1>1, <1>3, ZenonT(60) DEF IInv, DecisionExact, Permitted, Known, Bound, AllowingNow
  <1> QED  BY <1>4, <1>5, <1>6 DEF IInv

\* Every step keeps the inductive invariant.
LEMMA StepInv == IInv /\ [Next]_vars => IInv'
  <1> SUFFICES ASSUME IInv, [Next]_vars PROVE IInv'
    OBVIOUS
  <1>1. ASSUME NEW ask \in Asked, NEW sent \in {"presigned", "signed", "keys", "nothing"},
               NEW valid \in BOOLEAN, NEW aware \in BOOLEAN, Authenticate(ask, sent, valid, aware)
        PROVE  IInv'
    BY <1>1, AuthenticateInvariant
  <1>2. ASSUME NEW lost \in BOOLEAN, EvaluateBucketPolicy(lost) PROVE IInv'
    BY <1>2, PolicyInvariant
  <1>3. CASE ResolveRole \/ ReadBindings \/ AuthorizeRole \/ AuthorizeFails \/ Answered
    BY <1>3, ResolveRoleInvariant, ReadBindingsInvariant, AuthorizeRoleInvariant,
       AuthorizeFailsInvariant, AnsweredInvariant
  <1>4. bindings \in [Scopes -> Roles \cup {"none"}] /\ own \in Roles
    BY DEF IInv, PolicyTypes
  <1>5. CASE \/ \E st \in Statements : CreateStatement(st) \/ DeleteStatement(st)
             \/ \E old \in Statements, st \in Statements : UpdateStatement(old, st)
             \/ \E doc \in Documents : PutBucketPolicy(doc)
             \/ DeleteBucketPolicy \/ Migrate
    <2>1. Changed /\ bindings' = bindings /\ own' = own
      BY <1>5 DEF CreateStatement, DeleteStatement, UpdateStatement, PutBucketPolicy, DeleteBucketPolicy, Migrate
    <2> QED  BY <1>4, <2>1, ChangedInvariant
  <1>6. ASSUME NEW i \in Scopes, DeleteBinding(i) \/ \E role \in Roles : UpsertBinding(i, role)
        PROVE  IInv'
    <2>1. Changed /\ bindings' \in [Scopes -> Roles \cup {"none"}] /\ own' = own
      BY <1>4, <1>6 DEF DeleteBinding, UpsertBinding
    <2> QED  BY <1>4, <2>1, ChangedInvariant
  <1>7. ASSUME NEW role \in Roles, UpdateRole(role) PROVE IInv'
    <2>1. Changed /\ bindings' = bindings /\ own' \in Roles
      BY <1>7 DEF UpdateRole
    <2> QED  BY <1>4, <2>1, ChangedInvariant
  <1> QED  BY <1>1, <1>2, <1>3, <1>5, <1>6, <1>7, StutterInv DEF Next

-----------------------------------------------------------------------------
(* Policies: the results.                                                  *)

\* In every reachable state the invariant holds, however the tables change.
THEOREM Invariance == Spec => []IInv
  <1> QED  BY InitInv, StepInv, PTL DEF Spec

\* A decision that nothing disturbed is the one the tables call for, although it takes several
\* queries, reads the bindings twice and asks one role a second time (AuthorizeSubject,
\* authorizeBucketPolicyAware).
THEOREM DecisionsAreExact == Spec => []DecisionExact
  <1>1. IInv => DecisionExact
    BY DEF IInv
  <1> QED  BY <1>1, Invariance, PTL

\* However roles, bindings and policies change while it is decided, an allowed request had a
\* role or a policy that allowed it while it ran, and no lasting deny was passed over
\* (AuthorizeSubject, EvaluateBucketPolicy).
THEOREM GrantsHaveAReason == Spec => []NoGrantFromNowhere
  <1>1. IInv => NoGrantFromNowhere
    BY DEF IInv
  <1> QED  BY <1>1, Invariance, PTL

\* Whatever the tables say, the evaluation tool does not call denied what AuthorizeSubject
\* allows: its evaluation of a role agrees, and it asks every role that counts
\* (ExplainSubjectAuthorization).
THEOREM ExplanationsCoverAccess == Spec => []ExplainCoversAccess
  <1>1. ExplainCoversAccess
    <2> SUFFICES ASSUME NEW ask \in Asked, NEW who \in {"key", "unnamed"}, NEW fallbackRole \in Roles,
                        Permitted(ask, who, "none"), fallbackRole = own \/ (who = "key" /\ Bound(ask) # {})
                 PROVE  Explain(ask, fallbackRole)
      BY DEF ExplainCoversAccess
    <2>1. PICK role \in {fallbackRole} \cup Bound(ask) : role \in Allowing(ask)
      BY DEF Permitted
    <2>2. evaluateRoleStatements(role, ask)
      BY <2>1, EvaluationsAgree DEF Allowing
    <2> QED  BY <2>1, <2>2 DEF Explain
  <1> QED  BY <1>1, PTL

-----------------------------------------------------------------------------
(* Sums over finite sets.                                                  *)

\* g adds up w over every subset of S.
Adds(g, w, S) ==
    g = [s \in SUBSET S |-> IF s = {} THEN 0
                            ELSE w[CHOOSE x \in s : TRUE] + g[s \ {CHOOSE x \in s : TRUE}]]

\* The total of the weights over S.
Total(w, S) == (CHOOSE g : Adds(g, w, S))[S]

\* Of the subsets of a finite set that have a property, one has no smaller one among them: sums are
\* taken element by element, and this stands for induction over the sets they are taken of.
LEMMA SmallestSubset ==
    ASSUME NEW S, IsFiniteSet(S), NEW B \in SUBSET (SUBSET S), B # {}
    PROVE  \E m \in B : \A t \in B : t \subseteq m => t = m
  <1>1. IsWellFoundedOn(StrictSubsetOrdering(S), SUBSET S)
    BY FS_StrictSubsetOrderingWellFounded, FS_FiniteSubsetsOfFinite
  <1>2. PICK m \in B : \A t \in B : ~ (<<t, m>> \in StrictSubsetOrdering(S))
    BY <1>1, WFMin
  <1> QED BY <1>2 DEF StrictSubsetOrdering

\* Two sums of the same weights agree on the sets they share.
LEMMA AddsAgree ==
    ASSUME NEW S, IsFiniteSet(S), NEW T, NEW U, S \subseteq T, S \subseteq U,
           NEW w, NEW v, \A x \in S : w[x] = v[x],
           NEW g, Adds(g, w, T), NEW h, Adds(h, v, U)
    PROVE  g[S] = h[S]
  <1> DEFINE Bad == {s \in SUBSET S : g[s] # h[s]}
  <1>1. SUFFICES ASSUME Bad # {} PROVE FALSE
    OBVIOUS
  <1>2. PICK m \in Bad : \A t \in Bad : t \subseteq m => t = m
    <2>1. Bad \in SUBSET (SUBSET S)
      OBVIOUS
    <2> HIDE DEF Bad
    <2> QED BY <1>1, <2>1, SmallestSubset
  <1>3. g[m] = IF m = {} THEN 0 ELSE w[CHOOSE x \in m : TRUE] + g[m \ {CHOOSE x \in m : TRUE}]
    BY DEF Adds
  <1>4. h[m] = IF m = {} THEN 0 ELSE v[CHOOSE x \in m : TRUE] + h[m \ {CHOOSE x \in m : TRUE}]
    BY DEF Adds
  <1>5. m # {}
    BY <1>3, <1>4
  <1>6. PICK c : c = CHOOSE x \in m : TRUE
    OBVIOUS
  <1>7. c \in m
    BY <1>5, <1>6
  <1>8. g[m \ {c}] = h[m \ {c}]
    BY <1>2, <1>7
  <1> QED BY <1>3, <1>4, <1>5, <1>6, <1>7, <1>8

\* Over a finite set there is such a function.
LEMMA AddsExist ==
    ASSUME NEW S, IsFiniteSet(S), NEW w
    PROVE  \E g : Adds(g, w, S)
  <1> DEFINE Bad == {s \in SUBSET S : ~\E g : Adds(g, w, s)}
  <1>1. SUFFICES ASSUME Bad # {} PROVE FALSE
    OBVIOUS
  <1>2. PICK m \in Bad : \A t \in Bad : t \subseteq m => t = m
    <2>1. Bad \in SUBSET (SUBSET S)
      OBVIOUS
    <2> HIDE DEF Bad
    <2> QED BY <1>1, <2>1, SmallestSubset
  <1> DEFINE g == [s \in SUBSET m |-> IF s = {} THEN 0
                   ELSE w[CHOOSE x \in s : TRUE] + Total(w, s \ {CHOOSE x \in s : TRUE})]
  <1>3. ASSUME NEW s \in SUBSET m, s # m PROVE g[s] = Total(w, s)
    <2>1. PICK h : h = CHOOSE z : Adds(z, w, s)
      OBVIOUS
    <2>2. Adds(h, w, s)
      BY <1>2, <1>3, <2>1
    <2>3. Total(w, s) = h[s]
      BY <2>1 DEF Total
    <2>4. h[s] = IF s = {} THEN 0 ELSE w[CHOOSE x \in s : TRUE] + h[s \ {CHOOSE x \in s : TRUE}]
      BY <2>2 DEF Adds
    <2>5. CASE s = {}
      BY <2>3, <2>4, <2>5
    <2>6. CASE s # {}
      <3>1. PICK c : c = CHOOSE x \in s : TRUE
        OBVIOUS
      <3>2. c \in s
        BY <2>6, <3>1
      <3>3. PICK k : k = CHOOSE z : Adds(z, w, s \ {c})
        OBVIOUS
      <3>4. Adds(k, w, s \ {c})
        BY <1>2, <1>3, <3>2, <3>3
      <3>5. IsFiniteSet(s \ {c})
        BY FS_Subset
      <3>6. k[s \ {c}] = h[s \ {c}]
        BY <2>2, <3>4, <3>5, AddsAgree
      <3>7. Total(w, s \ {c}) = h[s \ {c}]
        BY <3>3, <3>6 DEF Total
      <3> QED BY <2>3, <2>4, <2>6, <3>1, <3>7
    <2> QED BY <2>5, <2>6
  <1>4. ASSUME NEW s \in SUBSET m, s # {} PROVE g[s \ {CHOOSE x \in s : TRUE}] = Total(w, s \ {CHOOSE x \in s : TRUE})
    <2>1. (CHOOSE x \in s : TRUE) \in s
      BY <1>4
    <2> HIDE DEF g
    <2> QED BY <1>3, <2>1
  <1>5. Adds(g, w, m)
    <2>1. \A s \in SUBSET m : g[s] = IF s = {} THEN 0
            ELSE w[CHOOSE x \in s : TRUE] + g[s \ {CHOOSE x \in s : TRUE}]
      <3> TAKE s \in SUBSET m
      <3>1. g[s] = IF s = {} THEN 0
               ELSE w[CHOOSE x \in s : TRUE] + Total(w, s \ {CHOOSE x \in s : TRUE})
        OBVIOUS
      <3> HIDE DEF g
      <3> QED BY <1>4, <3>1
    <2>2. g = [s \in SUBSET m |-> g[s]]
      OBVIOUS
    <2> HIDE DEF g
    <2> QED BY <2>1, <2>2, Zenon DEF Adds
  <1> HIDE DEF g
  <1> QED BY <1>2, <1>5

\* Only the weights of the elements count.
LEMMA TotalAgree ==
    ASSUME NEW S, IsFiniteSet(S), NEW w, NEW v, \A x \in S : w[x] = v[x]
    PROVE  Total(w, S) = Total(v, S)
  <1>1. PICK g : g = CHOOSE z : Adds(z, w, S)
    OBVIOUS
  <1>2. PICK h : h = CHOOSE z : Adds(z, v, S)
    OBVIOUS
  <1>3. Adds(g, w, S) /\ Adds(h, v, S)
    BY <1>1, <1>2, AddsExist
  <1>4. g[S] = h[S]
    BY <1>3, AddsAgree
  <1> QED BY <1>1, <1>2, <1>4 DEF Total

\* A total is the weight of the element chosen and the total of the rest.
LEMMA TotalStep ==
    ASSUME NEW S, IsFiniteSet(S), NEW w
    PROVE  Total(w, S) = IF S = {} THEN 0 ELSE w[CHOOSE x \in S : TRUE] + Total(w, S \ {CHOOSE x \in S : TRUE})
  <1>1. PICK g : g = CHOOSE z : Adds(z, w, S)
    OBVIOUS
  <1>2. Adds(g, w, S)
    BY <1>1, AddsExist
  <1>3. Total(w, S) = g[S]
    BY <1>1 DEF Total
  <1>4. g[S] = IF S = {} THEN 0 ELSE w[CHOOSE x \in S : TRUE] + g[S \ {CHOOSE x \in S : TRUE}]
    BY <1>2 DEF Adds
  <1>5. ASSUME NEW c PROVE g[S \ {c}] = Total(w, S \ {c})
    <2>1. IsFiniteSet(S \ {c})
      BY FS_Subset
    <2>2. PICK h : h = CHOOSE z : Adds(z, w, S \ {c})
      OBVIOUS
    <2>3. Adds(h, w, S \ {c})
      BY <2>1, <2>2, AddsExist
    <2>4. g[S \ {c}] = h[S \ {c}]
      BY <1>2, <2>1, <2>3, AddsAgree
    <2> QED BY <2>2, <2>4 DEF Total
  <1> QED BY <1>3, <1>4, <1>5

\* A total of naturals is one.
LEMMA TotalType ==
    ASSUME NEW S, IsFiniteSet(S), NEW w, \A x \in S : w[x] \in Nat
    PROVE  Total(w, S) \in Nat
  <1> DEFINE Bad == {s \in SUBSET S : Total(w, s) \notin Nat}
  <1>1. SUFFICES ASSUME Bad # {} PROVE FALSE
    OBVIOUS
  <1>2. PICK m \in Bad : \A t \in Bad : t \subseteq m => t = m
    <2>1. Bad \in SUBSET (SUBSET S)
      OBVIOUS
    <2> HIDE DEF Bad
    <2> QED BY <1>1, <2>1, SmallestSubset
  <1>3. IsFiniteSet(m)
    BY FS_Subset
  <1>4. Total(w, m) = IF m = {} THEN 0 ELSE w[CHOOSE x \in m : TRUE] + Total(w, m \ {CHOOSE x \in m : TRUE})
    BY <1>3, TotalStep
  <1>5. m # {}
    BY <1>4
  <1>6. PICK c : c = CHOOSE x \in m : TRUE
    OBVIOUS
  <1>7. c \in m
    BY <1>5, <1>6
  <1>8. Total(w, m \ {c}) \in Nat
    BY <1>2, <1>7
  <1> QED BY <1>4, <1>5, <1>6, <1>7, <1>8

\* It does not matter in which order the elements are added.
LEMMA TotalRemove ==
    ASSUME NEW S, IsFiniteSet(S), NEW w, \A x \in S : w[x] \in Nat, NEW y \in S
    PROVE  Total(w, S) = w[y] + Total(w, S \ {y})
  <1> DEFINE Bad == {s \in SUBSET S : \E x \in s : Total(w, s) # w[x] + Total(w, s \ {x})}
  <1>1. SUFFICES ASSUME Bad # {} PROVE FALSE
    OBVIOUS
  <1>2. PICK m \in Bad : \A t \in Bad : t \subseteq m => t = m
    <2>1. Bad \in SUBSET (SUBSET S)
      OBVIOUS
    <2> HIDE DEF Bad
    <2> QED BY <1>1, <2>1, SmallestSubset
  <1>3. PICK x \in m : Total(w, m) # w[x] + Total(w, m \ {x})
    BY <1>2
  <1>4. PICK c : c = CHOOSE z \in m : TRUE
    OBVIOUS
  <1>5. c \in m
    BY <1>3, <1>4
  <1>6. IsFiniteSet(m) /\ IsFiniteSet(m \ {x}) /\ IsFiniteSet(m \ {c}) /\ IsFiniteSet(m \ {c, x})
    BY FS_Subset
  <1>7. Total(w, m) = w[c] + Total(w, m \ {c})
    BY <1>4, <1>5, <1>6, TotalStep
  <1>8. c # x
    BY <1>3, <1>7
  <1>9. Total(w, m \ {c}) = w[x] + Total(w, m \ {c, x})
    <2>1. m \ {c} \notin Bad /\ x \in m \ {c}
      BY <1>2, <1>5, <1>8
    <2>2. (m \ {c}) \ {x} = m \ {c, x}
      OBVIOUS
    <2> QED BY <2>1, <2>2
  <1>10. Total(w, m \ {x}) = w[c] + Total(w, m \ {c, x})
    <2>1. m \ {x} \notin Bad /\ c \in m \ {x}
      BY <1>2, <1>5, <1>8
    <2>2. (m \ {x}) \ {c} = m \ {c, x}
      OBVIOUS
    <2> QED BY <2>1, <2>2
  <1>11. w[c] \in Nat /\ w[x] \in Nat /\ Total(w, m \ {c, x}) \in Nat
    <2>1. \A z \in m \ {c, x} : w[z] \in Nat
      OBVIOUS
    <2> QED BY <1>5, <1>6, <2>1, TotalType
  <1> QED BY <1>3, <1>7, <1>9, <1>10, <1>11

\* A set that is reached by a function from another has at most its total when no element weighs more
\* than what it comes from, even if several elements become one.
LEMMA TotalImage ==
    ASSUME NEW S, IsFiniteSet(S), NEW w, \A x \in S : w[x] \in Nat,
           NEW f, NEW T, \A y \in T : \E x \in S : y = f[x],
           NEW v, \A y \in T : v[y] \in Nat, \A x \in S : f[x] \in T => v[f[x]] <= w[x]
    PROVE  IsFiniteSet(T) /\ Total(v, T) <= Total(w, S)
  <1> DEFINE Good(s, t) == (\A y \in t : \E x \in s : y = f[x]) => IsFiniteSet(t) /\ Total(v, t) <= Total(w, s)
             Bad == {s \in SUBSET S : \E t \in SUBSET T : ~Good(s, t)}
  <1>1. SUFFICES ASSUME Bad # {} PROVE FALSE
    OBVIOUS
  <1>2. PICK m \in Bad : \A t \in Bad : t \subseteq m => t = m
    <2>1. Bad \in SUBSET (SUBSET S)
      OBVIOUS
    <2> HIDE DEF Bad
    <2> QED BY <1>1, <2>1, SmallestSubset
  <1>3. PICK t \in SUBSET T : (\A y \in t : \E x \in m : y = f[x]) /\ ~(IsFiniteSet(t) /\ Total(v, t) <= Total(w, m))
    BY <1>2
  <1>4. IsFiniteSet(m) /\ Total(w, m) \in Nat
    BY FS_Subset, TotalType
  <1>5. m # {}
    <2>1. SUFFICES ASSUME m = {} PROVE FALSE
      OBVIOUS
    <2>2. t = {}
      BY <1>3, <2>1
    <2>3. IsFiniteSet({})
      BY FS_EmptySet
    <2>4. Total(v, {}) = 0 /\ Total(w, {}) = 0
      BY <2>3, TotalStep
    <2> QED BY <1>3, <2>1, <2>2, <2>3, <2>4
  <1>6. PICK x : x \in m
    BY <1>5
  <1>7. Good(m \ {x}, t) /\ Good(m \ {x}, t \ {f[x]})
    BY <1>2, <1>6
  <1>8. w[x] \in Nat /\ Total(w, m \ {x}) \in Nat /\ Total(w, m) = w[x] + Total(w, m \ {x})
    <2>1. IsFiniteSet(m \ {x}) /\ \A z \in m \ {x} : w[z] \in Nat
      BY <1>4, FS_Subset
    <2>2. \A z \in m : w[z] \in Nat
      OBVIOUS
    <2> QED BY <1>4, <1>6, <2>1, <2>2, TotalType, TotalRemove
  <1>9. CASE f[x] \notin t
    <2>1. \A y \in t : \E z \in m \ {x} : y = f[z]
      BY <1>3, <1>9
    <2>2. IsFiniteSet(t) /\ Total(v, t) <= Total(w, m \ {x})
      BY <1>7, <2>1
    <2>3. Total(v, t) \in Nat
      BY <2>2, TotalType
    <2> QED BY <1>3, <1>8, <2>2, <2>3
  <1>10. CASE f[x] \in t
    <2>1. \A y \in t \ {f[x]} : \E z \in m \ {x} : y = f[z]
      BY <1>3
    <2>2. IsFiniteSet(t \ {f[x]}) /\ Total(v, t \ {f[x]}) <= Total(w, m \ {x})
      BY <1>7, <2>1
    <2>3. IsFiniteSet(t)
      <3>1. t = (t \ {f[x]}) \cup {f[x]}
        BY <1>10
      <3>2. IsFiniteSet((t \ {f[x]}) \cup {f[x]})
        BY <2>2, FS_AddElement
      <3> QED BY <3>1, <3>2
    <2>4. (\A y \in t : v[y] \in Nat) /\ \A y \in t \ {f[x]} : v[y] \in Nat
      OBVIOUS
    <2>5. Total(v, t \ {f[x]}) \in Nat /\ Total(v, t) = v[f[x]] + Total(v, t \ {f[x]})
      BY <1>10, <2>2, <2>3, <2>4, TotalType, TotalRemove
    <2>6. v[f[x]] \in Nat /\ v[f[x]] <= w[x]
      BY <1>6, <1>10
    <2> QED BY <1>3, <1>8, <2>2, <2>3, <2>5, <2>6
  <1> QED BY <1>9, <1>10

\* A total is at most the number of elements times the largest weight.
LEMMA TotalBound ==
    ASSUME NEW S, IsFiniteSet(S), NEW w, NEW n \in Nat, \A x \in S : w[x] \in 0..n
    PROVE  Total(w, S) <= Cardinality(S) * n
  <1> DEFINE Bad == {s \in SUBSET S : ~(Total(w, s) <= Cardinality(s) * n)}
  <1>1. SUFFICES ASSUME Bad # {} PROVE FALSE
    OBVIOUS
  <1>2. PICK m \in Bad : \A t \in Bad : t \subseteq m => t = m
    <2>1. Bad \in SUBSET (SUBSET S)
      OBVIOUS
    <2> HIDE DEF Bad
    <2> QED BY <1>1, <2>1, SmallestSubset
  <1>3. IsFiniteSet(m) /\ Cardinality(m) \in Nat
    BY FS_Subset, FS_CardinalityType
  <1>4. m # {}
    <2>1. IsFiniteSet({}) /\ Cardinality({}) = 0
      BY FS_EmptySet
    <2>2. Total(w, {}) = 0
      BY <2>1, TotalStep
    <2>3. 0 <= 0 * n
      OBVIOUS
    <2> QED BY <1>2, <2>1, <2>2, <2>3
  <1>5. PICK x : x \in m
    BY <1>4
  <1>6. IsFiniteSet(m \ {x}) /\ Cardinality(m \ {x}) = Cardinality(m) - 1 /\ Cardinality(m \ {x}) \in Nat
    BY <1>3, <1>5, FS_RemoveElement, FS_CardinalityType
  <1>7. Total(w, m \ {x}) <= Cardinality(m \ {x}) * n
    BY <1>2, <1>5
  <1>8. Total(w, m) = w[x] + Total(w, m \ {x}) /\ Total(w, m \ {x}) \in Nat /\ w[x] \in 0..n
    <2>1. (\A z \in m : w[z] \in Nat) /\ \A z \in m \ {x} : w[z] \in Nat
      OBVIOUS
    <2> QED BY <1>3, <1>5, <1>6, <2>1, TotalType, TotalRemove
  <1>9. ASSUME NEW k \in Nat PROVE n + (k - 1) * n = k * n /\ k * n \in Int /\ (k - 1) * n \in Int
    OBVIOUS
  <1> QED BY <1>2, <1>3, <1>6, <1>7, <1>8, <1>9

\* A finite set of naturals has a largest element.
LEMMA MaxOfFinite ==
    ASSUME NEW S, \A x \in S : x \in Nat, IsFiniteSet(S), S # {}
    PROVE  Max(S) \in S /\ \A x \in S : Max(S) >= x
  <1> DEFINE Bad == {s \in SUBSET S : s # {} /\ ~\E x \in s : \A y \in s : x >= y}
  <1>1. Bad = {}
    <2>1. SUFFICES ASSUME Bad # {} PROVE FALSE
      OBVIOUS
    <2>2. PICK m \in Bad : \A t \in Bad : t \subseteq m => t = m
      <3>1. Bad \in SUBSET (SUBSET S)
        OBVIOUS
      <3> HIDE DEF Bad
      <3>2. \E m \in Bad : \A t \in Bad : t \subseteq m => t = m
        BY <2>1, <3>1, SmallestSubset
      <3> QED BY <3>2
    <2>3. PICK x \in m : TRUE
      BY <2>2
    <2>4. m \ {x} # {}
      BY <2>2, <2>3
    <2>5. PICK y \in m \ {x} : \A z \in m \ {x} : y >= z
      <3>1. m \ {x} \notin Bad
        BY <2>2, <2>3
      <3> QED BY <2>4, <3>1
    <2> QED BY <2>2, <2>3, <2>5
  <1>2. \E x \in S : \A y \in S : x >= y
    BY <1>1
  <1> QED BY <1>2, Zenon DEF Max

-----------------------------------------------------------------------------
(* What is summed up: sizes of rows and of requests.                       *)

\* The bytes that requests of S are to store.
RequestBytes(rq, S) == MapThenSumSet(LAMBDA r : rq[r].size, S)

\* Bytes, the sum that bucketSnapshot and userSnapshot take in SQL, is the total of the sizes.
LEMMA BytesIsTotal ==
    ASSUME NEW S, IsFiniteSet(S), NEW w, \A v \in S : w[v] = v.size
    PROVE  Bytes(S) = Total(w, S)
  <1> DEFINE AddsBytes(g) == g = [s \in SUBSET S |-> IF s = {} THEN 0
                ELSE (CHOOSE x \in s : TRUE).size + g[s \ {CHOOSE x \in s : TRUE}]]
  <1>1. Bytes(S) = (CHOOSE g : AddsBytes(g))[S]
    BY Zenon DEF Bytes, MapThenSumSet, MapThenFoldSet
  <1>2. ASSUME NEW g PROVE AddsBytes(g) <=> Adds(g, w, S)
    <2>1. \A s \in SUBSET S : s # {} => (CHOOSE x \in s : TRUE) \in S
      OBVIOUS
    <2> QED BY <2>1 DEF Adds
  <1>3. \E g : Adds(g, w, S)
    BY AddsExist
  <1>4. Adds(CHOOSE g : Adds(g, w, S), w, S)
    BY <1>3, Zenon
  <1>5. AddsBytes(CHOOSE g : AddsBytes(g))
    <2>1. PICK g : Adds(g, w, S)
      BY <1>3
    <2>2. AddsBytes(g)
      BY <1>2, <2>1, Zenon
    <2> HIDE DEF AddsBytes
    <2> QED BY <2>2
  <1>6. Adds(CHOOSE g : AddsBytes(g), w, S)
    BY <1>2, <1>5
  <1>7. (CHOOSE g : AddsBytes(g))[S] = (CHOOSE g : Adds(g, w, S))[S]
    <2> HIDE DEF AddsBytes
    <2> QED BY <1>4, <1>6, AddsAgree
  <1> QED BY <1>1, <1>7 DEF Total

\* So is the sum over requests.
LEMMA RequestBytesIsTotal ==
    ASSUME NEW S, IsFiniteSet(S), NEW rq, NEW w, \A r \in S : w[r] = rq[r].size
    PROVE  RequestBytes(rq, S) = Total(w, S)
  <1> DEFINE AddsBytes(g) == g = [s \in SUBSET S |-> IF s = {} THEN 0
                ELSE rq[CHOOSE x \in s : TRUE].size + g[s \ {CHOOSE x \in s : TRUE}]]
  <1>1. RequestBytes(rq, S) = (CHOOSE g : AddsBytes(g))[S]
    BY Zenon DEF RequestBytes, MapThenSumSet, MapThenFoldSet
  <1>2. ASSUME NEW g PROVE AddsBytes(g) <=> Adds(g, w, S)
    <2>1. \A s \in SUBSET S : s # {} => (CHOOSE x \in s : TRUE) \in S
      OBVIOUS
    <2> QED BY <2>1 DEF Adds
  <1>3. \E g : Adds(g, w, S)
    BY AddsExist
  <1>4. Adds(CHOOSE g : Adds(g, w, S), w, S)
    BY <1>3, Zenon
  <1>5. AddsBytes(CHOOSE g : AddsBytes(g))
    <2>1. PICK g : Adds(g, w, S)
      BY <1>3
    <2>2. AddsBytes(g)
      BY <1>2, <2>1, Zenon
    <2> HIDE DEF AddsBytes
    <2> QED BY <2>2
  <1>6. Adds(CHOOSE g : AddsBytes(g), w, S)
    BY <1>2, <1>5
  <1>7. (CHOOSE g : AddsBytes(g))[S] = (CHOOSE g : Adds(g, w, S))[S]
    <2> HIDE DEF AddsBytes
    <2> QED BY <1>4, <1>6, AddsAgree
  <1> QED BY <1>1, <1>7 DEF Total

\* The bytes of rows are a natural number.
LEMMA BytesType ==
    ASSUME NEW S, IsFiniteSet(S), \A v \in S : v.size \in Nat
    PROVE  Bytes(S) \in Nat
  <1> DEFINE w == [v \in S |-> v.size]
  <1>1. \A v \in S : w[v] = v.size /\ w[v] \in Nat
    OBVIOUS
  <1> HIDE DEF w
  <1> QED BY <1>1, BytesIsTotal, TotalType

\* Rows that are changed without their sizes have at most the bytes they had.
LEMMA BytesOfImage ==
    ASSUME NEW S, IsFiniteSet(S), \A v \in S : v.size \in Nat,
           NEW f, \A v \in S : f[v].size = v.size, NEW T, \A y \in T : \E x \in S : y = f[x]
    PROVE  IsFiniteSet(T) /\ Bytes(T) <= Bytes(S)
  <1> DEFINE w == [v \in S |-> v.size]
             z == [v \in T |-> v.size]
  <1>1. \A v \in S : w[v] = v.size /\ w[v] \in Nat
    OBVIOUS
  <1>2. \A v \in T : z[v] = v.size /\ z[v] \in Nat
    OBVIOUS
  <1>3. \A x \in S : f[x] \in T => z[f[x]] <= w[x]
    OBVIOUS
  <1> HIDE DEF w, z
  <1>4. IsFiniteSet(T) /\ Total(z, T) <= Total(w, S)
    BY <1>1, <1>2, <1>3, TotalImage
  <1> QED BY <1>1, <1>2, <1>4, BytesIsTotal

\* A new row adds at most its size.
LEMMA BytesAdd ==
    ASSUME NEW S, IsFiniteSet(S), \A v \in S : v.size \in Nat, NEW n, n.size \in Nat
    PROVE  Bytes(S \cup {n}) <= Bytes(S) + n.size
  <1> DEFINE T == S \cup {n}
             w == [v \in T |-> v.size]
  <1>1. \A v \in T : w[v] = v.size /\ w[v] \in Nat
    OBVIOUS
  <1>2. IsFiniteSet(T)
    BY FS_AddElement
  <1>3. n \in T /\ S \subseteq T /\ (n \notin S => T \ {n} = S) /\ (n \in S => T = S)
    OBVIOUS
  <1>4. Bytes(S) \in Nat
    BY BytesType
  <1> HIDE DEF w, T
  <1>5. CASE n \in S
    BY <1>3, <1>4, <1>5 DEF T
  <1>6. CASE n \notin S
    <2>1. Total(w, T) = w[n] + Total(w, T \ {n})
      BY <1>1, <1>2, <1>3, TotalRemove
    <2>2. Bytes(T) = Total(w, T) /\ Bytes(S) = Total(w, S)
      BY <1>1, <1>2, <1>3, BytesIsTotal
    <2>3. Bytes(T) = n.size + Bytes(S)
      BY <1>1, <1>3, <1>6, <2>1, <2>2
    <2> QED BY <1>4, <2>3 DEF T
  <1> QED BY <1>5, <1>6

\* Rows that are changed are no more than they were.
LEMMA CountOfImage ==
    ASSUME NEW S, IsFiniteSet(S), NEW f, NEW T, \A y \in T : \E x \in S : y = f[x]
    PROVE  IsFiniteSet(T) /\ Cardinality(T) <= Cardinality(S)
  <1> DEFINE S0 == {x \in S : f[x] \in T}
             g == [x \in S0 |-> f[x]]
  <1>1. IsFiniteSet(S0) /\ Cardinality(S0) <= Cardinality(S)
    BY FS_Subset
  <1>2. g \in Surjection(S0, T)
    BY DEF Surjection
  <1> HIDE DEF g, S0
  <1>3. IsFiniteSet(T) /\ Cardinality(T) <= Cardinality(S0)
    BY <1>1, <1>2, FS_Surjection
  <1> QED BY <1>1, <1>3, FS_CardinalityType

\* The bytes of requests are a natural number.
LEMMA RequestBytesType ==
    ASSUME NEW S, IsFiniteSet(S), NEW rq, \A r \in S : rq[r].size \in Nat
    PROVE  RequestBytes(rq, S) \in Nat
  <1> DEFINE w == [r \in S |-> rq[r].size]
  <1>1. \A r \in S : w[r] = rq[r].size /\ w[r] \in Nat
    OBVIOUS
  <1> HIDE DEF w
  <1> QED BY <1>1, RequestBytesIsTotal, TotalType

\* They are at most the largest size for each of them.
LEMMA RequestBytesBound ==
    ASSUME NEW S, IsFiniteSet(S), NEW n \in Nat, NEW rq, \A r \in S : rq[r].size \in 0..n
    PROVE  RequestBytes(rq, S) <= Cardinality(S) * n
  <1> DEFINE w == [r \in S |-> rq[r].size]
  <1>1. \A r \in S : w[r] = rq[r].size /\ w[r] \in 0..n
    OBVIOUS
  <1> HIDE DEF w
  <1> QED BY <1>1, RequestBytesIsTotal, TotalBound

\* A request that is added or removed counts with its size.
LEMMA RequestBytesWithout ==
    ASSUME NEW S, IsFiniteSet(S), NEW T, T \subseteq S, NEW r, S \ {r} \subseteq T, r \notin T,
           NEW rq, \A x \in S : rq[x].size \in Nat,
           NEW nw, \A x \in T : nw[x].size = rq[x].size
    PROVE  RequestBytes(rq, S) = RequestBytes(nw, T) + (IF r \in S THEN rq[r].size ELSE 0)
  <1> DEFINE w == [x \in S |-> rq[x].size]
  <1>1. \A x \in S : w[x] = rq[x].size /\ w[x] \in Nat
    OBVIOUS
  <1>2. T = S \ {r} /\ IsFiniteSet(T)
    BY FS_Subset
  <1> HIDE DEF w
  <1>3. RequestBytes(rq, S) = Total(w, S)
    BY <1>1, RequestBytesIsTotal
  <1>4. RequestBytes(nw, T) = Total(w, T) /\ Total(w, T) \in Nat
    <2>1. \A x \in T : w[x] = nw[x].size /\ w[x] \in Nat
      BY <1>1
    <2> QED BY <1>2, <2>1, RequestBytesIsTotal, TotalType
  <1>5. CASE r \in S
    <2>1. Total(w, S) = w[r] + Total(w, S \ {r})
      BY <1>1, <1>5, TotalRemove
    <2> QED BY <1>1, <1>2, <1>3, <1>4, <1>5, <2>1
  <1>6. CASE r \notin S
    <2>1. S = T
      BY <1>6, <1>2
    <2> QED BY <1>3, <1>4, <1>6, <2>1
  <1> QED BY <1>5, <1>6

\* Only the sizes count.
LEMMA RequestBytesAgree ==
    ASSUME NEW S, IsFiniteSet(S), NEW rq, NEW nw, \A x \in S : nw[x].size = rq[x].size
    PROVE  RequestBytes(nw, S) = RequestBytes(rq, S)
  <1> DEFINE w == [x \in S |-> rq[x].size]
  <1>1. \A x \in S : w[x] = rq[x].size /\ w[x] = nw[x].size
    OBVIOUS
  <1> HIDE DEF w
  <1> QED BY <1>1, RequestBytesIsTotal

\* Monotonicity of products.
LEMMA Products ==
    ASSUME NEW m \in Nat, NEW k \in Nat, NEW n \in Nat
    PROVE  /\ m * k \in Nat
           /\ m <= n => m * k <= n * k
           /\ m < n => m * k + k <= n * k
  <1>1. m * k \in Nat /\ n * k \in Nat
    OBVIOUS
  <1>2. ASSUME m <= n PROVE m * k <= n * k
    <2>1. PICK d \in Nat : n = m + d
      <3>1. n - m \in Nat /\ n = m + (n - m)
        BY <1>2
      <3> QED BY <3>1
    <2>2. n * k = m * k + d * k /\ d * k \in Nat
      BY <2>1
    <2> QED BY <1>1, <2>2
  <1>3. ASSUME m < n PROVE m * k + k <= n * k
    <2>1. PICK d \in Nat : n = (m + 1) + d
      <3>1. n - (m + 1) \in Nat /\ n = (m + 1) + (n - (m + 1))
        BY <1>3
      <3> QED BY <3>1
    <2>2. n * k = m * k + k + d * k /\ d * k \in Nat
      BY <2>1
    <2> QED BY <1>1, <2>2
  <1> QED BY <1>1, <1>2, <1>3

MaxBytes == Max({l.bytes : l \in BucketQuotas})
MaxObjects == Max({l.objects : l \in BucketQuotas})

\* The largest size and the largest quotas exist.
LEMMA Bounds ==
    /\ Largest \in Nat /\ \A n \in Sizes \cup {0} : n \in 0..Largest
    /\ Requesters \in Nat
    /\ MaxBytes \in Nat /\ MaxObjects \in Nat
    /\ \A l \in BucketQuotas : l.bytes \in 0..MaxBytes /\ l.objects \in 0..MaxObjects
    /\ Max(UserQuotas) \in Nat /\ \A n \in UserQuotas : n \in 0..Max(UserQuotas)
  <1>1. Largest \in Sizes /\ \A n \in Sizes : Largest >= n
    BY SizesAssumption, MaxOfFinite DEF Largest
  <1>2. Requesters \in Nat
    BY RequestsAssumption, FS_CardinalityType DEF Requesters
  <1> DEFINE B == {l.bytes : l \in BucketQuotas}
             O == {l.objects : l \in BucketQuotas}
  <1>3. (\A n \in B : n \in Nat) /\ B # {} /\ (\A n \in O : n \in Nat) /\ O # {}
    BY QuotasAssumption
  <1>4. IsFiniteSet(B)
    <2> DEFINE f == [l \in BucketQuotas |-> l.bytes]
    <2>1. \A y \in B : \E x \in BucketQuotas : y = f[x]
      OBVIOUS
    <2> HIDE DEF f, B
    <2> QED BY <2>1, QuotasAssumption, CountOfImage
  <1>5. IsFiniteSet(O)
    <2> DEFINE f == [l \in BucketQuotas |-> l.objects]
    <2>1. \A y \in O : \E x \in BucketQuotas : y = f[x]
      OBVIOUS
    <2> HIDE DEF f, O
    <2> QED BY <2>1, QuotasAssumption, CountOfImage
  <1>6. \A l \in BucketQuotas : l.bytes \in B /\ l.objects \in O
    OBVIOUS
  <1>7. MaxBytes = Max(B) /\ MaxObjects = Max(O)
    BY DEF MaxBytes, MaxObjects
  <1> HIDE DEF B, O
  <1>8. MaxBytes \in B /\ \A n \in B : MaxBytes >= n
    BY <1>3, <1>4, <1>7, MaxOfFinite
  <1>9. MaxObjects \in O /\ \A n \in O : MaxObjects >= n
    BY <1>3, <1>5, <1>7, MaxOfFinite
  <1>10. Max(UserQuotas) \in UserQuotas /\ \A n \in UserQuotas : Max(UserQuotas) >= n
    BY QuotasAssumption, MaxOfFinite
  <1>11. \A l \in BucketQuotas : l.bytes \in 0..MaxBytes /\ l.objects \in 0..MaxObjects
    BY <1>3, <1>6, <1>8, <1>9
  <1>12. \A n \in Sizes \cup {0} : n \in 0..Largest
    BY <1>1, SizesAssumption
  <1>13. \A n \in UserQuotas : n \in 0..Max(UserQuotas)
    BY <1>10, QuotasAssumption
  <1> QED BY <1>1, <1>2, <1>3, <1>8, <1>9, <1>10, <1>11, <1>12, <1>13, SizesAssumption, QuotasAssumption

\* What quotas count: the objects of rows, and the rows of a user.
Objects(S) == {v \in S : ~v.marker}
OfUser(S, u) == {v \in S : v.by = u}

\* Sizes of rows are naturals.
LEMMA RowSize ==
    ASSUME NEW v \in RowType
    PROVE  v.size \in Nat /\ v.marker \in BOOLEAN
  <1>1. v.size \in Sizes \cup {0} /\ v.marker \in BOOLEAN
    BY DEF RowType
  <1>2. \A n \in Sizes \cup {0} : n \in Nat
    BY SizesAssumption
  <1> QED BY <1>1, <1>2

\* What quota queries find in a set of rows are numbers.
LEMMA RowFacts ==
    ASSUME NEW S, S \subseteq RowType, IsFiniteSet(S)
    PROVE  /\ \A v \in S : v.size \in Nat
           /\ Bytes(S) \in Nat /\ \A u : Bytes(OfUser(S, u)) \in Nat /\ IsFiniteSet(OfUser(S, u))
           /\ IsFiniteSet(Objects(S)) /\ Cardinality(Objects(S)) \in Nat
           /\ Cardinality(S) \in Nat /\ Cardinality(Objects(S)) <= Cardinality(S)
  <1>1. \A v \in S : v.size \in Nat
    BY RowSize
  <1>2. \A u : IsFiniteSet(OfUser(S, u)) /\ \A v \in OfUser(S, u) : v.size \in Nat
    BY <1>1, FS_Subset DEF OfUser
  <1>3. IsFiniteSet(Objects(S)) /\ Cardinality(Objects(S)) <= Cardinality(S)
    BY FS_Subset DEF Objects
  <1> QED BY <1>1, <1>2, <1>3, BytesType, FS_CardinalityType

\* Rows changed without size, user and marker: nothing that a quota counts grows.
LEMMA RowsOfImage ==
    ASSUME NEW S, S \subseteq RowType, IsFiniteSet(S),
           NEW f, \A v \in S : f[v] \in RowType /\ f[v].size = v.size /\ f[v].by = v.by /\ f[v].marker = v.marker,
           NEW T, \A y \in T : \E x \in S : y = f[x]
    PROVE  /\ T \subseteq RowType /\ IsFiniteSet(T)
           /\ Bytes(T) <= Bytes(S)
           /\ \A u : Bytes(OfUser(T, u)) <= Bytes(OfUser(S, u))
           /\ Cardinality(Objects(T)) <= Cardinality(Objects(S))
  <1>1. T \subseteq RowType
    OBVIOUS
  <1>2. IsFiniteSet(T) /\ Bytes(T) <= Bytes(S)
    BY RowFacts, BytesOfImage
  <1>3. ASSUME NEW u PROVE Bytes(OfUser(T, u)) <= Bytes(OfUser(S, u))
    <2>1. \A y \in OfUser(T, u) : \E x \in OfUser(S, u) : y = f[x]
      BY DEF OfUser
    <2>2. \A v \in OfUser(S, u) : f[v].size = v.size /\ v.size \in Nat
      BY RowFacts DEF OfUser
    <2>3. IsFiniteSet(OfUser(S, u))
      BY RowFacts
    <2> QED BY <2>1, <2>2, <2>3, BytesOfImage
  <1>4. Cardinality(Objects(T)) <= Cardinality(Objects(S))
    <2>1. \A y \in Objects(T) : \E x \in Objects(S) : y = f[x]
      BY DEF Objects
    <2>2. IsFiniteSet(Objects(S))
      BY RowFacts
    <2> QED BY <2>1, <2>2, CountOfImage
  <1> QED BY <1>1, <1>2, <1>3, <1>4

\* One row more: everything that a quota counts grows by at most what the row adds.
LEMMA RowsAdd ==
    ASSUME NEW S, S \subseteq RowType, IsFiniteSet(S), NEW n \in RowType
    PROVE  /\ S \cup {n} \subseteq RowType /\ IsFiniteSet(S \cup {n})
           /\ Bytes(S \cup {n}) <= Bytes(S) + n.size
           /\ \A u : Bytes(OfUser(S \cup {n}, u)) <= Bytes(OfUser(S, u)) + IF n.by = u THEN n.size ELSE 0
           /\ Cardinality(Objects(S \cup {n})) <= Cardinality(Objects(S)) + IF n.marker THEN 0 ELSE 1
  <1>1. S \cup {n} \subseteq RowType /\ IsFiniteSet(S \cup {n})
    BY FS_AddElement
  <1>2. n.size \in Nat /\ n.marker \in BOOLEAN
    BY RowSize
  <1>3. Bytes(S \cup {n}) <= Bytes(S) + n.size
    BY <1>2, RowFacts, BytesAdd
  <1>4. ASSUME NEW u PROVE Bytes(OfUser(S \cup {n}, u)) <= Bytes(OfUser(S, u)) + IF n.by = u THEN n.size ELSE 0
    <2>1. OfUser(S \cup {n}, u) = IF n.by = u THEN OfUser(S, u) \cup {n} ELSE OfUser(S, u)
      BY DEF OfUser
    <2>2. IsFiniteSet(OfUser(S, u)) /\ Bytes(OfUser(S, u)) \in Nat
      BY RowFacts
    <2>3. \A v \in OfUser(S, u) : v.size \in Nat
      BY RowFacts DEF OfUser
    <2>4. Bytes(OfUser(S, u) \cup {n}) <= Bytes(OfUser(S, u)) + n.size
      BY <1>2, <2>2, <2>3, BytesAdd
    <2> QED BY <2>1, <2>2, <2>4
  <1>5. Cardinality(Objects(S \cup {n})) <= Cardinality(Objects(S)) + IF n.marker THEN 0 ELSE 1
    <2>1. Objects(S \cup {n}) = IF n.marker THEN Objects(S) ELSE Objects(S) \cup {n}
      BY <1>2 DEF Objects
    <2>2. IsFiniteSet(Objects(S)) /\ Cardinality(Objects(S)) \in Nat
      BY RowFacts
    <2>3. Cardinality(Objects(S) \cup {n}) <= Cardinality(Objects(S)) + 1
      <3>1. Cardinality(Objects(S) \cup {n})
                = IF n \in Objects(S) THEN Cardinality(Objects(S)) ELSE Cardinality(Objects(S)) + 1
        BY <2>2, FS_AddElement
      <3> QED BY <2>2, <3>1
    <2> QED BY <1>2, <2>1, <2>2, <2>3
  <1> QED BY <1>1, <1>3, <1>4, <1>5

\* So a new latest version adds its size, for its user, and one object unless it is a marker (Put, Delete).
LEMMA RowsInserted ==
    ASSUME rows \subseteq RowType, IsFiniteSet(rows), NEW n \in RowType
    PROVE  /\ Inserted(n) \subseteq RowType /\ IsFiniteSet(Inserted(n))
           /\ Bytes(Inserted(n)) <= Bytes(rows) + n.size
           /\ \A u : Bytes(OfUser(Inserted(n), u)) <= Bytes(OfUser(rows, u)) + IF n.by = u THEN n.size ELSE 0
           /\ Cardinality(Objects(Inserted(n))) <= Cardinality(Objects(rows)) + IF n.marker THEN 0 ELSE 1
  <1> DEFINE f == [w \in rows |-> [w EXCEPT !.latest = w.latest /\ w.key # n.key]]
             T == {f[w] : w \in rows}
  <1>1. \A v \in rows : f[v] \in RowType /\ f[v].size = v.size /\ f[v].by = v.by /\ f[v].marker = v.marker
    BY DEF RowType
  <1>2. Inserted(n) = T \cup {n}
    BY DEF Inserted
  <1>3. \A y \in T : \E x \in rows : y = f[x]
    OBVIOUS
  <1> HIDE DEF f, T
  <1>4. /\ T \subseteq RowType /\ IsFiniteSet(T)
        /\ Bytes(T) <= Bytes(rows)
        /\ \A u : Bytes(OfUser(T, u)) <= Bytes(OfUser(rows, u))
        /\ Cardinality(Objects(T)) <= Cardinality(Objects(rows))
    BY <1>1, <1>3, RowsOfImage
  <1>5. n.size \in Nat /\ n.marker \in BOOLEAN
    BY RowSize
  <1>6. /\ T \cup {n} \subseteq RowType /\ IsFiniteSet(T \cup {n})
        /\ Bytes(T \cup {n}) <= Bytes(T) + n.size
        /\ \A u : Bytes(OfUser(T \cup {n}, u)) <= Bytes(OfUser(T, u)) + IF n.by = u THEN n.size ELSE 0
        /\ Cardinality(Objects(T \cup {n})) <= Cardinality(Objects(T)) + IF n.marker THEN 0 ELSE 1
    BY <1>4, RowsAdd
  <1>7. /\ Bytes(T) \in Nat /\ Bytes(rows) \in Nat /\ Bytes(T \cup {n}) \in Nat
        /\ \A u : Bytes(OfUser(T, u)) \in Nat /\ Bytes(OfUser(rows, u)) \in Nat /\ Bytes(OfUser(T \cup {n}, u)) \in Nat
        /\ Cardinality(Objects(T)) \in Nat /\ Cardinality(Objects(rows)) \in Nat
        /\ Cardinality(Objects(T \cup {n})) \in Nat
    BY <1>4, <1>6, RowFacts
  <1>8. Bytes(T \cup {n}) <= Bytes(rows) + n.size
    BY <1>4, <1>5, <1>6, <1>7
  <1>9. ASSUME NEW u PROVE Bytes(OfUser(T \cup {n}, u)) <= Bytes(OfUser(rows, u)) + IF n.by = u THEN n.size ELSE 0
    <2> DEFINE d == IF n.by = u THEN n.size ELSE 0
    <2>1. d \in Nat /\ Bytes(OfUser(T \cup {n}, u)) <= Bytes(OfUser(T, u)) + d
      BY <1>5, <1>6
    <2> HIDE DEF d
    <2>2. Bytes(OfUser(T \cup {n}, u)) <= Bytes(OfUser(rows, u)) + d
      BY <1>4, <1>7, <2>1
    <2> QED BY <2>2 DEF d
  <1>10. Cardinality(Objects(T \cup {n})) <= Cardinality(Objects(rows)) + IF n.marker THEN 0 ELSE 1
    <2> DEFINE d == IF n.marker THEN 0 ELSE 1
    <2>1. d \in Nat /\ Cardinality(Objects(T \cup {n})) <= Cardinality(Objects(T)) + d
      BY <1>6
    <2> HIDE DEF d
    <2>2. Cardinality(Objects(T \cup {n})) <= Cardinality(Objects(rows)) + d
      BY <1>4, <1>7, <2>1
    <2> QED BY <2>2 DEF d
  <1> QED BY <1>2, <1>6, <1>8, <1>9, <1>10

-----------------------------------------------------------------------------
(* The inductive invariant of the writes and the kinds of steps.           *)

Pcs == {"idle", "sent", "looked", "bucket", "admitted", "stored", "failed", "over"}
Answers == {"none", "ok", "error"}

WriteRequest ==
    [kind: Kinds \cup {"none"}, key: Keys \cup {"none"}, user: Writers,
     size: Sizes \cup {0},
     pc: Pcs, existing: Sizes \cup {-1}, row: BOOLEAN, answer: Answers, audited: BOOLEAN, emitted: BOOLEAN]

\* Requests whose row may still come.
Busy == {r \in Requests : req[r].pc \in {"sent", "looked", "bucket", "admitted"}}

\* Types.
TypeInv ==
    /\ rows \subseteq RowType /\ IsFiniteSet(rows) /\ clock \in 0..MaxRows
    /\ quota \in [bucket: BucketQuotas, user: [Users -> UserQuotas]]
    /\ req \in [Requests -> WriteRequest]
    /\ faults \in 0..MaxFaults
    /\ \A v \in rows : v.marker \/ v.size \in Sizes
    /\ \A r \in Busy : req[r].size \in Sizes /\ req[r].key \in Keys

\* The bound on rows holds, rows have their own numbers, and keys at most one latest version.
RowsInv ==
    /\ clock + Cardinality(Busy) <= MaxRows
    /\ \A v \in rows : v.id <= clock
    /\ \A v, w \in rows : v.id = w.id => v = w
    /\ \A v, w \in rows : v.latest /\ w.latest /\ v.key = w.key => v = w

\* The steps of a request r, after which it is x: any, ...
Moves(r, x) ==
    /\ req' = [req EXCEPT ![r] = x] /\ x \in WriteRequest
    /\ faults' \in 0..MaxFaults /\ UNCHANGED quota

\* ... one that neither stores nor passes a check, ...
Quiet(r, x) ==
    /\ Moves(r, x) /\ UNCHANGED <<rows, clock>>
    /\ x.pc \notin {"bucket", "admitted"}
    /\ x.pc \in {"sent", "looked"} => x.size \in Sizes /\ x.key \in Keys
    /\ x.pc \in {"sent", "looked"} => req[r].pc \in {"sent", "looked", "bucket", "admitted"} \/ Room

\* ... those that pass the check of the bucket ...
PassesBucket(r, x) ==
    /\ Moves(r, x) /\ UNCHANGED <<rows, clock>>
    /\ req[r].pc = "looked"
    /\ x = [req[r] EXCEPT !.pc = IF req[r].user = NoUser THEN "admitted" ELSE "bucket"]
    /\ Allows(Delta(req[r]), IF req[r].existing < 0 THEN 1 ELSE 0, BucketUsage, quota.bucket)

\* ... and of the user, ...
PassesUser(r, x) ==
    /\ Moves(r, x) /\ UNCHANGED <<rows, clock>>
    /\ req[r].pc = "bucket"
    /\ x = [req[r] EXCEPT !.pc = "admitted"]
    /\ UserUsage(req[r].user) + Delta(req[r]) <= quota.user[req[r].user]

\* ... and the transaction of Put.
Stores(r, x) ==
    /\ Moves(r, x) /\ Stored(r)
    /\ x.pc \in {"stored", "failed"}

\* Faults stay within their bound.
LEMMA FaultyType ==
    ASSUME faults \in 0..MaxFaults, UNCHANGED faults \/ Faulty
    PROVE  faults' \in 0..MaxFaults
  BY WritesBounds DEF Faulty

\* A request that is not there is a request.
LEMMA UnsentType == NoUser \in Writers /\ Unsent \in WriteRequest
  <1>1. 0 \in Sizes \cup {0} /\ -1 \in Sizes \cup {-1} /\ NoUser \in Writers
    BY DEF Writers
  <1>2. "none" \in Kinds \cup {"none"} /\ "none" \in Keys \cup {"none"}
    OBVIOUS
  <1>3. "idle" \in Pcs /\ "none" \in Answers
    BY DEF Pcs, Answers
  <1> QED BY <1>1, <1>2, <1>3 DEF Unsent, WriteRequest

\* So is one whose Put has returned.
LEMMA ReturnedType ==
    ASSUME NEW x \in WriteRequest, NEW pc \in {"stored", "failed"}, NEW row \in BOOLEAN
    PROVE  Returned(x, pc, row) \in WriteRequest /\ Returned(x, pc, row).pc = pc
  <1>1. x.kind \in Kinds \cup {"none"}
    BY DEF WriteRequest
  <1>2. [Unsent EXCEPT !.kind = x.kind] \in WriteRequest
    BY <1>1, UnsentType DEF WriteRequest
  <1>3. [[Unsent EXCEPT !.kind = x.kind] EXCEPT !.pc = pc, !.row = row] \in WriteRequest
    <2>1. pc \in Pcs
      BY DEF Pcs
    <2> QED BY <1>2, <2>1 DEF WriteRequest
  <1>4. Returned(x, pc, row) = [[Unsent EXCEPT !.kind = x.kind] EXCEPT !.pc = pc, !.row = row]
    BY DEF Returned, Unsent
  <1> QED BY <1>3, <1>4 DEF Returned, Unsent

\* The handlers start a request and nothing else.
LEMMA BeginQuiet ==
    ASSUME TypeInv, NEW r \in Requests, NEW kind, NEW k \in Keys, NEW u \in Writers, NEW n \in Sizes,
           NEW valid \in BOOLEAN, Begin(r, kind, k, u, n, valid)
    PROVE  \E x \in WriteRequest : Quiet(r, x)
  <1> DEFINE x == [Unsent EXCEPT !.kind = kind, !.key = k, !.user = u, !.size = n, !.pc = "sent"]
             y == IF valid THEN x ELSE Returned(x, "failed", FALSE)
  <1>1. kind \in Kinds \cup {"none"}
    BY KindsAssumption DEF Begin
  <1>2. x \in WriteRequest /\ x.pc = "sent" /\ x.size = n /\ x.key = k
    <2>1. n \in Sizes \cup {0} /\ k \in Keys \cup {"none"}
      OBVIOUS
    <2>2. [Unsent EXCEPT !.kind = kind, !.key = k] \in WriteRequest
      BY <1>1, <2>1, UnsentType DEF WriteRequest
    <2>3. [[Unsent EXCEPT !.kind = kind, !.key = k] EXCEPT !.user = u, !.size = n, !.pc = "sent"] \in WriteRequest
      <3>1. "sent" \in Pcs
        BY DEF Pcs
      <3> QED BY <2>1, <2>2, <3>1 DEF WriteRequest
    <2> QED BY <2>3, UnsentType DEF WriteRequest
  <1>3. y \in WriteRequest /\ y.pc \in {"sent", "failed"} /\ (y.pc = "sent" => y.size \in Sizes /\ y.key \in Keys)
    <2> HIDE DEF x
    <2> QED BY <1>2, ReturnedType
  <1>4. req' = [req EXCEPT ![r] = y] /\ Room /\ UNCHANGED <<rows, clock, quota, faults>>
    BY DEF Begin
  <1> HIDE DEF y
  <1> QED BY <1>3, <1>4 DEF Quiet, Moves, TypeInv

\* Answers, audit entries and events leave the rows alone.
LEMMA TellQuiet ==
    ASSUME TypeInv, NEW r \in Requests, NEW error \in BOOLEAN, NEW audits \in BOOLEAN,
           NEW a \in BOOLEAN, NEW e \in BOOLEAN, Tell(r, error, audits, a, e)
    PROVE  \E x \in WriteRequest : Quiet(r, x)
  <1> DEFINE x == [req[r] EXCEPT !.pc = "over", !.answer = "error"]
             y == [req[r] EXCEPT !.pc = "over", !.answer = "ok", !.audited = a /\ audits, !.emitted = e]
  <1>1. req[r] \in WriteRequest
    BY DEF TypeInv
  <1>2. x \in WriteRequest /\ x.pc = "over" /\ y \in WriteRequest /\ y.pc = "over"
    <2>1. "over" \in Pcs /\ "ok" \in Answers /\ "error" \in Answers
      BY DEF Pcs, Answers
    <2>2. x \in WriteRequest /\ x.pc = "over"
      BY <1>1, <2>1 DEF WriteRequest
    <2>3. PICK b \in BOOLEAN : b = (a /\ audits)
      OBVIOUS
    <2> DEFINE z == [req[r] EXCEPT !.pc = "over", !.answer = "ok"]
    <2>4. z \in WriteRequest /\ z.pc = "over"
      BY <1>1, <2>1 DEF WriteRequest
    <2>5. y = [z EXCEPT !.audited = b, !.emitted = e]
      BY <2>3
    <2> HIDE DEF y, z
    <2>6. y \in WriteRequest /\ y.pc = "over"
      BY <2>4, <2>5 DEF WriteRequest
    <2> QED BY <2>2, <2>6
  <1>3. (req' = [req EXCEPT ![r] = x] \/ req' = [req EXCEPT ![r] = y]) /\ UNCHANGED <<rows, clock, quota>>
    BY DEF Tell
  <1>4. faults' \in 0..MaxFaults
    BY FaultyType DEF Tell, TypeInv
  <1> HIDE DEF x, y
  <1> QED BY <1>2, <1>3, <1>4 DEF Quiet, Moves

\* What is to be replaced has one of the sizes, since no marker is current.
LEMMA LookupType ==
    ASSUME TypeInv, NEW k
    PROVE  lookupExistingObject(k) \in Sizes \cup {-1}
  BY DEF lookupExistingObject, TypeInv, Current, RowType

RequestStep ==
    \E r \in Requests, x \in WriteRequest :
        Quiet(r, x) \/ PassesBucket(r, x) \/ PassesUser(r, x) \/ Stores(r, x)

\* A request may be at any place.
LEMMA PcType ==
    ASSUME NEW x \in WriteRequest, NEW pc \in Pcs
    PROVE  [x EXCEPT !.pc = pc] \in WriteRequest /\ [x EXCEPT !.pc = pc].pc = pc
  BY DEF WriteRequest

\* Looking up what is replaced.
LEMMA LookupQuiet ==
    ASSUME TypeInv, NEW r \in Requests, Lookup(r)
    PROVE  \E x \in WriteRequest : Quiet(r, x)
  <1> DEFINE n == lookupExistingObject(req[r].key)
             x == [req[r] EXCEPT !.pc = "looked", !.existing = n]
  <1>1. req[r] \in WriteRequest /\ req[r].pc = "sent" /\ req[r].size \in Sizes /\ req[r].key \in Keys
    BY DEF TypeInv, Lookup, Busy
  <1>2. n \in Sizes \cup {-1}
    BY LookupType
  <1>3. req' = [req EXCEPT ![r] = x] /\ UNCHANGED <<rows, clock, quota, faults>>
    BY DEF Lookup
  <1> HIDE DEF n
  <1>4. x \in WriteRequest /\ x.pc = "looked" /\ x.size \in Sizes /\ x.key \in Keys
    <2>1. "looked" \in Pcs
      BY DEF Pcs
    <2> QED BY <1>1, <1>2, <2>1 DEF WriteRequest
  <1> HIDE DEF x
  <1> QED BY <1>1, <1>3, <1>4 DEF Quiet, Moves, TypeInv

\* The check of the bucket lets the request go on or ends it.
LEMMA CheckBucketStep ==
    ASSUME TypeInv, NEW r \in Requests, CheckBucket(r)
    PROVE  \E x \in WriteRequest : Quiet(r, x) \/ PassesBucket(r, x)
  <1> DEFINE ok == Allows(Delta(req[r]), IF req[r].existing < 0 THEN 1 ELSE 0, BucketUsage, quota.bucket)
             x == [req[r] EXCEPT !.pc = IF req[r].user = NoUser THEN "admitted" ELSE "bucket"]
             y == Returned(req[r], "failed", FALSE)
  <1>1. req[r] \in WriteRequest /\ req[r].pc = "looked"
    BY DEF TypeInv, CheckBucket
  <1>2. x \in WriteRequest
    <2>1. (IF req[r].user = NoUser THEN "admitted" ELSE "bucket") \in Pcs
      BY DEF Pcs
    <2> QED BY <1>1, <2>1, PcType
  <1>3. y \in WriteRequest /\ y.pc = "failed"
    BY <1>1, ReturnedType
  <1>4. req' = [req EXCEPT ![r] = IF ok THEN x ELSE y] /\ UNCHANGED <<rows, clock, quota, faults>>
    BY Zenon DEF CheckBucket
  <1> HIDE DEF ok, y
  <1>5. CASE ok
    BY <1>1, <1>2, <1>4, <1>5 DEF PassesBucket, Moves, TypeInv, ok
  <1>6. CASE ~ok
    BY <1>1, <1>3, <1>4, <1>6 DEF Quiet, Moves, TypeInv
  <1> QED BY <1>5, <1>6

\* So does the check of the user.
LEMMA CheckUserStep ==
    ASSUME TypeInv, NEW r \in Requests, CheckUser(r)
    PROVE  \E x \in WriteRequest : Quiet(r, x) \/ PassesUser(r, x)
  <1> DEFINE ok == UserUsage(req[r].user) + Delta(req[r]) <= quota.user[req[r].user]
             x == [req[r] EXCEPT !.pc = "admitted"]
             y == Returned(req[r], "failed", FALSE)
  <1>1. req[r] \in WriteRequest /\ req[r].pc = "bucket"
    BY DEF TypeInv, CheckUser
  <1>2. x \in WriteRequest
    <2>1. "admitted" \in Pcs
      BY DEF Pcs
    <2> QED BY <1>1, <2>1, PcType
  <1>3. y \in WriteRequest /\ y.pc = "failed"
    BY <1>1, ReturnedType
  <1>4. req' = [req EXCEPT ![r] = IF ok THEN x ELSE y] /\ UNCHANGED <<rows, clock, quota, faults>>
    BY Zenon DEF CheckUser
  <1> HIDE DEF ok, y
  <1>5. CASE ok
    BY <1>1, <1>2, <1>4, <1>5 DEF PassesUser, Moves, TypeInv, ok
  <1>6. CASE ~ok
    BY <1>1, <1>3, <1>4, <1>6 DEF Quiet, Moves, TypeInv
  <1> QED BY <1>5, <1>6

\* Put stores and commits, or leaves the rows alone.
LEMMA PutStep ==
    ASSUME TypeInv, NEW r \in Requests, Put(r) \/ PutFails(r) \/ PutUnacknowledged(r)
    PROVE  \E x \in WriteRequest : Quiet(r, x) \/ Stores(r, x)
  <1>1. req[r] \in WriteRequest
    BY DEF TypeInv
  <1>2. faults' \in 0..MaxFaults /\ UNCHANGED quota
    BY FaultyType DEF Put, PutFails, PutUnacknowledged, TypeInv
  <1>3. CASE Put(r)
    <2> DEFINE y == Returned(req[r], "stored", TRUE)
    <2>1. y \in WriteRequest /\ y.pc = "stored"
      BY <1>1, ReturnedType
    <2>2. req' = [req EXCEPT ![r] = y] /\ Stored(r)
      BY <1>3 DEF Put
    <2> HIDE DEF y
    <2> QED BY <1>2, <2>1, <2>2 DEF Stores, Moves
  <1>4. CASE PutFails(r)
    <2> DEFINE y == Returned(req[r], "failed", FALSE)
    <2>1. y \in WriteRequest /\ y.pc = "failed"
      BY <1>1, ReturnedType
    <2>2. req' = [req EXCEPT ![r] = y] /\ UNCHANGED <<rows, clock>>
      BY <1>4 DEF PutFails
    <2> HIDE DEF y
    <2> QED BY <1>2, <2>1, <2>2 DEF Quiet, Moves
  <1>5. CASE PutUnacknowledged(r)
    <2> DEFINE y == Returned(req[r], "failed", TRUE)
    <2>1. y \in WriteRequest /\ y.pc = "failed"
      BY <1>1, ReturnedType
    <2>2. req' = [req EXCEPT ![r] = y] /\ Stored(r)
      BY <1>5 DEF PutUnacknowledged
    <2> HIDE DEF y
    <2> QED BY <1>2, <2>1, <2>2 DEF Stores, Moves
  <1> QED BY <1>3, <1>4, <1>5

\* A completion whose parts could not be removed.
LEMMA CleanupQuiet ==
    ASSUME TypeInv, NEW r \in Requests, CleanupFails(r)
    PROVE  \E x \in WriteRequest : Quiet(r, x)
  <1> DEFINE x == [req[r] EXCEPT !.pc = "failed"]
  <1>1. x \in WriteRequest /\ x.pc = "failed"
    <2>1. "failed" \in Pcs
      BY DEF Pcs
    <2> QED BY <2>1, PcType DEF TypeInv
  <1>2. req' = [req EXCEPT ![r] = x] /\ UNCHANGED <<rows, clock, quota>> /\ faults' \in 0..MaxFaults
    BY FaultyType DEF CleanupFails, TypeInv
  <1> HIDE DEF x
  <1> QED BY <1>1, <1>2 DEF Quiet, Moves

\* The end of a request.
LEMMA CloseQuiet ==
    ASSUME TypeInv, NEW r \in Requests, Close(r)
    PROVE  \E x \in WriteRequest : Quiet(r, x)
  <1>1. Unsent \in WriteRequest /\ Unsent.pc = "idle"
    BY UnsentType DEF Unsent
  <1>2. req' = [req EXCEPT ![r] = Unsent] /\ UNCHANGED <<rows, clock, quota, faults>>
    BY DEF Close
  <1> QED BY <1>1, <1>2 DEF Quiet, Moves, TypeInv

\* Every step is one of these kinds.
LEMMA Steps ==
    ASSUME TypeInv, WNext
    PROVE  \/ RequestStep
           \/ \E k \in Keys : Delete(k)
           \/ \E v \in rows : DeleteVersion(v)
           \/ \E l \in BucketQuotas : UpdateBucketQuota(l)
           \/ \E u \in Users, n \in UserQuotas : UpdateUserQuota(u, n)
  <1>1. ASSUME NEW r \in Requests, NEW k \in Keys, NEW u \in Writers, NEW n \in Sizes, NEW valid \in BOOLEAN,
               \/ Upload(r, k, u, n, valid) \/ Copy(r, k, u, n, valid) \/ PutObject(r, k, u, n, valid)
               \/ CopyObject(r, k, u, n, valid) \/ Complete(r, k, u, n, valid)
        PROVE  RequestStep
    <2>1. \E kind : Begin(r, kind, k, u, n, valid)
      BY <1>1 DEF Upload, Copy, PutObject, CopyObject, Complete
    <2> QED BY <2>1, BeginQuiet DEF RequestStep
  <1>2. ASSUME NEW r \in Requests, NEW a \in BOOLEAN, NEW e \in BOOLEAN,
               AnswerUpload(r, a, e) \/ AnswerCopy(r, a, e) \/ AnswerPutObject(r, a, e) \/ AnswerComplete(r, a, e)
        PROVE  RequestStep
    <2>1. \E error, audits \in BOOLEAN : Tell(r, error, audits, a, e)
      BY <1>2 DEF AnswerUpload, AnswerCopy, AnswerPutObject, AnswerComplete, Failed
    <2> QED BY <2>1, TellQuiet DEF RequestStep
  <1>3. ASSUME NEW r \in Requests,
               \/ Lookup(r) \/ CheckBucket(r) \/ CheckUser(r) \/ Put(r) \/ PutFails(r)
               \/ PutUnacknowledged(r) \/ CleanupFails(r) \/ Close(r)
        PROVE  RequestStep
    BY <1>3, LookupQuiet, CheckBucketStep, CheckUserStep, PutStep, CleanupQuiet, CloseQuiet DEF RequestStep
  <1> QED BY <1>1, <1>2, <1>3 DEF WNext

-----------------------------------------------------------------------------
(* Types, and one latest version per key.                                  *)

BusyPcs == {"sent", "looked", "bucket", "admitted"}

\* A step of one request leaves the others where they are.
LEMMA MoveTypes ==
    ASSUME TypeInv, NEW r \in Requests, NEW x \in WriteRequest, Moves(r, x)
    PROVE  /\ req' \in [Requests -> WriteRequest] /\ quota' = quota /\ faults' \in 0..MaxFaults
           /\ req'[r] = x /\ \A p \in Requests \ {r} : req'[p] = req[p]
           /\ IsFiniteSet(Busy) /\ IsFiniteSet(Busy') /\ Cardinality(Busy) \in Nat
           /\ Busy' = IF x.pc \in BusyPcs THEN Busy \cup {r} ELSE Busy \ {r}
  <1>1. req' \in [Requests -> WriteRequest] /\ req'[r] = x /\ \A p \in Requests \ {r} : req'[p] = req[p]
    BY DEF Moves, TypeInv
  <1>2. Busy' = IF x.pc \in BusyPcs THEN Busy \cup {r} ELSE Busy \ {r}
    BY <1>1 DEF Busy, BusyPcs
  <1>3. IsFiniteSet(Busy) /\ IsFiniteSet(Busy')
    BY RequestsAssumption, FS_Subset DEF Busy
  <1> QED BY <1>1, <1>2, <1>3, FS_CardinalityType DEF Moves

\* A step of one request that leaves the rows keeps types and rows as they should be.
LEMMA MoveKeeps ==
    ASSUME TypeInv, RowsInv, NEW r \in Requests, NEW x \in WriteRequest, Moves(r, x), UNCHANGED <<rows, clock>>,
           x.pc \in BusyPcs => r \in Busy \/ Room,
           x.pc \in BusyPcs => x.size \in Sizes /\ x.key \in Keys
    PROVE  TypeInv' /\ RowsInv'
  <1>1. ASSUME NEW p \in Busy' PROVE req'[p].size \in Sizes /\ req'[p].key \in Keys
    <2>1. CASE p = r
      BY <2>1, MoveTypes
    <2>2. CASE p # r
      <3>1. p \in Busy /\ req'[p] = req[p]
        BY <2>2, MoveTypes DEF Busy
      <3> QED BY <3>1 DEF TypeInv
    <2> QED BY <2>1, <2>2
  <1>2. TypeInv'
    BY <1>1, MoveTypes DEF TypeInv
  <1>3. clock + Cardinality(Busy') <= MaxRows
    <2>1. clock \in Int /\ Cardinality(Busy) \in Nat /\ clock + Cardinality(Busy) <= MaxRows /\ MaxRows \in Nat
      BY MoveTypes, WritesBounds DEF TypeInv, RowsInv
    <2>2. CASE x.pc \in BusyPcs
      <3>1. Cardinality(Busy') = IF r \in Busy THEN Cardinality(Busy) ELSE Cardinality(Busy) + 1
        BY <2>2, MoveTypes, FS_AddElement
      <3>2. r \notin Busy => clock + Cardinality(Busy) < MaxRows
        BY <2>2 DEF Room, Busy
      <3> QED BY <2>1, <3>1, <3>2
    <2>3. CASE x.pc \notin BusyPcs
      <3>1. Cardinality(Busy') = IF r \in Busy THEN Cardinality(Busy) - 1 ELSE Cardinality(Busy)
        BY <2>3, MoveTypes, FS_RemoveElement
      <3> QED BY <2>1, <3>1
    <2> QED BY <2>2, <2>3
  <1> QED BY <1>2, <1>3 DEF RowsInv

\* A row whose latest flag is set.
LEMMA LatestChanged ==
    ASSUME NEW w \in RowType, NEW b \in BOOLEAN
    PROVE  LET x == [w EXCEPT !.latest = b]
           IN  /\ x \in RowType /\ x.id = w.id /\ x.key = w.key /\ x.size = w.size
               /\ x.by = w.by /\ x.marker = w.marker /\ x.latest = b
  BY DEF RowType

\* A new latest version keeps numbers distinct and leaves one latest version per key.
LEMMA InsertedKeeps ==
    ASSUME TypeInv, RowsInv, NEW n \in RowType, n.latest, n.id = clock + 1, n.marker \/ n.size \in Sizes,
           rows' = Inserted(n), clock' = clock + 1
    PROVE  /\ rows' \subseteq RowType /\ IsFiniteSet(rows')
           /\ \A v \in rows' : v.marker \/ v.size \in Sizes
           /\ \A v \in rows' : v.id <= clock'
           /\ \A v, w \in rows' : v.id = w.id => v = w
           /\ \A v, w \in rows' : v.latest /\ w.latest /\ v.key = w.key => v = w
  <1> DEFINE f(w) == [w EXCEPT !.latest = w.latest /\ w.key # n.key]
  <1>1. rows' = {f(w) : w \in rows} \cup {n}
    BY DEF Inserted
  <1>2. \A w \in rows : /\ f(w).id = w.id /\ f(w).key = w.key /\ f(w).size = w.size /\ f(w).marker = w.marker
                        /\ f(w).latest <=> w.latest /\ w.key # n.key
                        /\ w.id \in Nat /\ w.id <= clock
    <2> TAKE w \in rows
    <2>1. w \in RowType /\ (w.latest /\ w.key # n.key) \in BOOLEAN
      BY DEF TypeInv
    <2>2. w.id \in Nat /\ w.id <= clock
      BY <2>1 DEF RowsInv, RowType, Ids
    <2> QED BY <2>1, <2>2, LatestChanged
  <1>3. clock \in Nat
    BY WritesBounds DEF TypeInv
  <1> HIDE DEF f
  <1>4. rows' \subseteq RowType /\ IsFiniteSet(rows')
    BY RowsInserted DEF TypeInv
  <1>5. \A v \in rows' : v.marker \/ v.size \in Sizes
    BY <1>1, <1>2 DEF TypeInv
  <1>6. \A v \in rows' : v.id <= clock'
    BY <1>1, <1>2, <1>3
  <1>7. ASSUME NEW v \in rows', NEW w \in rows', v.id = w.id PROVE v = w
    <2>1. \A y \in rows : f(y).id # n.id
      BY <1>2, <1>3
    <2>2. \A y, z \in rows : f(y).id = f(z).id => y = z
      BY <1>2 DEF RowsInv
    <2> QED BY <1>1, <1>7, <2>1, <2>2
  <1>8. ASSUME NEW v \in rows', NEW w \in rows', v.latest, w.latest, v.key = w.key PROVE v = w
    <2>1. \A y \in rows : f(y).latest => f(y).key # n.key
      BY <1>2
    <2>2. \A y, z \in rows : f(y).latest /\ f(z).latest /\ f(y).key = f(z).key => y = z
      BY <1>2 DEF RowsInv
    <2> QED BY <1>1, <1>8, <2>1, <2>2
  <1> QED BY <1>4, <1>5, <1>6, <1>7, <1>8

\* The rows that Put and Delete insert.
NewRow(r) == [id |-> clock', key |-> req[r].key, size |-> req[r].size, by |-> req[r].user,
              latest |-> TRUE, marker |-> FALSE]
NewMarker(k) == [id |-> clock', key |-> k, size |-> 0, by |-> NoUser, latest |-> TRUE, marker |-> TRUE]

\* The bound on rows leaves room for what was admitted.
LEMMA StoredRow ==
    ASSUME TypeInv, RowsInv, NEW r \in Requests, Stored(r)
    PROVE  /\ NewRow(r) \in RowType /\ rows' = Inserted(NewRow(r)) /\ clock' = clock + 1 /\ clock' \in 0..MaxRows
           /\ r \in Busy /\ req[r].size \in Sizes
  <1>1. req[r] \in WriteRequest /\ r \in Busy /\ req[r].size \in Sizes /\ req[r].key \in Keys
    BY DEF TypeInv, Stored, Busy
  <1>2. clock' = clock + 1 /\ clock \in Nat /\ MaxRows \in Nat
    BY WritesBounds DEF Stored, TypeInv
  <1>3. clock + 1 <= MaxRows
    <2>1. IsFiniteSet(Busy)
      BY RequestsAssumption, FS_Subset DEF Busy
    <2>2. Cardinality(Busy) >= 1
      <3>1. IsFiniteSet(Busy \ {r}) /\ Cardinality(Busy \ {r}) = Cardinality(Busy) - 1
        BY <1>1, <2>1, FS_RemoveElement
      <3>2. Cardinality(Busy \ {r}) \in Nat /\ Cardinality(Busy) \in Nat
        BY <2>1, <3>1, FS_CardinalityType
      <3> QED BY <3>1, <3>2
    <2>3. Cardinality(Busy) \in Nat /\ clock + Cardinality(Busy) <= MaxRows
      BY <2>1, FS_CardinalityType DEF RowsInv
    <2> QED BY <1>2, <2>2, <2>3
  <1>4. NewRow(r) \in RowType
    <2>1. clock' \in Ids
      BY <1>2, <1>3 DEF Ids
    <2>2. req[r].user \in Writers /\ req[r].size \in Sizes \cup {0}
      BY <1>1 DEF WriteRequest
    <2> QED BY <1>1, <2>1, <2>2 DEF NewRow, RowType
  <1>5. rows' = Inserted(NewRow(r))
    BY Zenon DEF Stored, NewRow
  <1> QED BY <1>1, <1>2, <1>3, <1>4, <1>5

\* The transaction of Put keeps types and rows.
LEMMA StoresKeeps ==
    ASSUME TypeInv, RowsInv, NEW r \in Requests, NEW x \in WriteRequest, Stores(r, x)
    PROVE  TypeInv' /\ RowsInv'
  <1>1. /\ NewRow(r) \in RowType /\ rows' = Inserted(NewRow(r)) /\ clock' = clock + 1 /\ clock' \in 0..MaxRows
        /\ r \in Busy /\ req[r].size \in Sizes
    BY StoredRow DEF Stores
  <1>2. NewRow(r).latest /\ NewRow(r).id = clock + 1 /\ NewRow(r).size \in Sizes
    BY <1>1 DEF NewRow
  <1>3. /\ rows' \subseteq RowType /\ IsFiniteSet(rows')
        /\ \A v \in rows' : v.marker \/ v.size \in Sizes
        /\ \A v \in rows' : v.id <= clock'
        /\ \A v, w \in rows' : v.id = w.id => v = w
        /\ \A v, w \in rows' : v.latest /\ w.latest /\ v.key = w.key => v = w
    BY <1>1, <1>2, InsertedKeeps
  <1>4. Moves(r, x) /\ x.pc \notin BusyPcs
    BY DEF Stores, BusyPcs
  <1>5. Busy' = Busy \ {r}
    BY <1>4, MoveTypes
  <1>6. ASSUME NEW p \in Busy' PROVE req'[p].size \in Sizes /\ req'[p].key \in Keys
    <2>1. p \in Busy /\ p # r
      BY <1>5
    <2>2. req'[p] = req[p]
      BY <1>4, <2>1, MoveTypes DEF Busy
    <2> QED BY <2>1, <2>2 DEF TypeInv
  <1>7. TypeInv'
    BY <1>1, <1>3, <1>4, <1>6, MoveTypes DEF TypeInv
  <1>8. clock' + Cardinality(Busy') <= MaxRows
    <2>1. Cardinality(Busy') = Cardinality(Busy) - 1
      BY <1>1, <1>4, <1>5, MoveTypes, FS_RemoveElement
    <2> QED BY <1>1, <1>4, <2>1, MoveTypes, WritesBounds DEF RowsInv, TypeInv
  <1> QED BY <1>3, <1>7, <1>8 DEF RowsInv

\* The bound on rows leaves room for a marker.
LEMMA DeleteRow ==
    ASSUME TypeInv, RowsInv, NEW k \in Keys, Delete(k)
    PROVE  /\ NewMarker(k) \in RowType /\ rows' = Inserted(NewMarker(k)) /\ clock' = clock + 1 /\ clock' \in 0..MaxRows
           /\ Cardinality(Busy) \in Nat /\ clock' + Cardinality(Busy) <= MaxRows
  <1>1. IsFiniteSet(Busy)
    BY RequestsAssumption, FS_Subset DEF Busy
  <1>2. Cardinality(Busy) \in Nat /\ clock + Cardinality(Busy) < MaxRows /\ clock \in Nat /\ MaxRows \in Nat
    BY <1>1, FS_CardinalityType, WritesBounds DEF Delete, Room, Busy, TypeInv
  <1>3. clock' = clock + 1 /\ rows' = Inserted(NewMarker(k))
    BY Zenon DEF Delete, NewMarker
  <1>4. clock' \in Ids /\ NoUser \in Writers /\ 0 \in Sizes \cup {0}
    BY <1>2, <1>3 DEF Ids, Writers
  <1> QED BY <1>2, <1>3, <1>4 DEF NewMarker, RowType

\* A deletion keeps types and rows.
LEMMA DeleteKeeps ==
    ASSUME TypeInv, RowsInv, NEW k \in Keys, Delete(k)
    PROVE  TypeInv' /\ RowsInv'
  <1>1. /\ NewMarker(k) \in RowType /\ rows' = Inserted(NewMarker(k)) /\ clock' = clock + 1 /\ clock' \in 0..MaxRows
        /\ clock' + Cardinality(Busy) <= MaxRows
    BY DeleteRow
  <1>2. NewMarker(k).latest /\ NewMarker(k).id = clock + 1 /\ NewMarker(k).marker
    BY <1>1 DEF NewMarker
  <1>3. /\ rows' \subseteq RowType /\ IsFiniteSet(rows')
        /\ \A v \in rows' : v.marker \/ v.size \in Sizes
        /\ \A v \in rows' : v.id <= clock'
        /\ \A v, w \in rows' : v.id = w.id => v = w
        /\ \A v, w \in rows' : v.latest /\ w.latest /\ v.key = w.key => v = w
    BY <1>1, <1>2, InsertedKeeps
  <1>4. UNCHANGED <<quota, req, faults>>
    BY DEF Delete
  <1>5. Busy' = Busy
    BY <1>4 DEF Busy
  <1> QED BY <1>1, <1>3, <1>4, <1>5 DEF TypeInv, RowsInv

\* Whether w is the newest of the rows that v leaves of its key.
Newest(v, w) == \A x \in {y \in rows \ {v} : y.key = v.key} : x.id <= w.id

Survivor(v) ==
    [w \in rows |-> IF v.latest /\ w.key = v.key THEN [w EXCEPT !.latest = Newest(v, w)] ELSE w]

\* What is left after DeleteVersion is what was there, with another latest version.
LEMMA LeftRows ==
    ASSUME TypeInv, NEW v \in rows, DeleteVersion(v)
    PROVE  /\ \A y \in rows' : \E w \in rows \ {v} : y = Survivor(v)[w]
           /\ \A w \in rows : LET x == Survivor(v)[w] IN
                 /\ x \in RowType /\ x.id = w.id /\ x.key = w.key /\ x.size = w.size
                 /\ x.by = w.by /\ x.marker = w.marker
                 /\ x.latest => IF v.latest /\ w.key = v.key THEN Newest(v, w) ELSE w.latest
  <1>1. rows' = {Survivor(v)[w] : w \in rows \ {v}}
    BY DEF DeleteVersion, Survivor, Newest
  <1>2. ASSUME NEW w \in rows
        PROVE  LET x == Survivor(v)[w] IN
                 /\ x \in RowType /\ x.id = w.id /\ x.key = w.key /\ x.size = w.size
                 /\ x.by = w.by /\ x.marker = w.marker
                 /\ x.latest => IF v.latest /\ w.key = v.key THEN Newest(v, w) ELSE w.latest
    <2>1. Survivor(v)[w] = IF v.latest /\ w.key = v.key THEN [w EXCEPT !.latest = Newest(v, w)] ELSE w
      BY DEF Survivor
    <2>2. w \in RowType /\ Newest(v, w) \in BOOLEAN
      BY DEF TypeInv, Newest
    <2>3. CASE v.latest /\ w.key = v.key
      BY <2>1, <2>2, <2>3, LatestChanged
    <2>4. CASE ~(v.latest /\ w.key = v.key)
      BY <2>1, <2>2, <2>4
    <2> QED BY <2>3, <2>4
  <1> QED BY <1>1, <1>2

\* DeleteVersion keeps types and rows, at most one latest version among them.
LEMMA DeleteVersionKeeps ==
    ASSUME TypeInv, RowsInv, NEW v \in rows, DeleteVersion(v)
    PROVE  TypeInv' /\ RowsInv'
  <1>1. PICK f : f = Survivor(v)
    OBVIOUS
  <1>2. /\ \A y \in rows' : \E w \in rows \ {v} : y = f[w]
        /\ \A w \in rows :
              /\ f[w] \in RowType /\ f[w].id = w.id /\ f[w].key = w.key /\ f[w].size = w.size
              /\ f[w].by = w.by /\ f[w].marker = w.marker
              /\ f[w].latest => IF v.latest /\ w.key = v.key THEN Newest(v, w) ELSE w.latest
    BY <1>1, LeftRows
  <1>4. rows' \subseteq RowType /\ IsFiniteSet(rows')
    BY <1>2, RowsOfImage DEF TypeInv
  <1>5. UNCHANGED <<clock, quota, req, faults>>
    BY DEF DeleteVersion
  <1>6. Busy' = Busy
    BY <1>5 DEF Busy
  <1>7. \A w \in rows' : w.marker \/ w.size \in Sizes
    BY <1>2 DEF TypeInv
  <1>8. \A w \in rows' : w.id <= clock'
    BY <1>2, <1>5 DEF RowsInv
  <1>9. ASSUME NEW y \in rows', NEW z \in rows', y.id = z.id PROVE y = z
    BY <1>2, <1>9 DEF RowsInv
  <1>10. ASSUME NEW y \in rows', NEW z \in rows', y.latest, z.latest, y.key = z.key PROVE y = z
    <2>1. PICK a \in rows \ {v} : y = f[a]
      BY <1>2
    <2>2. PICK b \in rows \ {v} : z = f[b]
      BY <1>2
    <2>3. a.key = b.key /\ a.id \in Nat /\ b.id \in Nat
      BY <1>2, <1>10, <2>1, <2>2 DEF TypeInv, RowType, Ids
    <2>4. CASE v.latest /\ a.key = v.key
      <3>1. Newest(v, a) /\ Newest(v, b)
        BY <1>2, <1>10, <2>1, <2>2, <2>3, <2>4
      <3>2. a.id <= b.id /\ b.id <= a.id
        BY <2>3, <2>4, <3>1 DEF Newest
      <3> QED BY <2>1, <2>2, <2>3, <3>2 DEF RowsInv
    <2>5. CASE ~(v.latest /\ a.key = v.key)
      <3>1. a.latest /\ b.latest
        BY <1>2, <1>10, <2>1, <2>2, <2>3, <2>5
      <3> QED BY <2>1, <2>2, <2>3, <3>1 DEF RowsInv
    <2> QED BY <2>4, <2>5
  <1> QED BY <1>4, <1>5, <1>6, <1>7, <1>8, <1>9, <1>10 DEF TypeInv, RowsInv

\* Operators change quotas and nothing else.
LEMMA QuotaTypes ==
    ASSUME TypeInv,
           \/ \E l \in BucketQuotas : UpdateBucketQuota(l)
           \/ \E u \in Users, n \in UserQuotas : UpdateUserQuota(u, n)
    PROVE  quota' \in [bucket: BucketQuotas, user: [Users -> UserQuotas]] /\ UNCHANGED <<rows, clock, req, faults>>
  <1>1. ASSUME NEW l \in BucketQuotas, UpdateBucketQuota(l)
        PROVE  quota' \in [bucket: BucketQuotas, user: [Users -> UserQuotas]] /\ UNCHANGED <<rows, clock, req, faults>>
    BY <1>1 DEF UpdateBucketQuota, TypeInv
  <1>2. ASSUME NEW u \in Users, NEW n \in UserQuotas, UpdateUserQuota(u, n)
        PROVE  quota' \in [bucket: BucketQuotas, user: [Users -> UserQuotas]] /\ UNCHANGED <<rows, clock, req, faults>>
    BY <1>2 DEF UpdateUserQuota, TypeInv
  <1> QED BY <1>1, <1>2

-----------------------------------------------------------------------------
(* The quotas.                                                             *)

\* Requests that have passed the check of the bucket, and those of them that a user has admitted.
Checked == {r \in Requests : req[r].pc \in {"bucket", "admitted"}}
AdmittedOf(u) == {r \in Admitted : req[r].user = u}

Slack == Requesters * Largest

\* What the checks have let through: requests past the check of the bucket count before the check of
\* their user, for that one does not look at the bucket again.
OvershootInv ==
    /\ Bytes(rows) + RequestBytes(req, Checked) <= MaxBytes + Slack
    /\ Cardinality(Objects(rows)) + Cardinality(Checked) <= MaxObjects + Requesters
    /\ \A u \in Users : Bytes(OfUser(rows, u)) + RequestBytes(req, AdmittedOf(u)) <= Max(UserQuotas) + Slack

\* The size of a request is a natural number.
LEMMA SizeType ==
    ASSUME NEW x \in WriteRequest
    PROVE  x.size \in Nat
  <1>1. x.size \in Sizes \cup {0}
    BY DEF WriteRequest
  <1>2. \A n \in Sizes \cup {0} : n \in Nat
    BY SizesAssumption
  <1> QED BY <1>1, <1>2

\* Requests that leave out one leave room for one more of the largest size.
LEMMA RequestFacts ==
    ASSUME TypeInv, NEW S, S \subseteq Requests
    PROVE  /\ IsFiniteSet(S) /\ Cardinality(S) \in Nat
           /\ \A r \in S : req[r].size \in 0..Largest
           /\ RequestBytes(req, S) \in Nat
           /\ \A r \in Requests :
                 r \notin S => RequestBytes(req, S) + Largest <= Slack /\ Cardinality(S) + 1 <= Requesters
           /\ Slack \in Nat
  <1>1. IsFiniteSet(S) /\ Cardinality(S) \in Nat
    BY RequestsAssumption, FS_Subset, FS_CardinalityType
  <1>2. \A r \in S : req[r].size \in 0..Largest
    BY Bounds DEF TypeInv, WriteRequest
  <1>3. \A r \in S : req[r].size \in Nat
    BY <1>2, Bounds
  <1>4. RequestBytes(req, S) \in Nat
    BY <1>1, <1>3, RequestBytesType
  <1>5. RequestBytes(req, S) <= Cardinality(S) * Largest
    BY <1>1, <1>2, Bounds, RequestBytesBound
  <1>6. ASSUME NEW r \in Requests, r \notin S PROVE Cardinality(S) + 1 <= Requesters
    <2>1. S \cup {r} \subseteq Requests
      BY <1>6
    <2>2. Cardinality(S \cup {r}) = Cardinality(S) + 1
      BY <1>1, <1>6, FS_AddElement
    <2>3. Cardinality(S \cup {r}) <= Requesters
      BY <2>1, RequestsAssumption, FS_Subset DEF Requesters
    <2> QED BY <2>2, <2>3
  <1>7. ASSUME NEW r \in Requests, r \notin S PROVE RequestBytes(req, S) + Largest <= Slack
    <2>1. Cardinality(S) < Requesters
      BY <1>1, <1>6, <1>7, Bounds
    <2>2. Cardinality(S) * Largest + Largest <= Slack /\ Cardinality(S) * Largest \in Nat
      BY <1>1, <2>1, Bounds, Products DEF Slack
    <2> QED BY <1>4, <1>5, <2>2, Bounds, Products DEF Slack
  <1>8. Slack \in Nat
    BY Bounds, Products DEF Slack
  <1> QED BY <1>1, <1>2, <1>4, <1>6, <1>7, <1>8

\* What a step of one request does to a sum over requests.
LEMMA MovedBytes ==
    ASSUME TypeInv, NEW r \in Requests, NEW x \in WriteRequest, Moves(r, x),
           NEW S, S \subseteq Requests, NEW T, T \subseteq Requests
    PROVE  /\ T = S /\ x.size = req[r].size => RequestBytes(req', T) = RequestBytes(req, S)
           /\ T = S /\ r \notin S => RequestBytes(req', T) = RequestBytes(req, S)
           /\ T = S \ {r} /\ r \in S => RequestBytes(req', T) + req[r].size = RequestBytes(req, S)
           /\ T = S \cup {r} /\ r \notin S => RequestBytes(req', T) = RequestBytes(req, S) + x.size
  <1>1. IsFiniteSet(S) /\ IsFiniteSet(T) /\ \A p \in S : req[p].size \in Nat
    <2>1. \A p \in S : req[p].size \in 0..Largest
      BY RequestFacts
    <2> QED BY <2>1, Bounds, RequestFacts
  <1>2. req'[r] = x /\ \A p \in Requests \ {r} : req'[p] = req[p]
    BY MoveTypes
  <1>3. x.size \in Nat
    BY SizeType
  <1>4. ASSUME T = S, x.size = req[r].size PROVE RequestBytes(req', T) = RequestBytes(req, S)
    <2>1. \A p \in S : req'[p].size = req[p].size
      BY <1>2, <1>4
    <2> QED BY <1>1, <1>4, <2>1, RequestBytesAgree
  <1>5. ASSUME T = S, r \notin S PROVE RequestBytes(req', T) = RequestBytes(req, S)
    <2>1. \A p \in S : req'[p].size = req[p].size
      BY <1>2, <1>5
    <2> QED BY <1>1, <1>5, <2>1, RequestBytesAgree
  <1>6. ASSUME T = S \ {r}, r \in S PROVE RequestBytes(req', T) + req[r].size = RequestBytes(req, S)
    <2>1. \A p \in T : req'[p].size = req[p].size
      BY <1>2, <1>6
    <2>2. T \subseteq S /\ S \ {r} \subseteq T /\ r \notin T
      BY <1>6
    <2> QED BY <1>1, <1>6, <2>1, <2>2, RequestBytesWithout
  <1>7. ASSUME T = S \cup {r}, r \notin S PROVE RequestBytes(req', T) = RequestBytes(req, S) + x.size
    <2>1. \A p \in S : req[p].size = req'[p].size
      BY <1>2, <1>7
    <2>2. S \subseteq T /\ T \ {r} \subseteq S /\ r \in T
      BY <1>7
    <2>3. \A p \in T : req'[p].size \in Nat
      BY <1>1, <1>2, <1>3, <1>7
    <2>4. RequestBytes(req', T) = RequestBytes(req, S) + req'[r].size
      BY <1>1, <1>7, <2>1, <2>2, <2>3, RequestBytesWithout
    <2> QED BY <1>2, <2>4
  <1> QED BY <1>4, <1>5, <1>6, <1>7

\* Who has passed the check of the bucket, and of a user, after a step of one request.
LEMMA CheckedMoves ==
    ASSUME TypeInv, NEW r \in Requests, NEW x \in WriteRequest, Moves(r, x)
    PROVE  /\ Checked \subseteq Requests /\ Checked' \subseteq Requests
           /\ Checked' = IF x.pc \in {"bucket", "admitted"} THEN Checked \cup {r} ELSE Checked \ {r}
           /\ \A u : /\ AdmittedOf(u) \subseteq Requests /\ AdmittedOf(u)' \subseteq Requests
                     /\ AdmittedOf(u)' = IF x.pc = "admitted" /\ x.user = u
                                         THEN AdmittedOf(u) \cup {r} ELSE AdmittedOf(u) \ {r}
  <1>1. req'[r] = x /\ \A p \in Requests \ {r} : req'[p] = req[p]
    BY MoveTypes
  <1>2. Checked' = IF x.pc \in {"bucket", "admitted"} THEN Checked \cup {r} ELSE Checked \ {r}
    BY <1>1 DEF Checked
  <1>3. ASSUME NEW u
        PROVE  AdmittedOf(u)' = IF x.pc = "admitted" /\ x.user = u THEN AdmittedOf(u) \cup {r} ELSE AdmittedOf(u) \ {r}
    BY <1>1 DEF AdmittedOf, Admitted
  <1> QED BY <1>2, <1>3 DEF Checked, AdmittedOf, Admitted

\* A request that ends, or has not been checked, takes nothing of a quota.
LEMMA QuietOvershoot ==
    ASSUME TypeInv, OvershootInv, NEW r \in Requests, NEW x \in WriteRequest, Quiet(r, x)
    PROVE  OvershootInv'
  <1>1. Moves(r, x) /\ UNCHANGED <<rows, clock>> /\ x.pc \notin {"bucket", "admitted"}
    BY DEF Quiet
  <1>2. Checked' = Checked \ {r} /\ \A u : AdmittedOf(u)' = AdmittedOf(u) \ {r}
    BY <1>1, CheckedMoves
  <1>3. req[r].size \in Nat
    BY SizeType DEF TypeInv
  <1>4. ASSUME NEW S, S \subseteq Requests
        PROVE  RequestBytes(req', S \ {r}) <= RequestBytes(req, S) /\ RequestBytes(req', S \ {r}) \in Int
    <2>1. RequestBytes(req, S) \in Nat
      BY <1>4, RequestFacts
    <2>2. CASE r \in S
      <3>1. RequestBytes(req', S \ {r}) + req[r].size = RequestBytes(req, S)
        BY <1>1, <1>4, <2>2, MovedBytes
      <3>2. RequestBytes(req', S \ {r}) \in Nat
        <4>1. \A p \in S \ {r} : req'[p].size \in Nat
          BY <1>1, <1>4, MoveTypes, SizeType
        <4> QED BY <1>4, <4>1, RequestFacts, RequestBytesType
      <3> QED BY <1>3, <2>1, <3>1, <3>2
    <2>3. CASE r \notin S
      <3>1. S \ {r} = S
        BY <2>3
      <3>2. RequestBytes(req', S) = RequestBytes(req, S)
        BY <1>1, <1>4, <2>3, MovedBytes
      <3> QED BY <2>1, <3>1, <3>2
    <2> QED BY <2>2, <2>3
  <1>5. IsFiniteSet(Checked) /\ Checked \subseteq Requests /\ \A u : AdmittedOf(u) \subseteq Requests
    BY <1>1, CheckedMoves, RequestFacts
  <1>6. RequestBytes(req, Checked) \in Nat /\ \A u : RequestBytes(req, AdmittedOf(u)) \in Nat
    BY <1>5, RequestFacts
  <1>7. /\ Cardinality(Checked \ {r}) <= Cardinality(Checked) /\ Cardinality(Checked \ {r}) \in Nat
        /\ Cardinality(Checked) \in Nat
    BY <1>5, FS_Subset, FS_CardinalityType
  <1>8. /\ Bytes(rows) \in Nat /\ Cardinality(Objects(rows)) \in Nat /\ \A u : Bytes(OfUser(rows, u)) \in Nat
    BY RowFacts DEF TypeInv
  <1>9. Slack \in Nat /\ MaxBytes \in Nat /\ MaxObjects \in Nat /\ Requesters \in Nat /\ Max(UserQuotas) \in Nat
    BY <1>5, RequestFacts, Bounds
  <1>10. Bytes(rows) + RequestBytes(req', Checked') <= MaxBytes + Slack
    BY <1>2, <1>4, <1>5, <1>6, <1>8, <1>9 DEF OvershootInv
  <1>11. Cardinality(Objects(rows)) + Cardinality(Checked') <= MaxObjects + Requesters
    BY <1>2, <1>7, <1>8, <1>9 DEF OvershootInv
  <1>12. ASSUME NEW u \in Users
         PROVE  Bytes(OfUser(rows, u)) + RequestBytes(req', AdmittedOf(u)') <= Max(UserQuotas) + Slack
    BY <1>2, <1>4, <1>5, <1>6, <1>8, <1>9 DEF OvershootInv
  <1> QED BY <1>1, <1>10, <1>11, <1>12 DEF OvershootInv

\* The numbers that the invariant compares.
LEMMA Numbers ==
    ASSUME TypeInv
    PROVE  /\ Bytes(rows) \in Nat /\ Cardinality(rows) \in Nat
           /\ Cardinality(Objects(rows)) \in Nat /\ Cardinality(Objects(rows)) <= Cardinality(rows)
           /\ \A u : Bytes(OfUser(rows, u)) \in Nat
           /\ Checked \subseteq Requests /\ Cardinality(Checked) \in Nat /\ RequestBytes(req, Checked) \in Nat
           /\ \A u : AdmittedOf(u) \subseteq Requests /\ RequestBytes(req, AdmittedOf(u)) \in Nat
           /\ Slack \in Nat /\ Largest \in Nat /\ Requesters \in Nat
           /\ MaxBytes \in Nat /\ MaxObjects \in Nat /\ Max(UserQuotas) \in Nat
  <1>1. Checked \subseteq Requests /\ \A u : AdmittedOf(u) \subseteq Requests
    BY DEF Checked, AdmittedOf, Admitted
  <1> QED BY <1>1, RowFacts, RequestFacts, Bounds DEF TypeInv

\* What is charged is at most the largest size below what is stored: a replaced version still counts.
LEMMA ExistingType ==
    ASSUME TypeInv, NEW r \in Requests
    PROVE  /\ req[r].size \in Nat /\ req[r].size <= Largest
           /\ Delta(req[r]) \in Int /\ req[r].size <= Delta(req[r]) + Largest
  <1>1. req[r] \in WriteRequest
    BY DEF TypeInv
  <1>2. req[r].size \in Sizes \cup {0} /\ req[r].existing \in Sizes \cup {-1}
    BY <1>1 DEF WriteRequest
  <1>3. req[r].size \in 0..Largest /\ (req[r].existing = -1 \/ req[r].existing \in 0..Largest)
    BY <1>2, Bounds
  <1> QED BY <1>3, Bounds DEF Delta

\* The quotas in force are among those that operators give.
LEMMA QuotasInForce ==
    ASSUME TypeInv
    PROVE  /\ quota.bucket.bytes \in Nat /\ quota.bucket.bytes <= MaxBytes
           /\ quota.bucket.objects \in Nat /\ quota.bucket.objects <= MaxObjects
           /\ \A u \in Users : quota.user[u] \in Nat /\ quota.user[u] <= Max(UserQuotas)
  <1>1. quota.bucket \in BucketQuotas /\ \A u \in Users : quota.user[u] \in UserQuotas
    BY DEF TypeInv
  <1> QED BY <1>1, Bounds

\* The check of the bucket (CheckObjectWrite): what it read plus what the others may add.
LEMMA BucketOvershoot ==
    ASSUME TypeInv, OvershootInv, NEW r \in Requests, NEW x \in WriteRequest, PassesBucket(r, x)
    PROVE  OvershootInv'
  <1>1. Moves(r, x) /\ UNCHANGED <<rows, clock>> /\ req[r].pc = "looked"
    BY DEF PassesBucket
  <1>2. x.size = req[r].size /\ x.user = req[r].user /\ x.pc \in {"bucket", "admitted"}
        /\ (x.pc = "admitted" => x.user = NoUser)
    BY DEF PassesBucket, TypeInv, WriteRequest
  <1>3. r \notin Checked /\ Checked' = Checked \cup {r}
    BY <1>1, <1>2, CheckedMoves DEF Checked
  <1>4. \A u \in Users : r \notin AdmittedOf(u) /\ AdmittedOf(u)' = AdmittedOf(u)
    <2>1. \A u : r \notin AdmittedOf(u)
      BY <1>1 DEF AdmittedOf, Admitted
    <2> QED BY <1>1, <1>2, <2>1, CheckedMoves, UsersAssumption
  <1>5. RequestBytes(req', Checked') = RequestBytes(req, Checked) + req[r].size
    BY <1>1, <1>2, <1>3, CheckedMoves, MovedBytes
  <1>6. Bytes(rows) + Delta(req[r]) <= MaxBytes /\ Cardinality(rows) <= MaxObjects
    <2>1. /\ Bytes(rows) + Delta(req[r]) <= quota.bucket.bytes
          /\ Cardinality(rows) + (IF req[r].existing < 0 THEN 1 ELSE 0) <= quota.bucket.objects
      BY DEF PassesBucket, Allows, BucketUsage
    <2> QED BY <2>1, Numbers, ExistingType, QuotasInForce
  <1>7. RequestBytes(req, Checked) + Largest <= Slack /\ Cardinality(Checked) + 1 <= Requesters
    BY <1>3, Numbers, RequestFacts
  <1>8. Bytes(rows) + RequestBytes(req', Checked') <= MaxBytes + Slack
    BY <1>5, <1>6, <1>7, Numbers, ExistingType
  <1>9. Cardinality(Objects(rows)) + Cardinality(Checked') <= MaxObjects + Requesters
    <2>1. Cardinality(Checked') = Cardinality(Checked) + 1
      BY <1>3, Numbers, RequestFacts, FS_AddElement
    <2> QED BY <1>6, <1>7, <2>1, Numbers
  <1>10. ASSUME NEW u \in Users
         PROVE  Bytes(OfUser(rows, u)) + RequestBytes(req', AdmittedOf(u)') <= Max(UserQuotas) + Slack
    <2>1. RequestBytes(req', AdmittedOf(u)') = RequestBytes(req, AdmittedOf(u))
      BY <1>1, <1>4, Numbers, MovedBytes
    <2> QED BY <2>1 DEF OvershootInv
  <1> QED BY <1>1, <1>8, <1>9, <1>10 DEF OvershootInv

\* The check of the user (CheckObjectWrite).
LEMMA UserOvershoot ==
    ASSUME TypeInv, OvershootInv, NEW r \in Requests, NEW x \in WriteRequest, PassesUser(r, x)
    PROVE  OvershootInv'
  <1>1. Moves(r, x) /\ UNCHANGED <<rows, clock>> /\ req[r].pc = "bucket"
    BY DEF PassesUser
  <1>2. x.size = req[r].size /\ x.user = req[r].user /\ x.pc = "admitted"
    BY DEF PassesUser, TypeInv, WriteRequest
  <1>3. Checked' = Checked
    BY <1>1, <1>2, CheckedMoves DEF Checked
  <1>4. RequestBytes(req', Checked') = RequestBytes(req, Checked)
    BY <1>1, <1>2, <1>3, Numbers, MovedBytes
  <1>5. ASSUME NEW u \in Users
        PROVE  Bytes(OfUser(rows, u)) + RequestBytes(req', AdmittedOf(u)') <= Max(UserQuotas) + Slack
    <2>1. r \notin AdmittedOf(u)
      BY <1>1 DEF AdmittedOf, Admitted
    <2>2. CASE req[r].user # u
      <3>1. AdmittedOf(u)' = AdmittedOf(u)
        <4>1. AdmittedOf(u)' = AdmittedOf(u) \ {r}
          BY <1>1, <1>2, <2>2, CheckedMoves
        <4> QED BY <2>1, <4>1
      <3>2. RequestBytes(req', AdmittedOf(u)') = RequestBytes(req, AdmittedOf(u))
        BY <1>1, <2>1, <3>1, Numbers, MovedBytes
      <3> QED BY <3>2 DEF OvershootInv
    <2>3. CASE req[r].user = u
      <3>1. AdmittedOf(u)' = AdmittedOf(u) \cup {r}
        BY <1>1, <1>2, <2>3, CheckedMoves
      <3>2. RequestBytes(req', AdmittedOf(u)') = RequestBytes(req, AdmittedOf(u)) + req[r].size
        BY <1>1, <1>2, <2>1, <3>1, CheckedMoves, MovedBytes
      <3>3. Bytes(OfUser(rows, u)) + Delta(req[r]) <= Max(UserQuotas)
        <4>1. Bytes(OfUser(rows, u)) + Delta(req[r]) <= quota.user[u]
          BY <2>3 DEF PassesUser, UserUsage, OfUser
        <4> QED BY <4>1, Numbers, ExistingType, QuotasInForce
      <3>4. RequestBytes(req, AdmittedOf(u)) + Largest <= Slack
        BY <2>1, Numbers, RequestFacts
      <3> QED BY <3>2, <3>3, <3>4, Numbers, ExistingType
    <2> QED BY <2>2, <2>3
  <1> QED BY <1>1, <1>3, <1>4, <1>5 DEF OvershootInv

\* The transaction of Put turns what was admitted into rows.
LEMMA StoresOvershoot ==
    ASSUME TypeInv, RowsInv, OvershootInv, NEW r \in Requests, NEW x \in WriteRequest, Stores(r, x)
    PROVE  OvershootInv'
  <1>1. Moves(r, x) /\ req[r].pc = "admitted" /\ x.pc \notin {"bucket", "admitted"}
    BY DEF Stores, Stored
  <1>2. NewRow(r) \in RowType /\ rows' = Inserted(NewRow(r))
    BY StoredRow DEF Stores
  <1>3. NewRow(r).size = req[r].size /\ NewRow(r).by = req[r].user /\ NewRow(r).marker = FALSE
    BY DEF NewRow
  <1>4. /\ rows' \subseteq RowType /\ IsFiniteSet(rows')
        /\ Bytes(rows') <= Bytes(rows) + req[r].size
        /\ \A u : Bytes(OfUser(rows', u)) <= Bytes(OfUser(rows, u)) + IF req[r].user = u THEN req[r].size ELSE 0
        /\ Cardinality(Objects(rows')) <= Cardinality(Objects(rows)) + 1
    BY <1>2, <1>3, RowsInserted DEF TypeInv
  <1>5. /\ Bytes(rows') \in Nat /\ Cardinality(Objects(rows')) \in Nat
        /\ \A u : Bytes(OfUser(rows', u)) \in Nat
    BY <1>4, RowFacts
  <1>6. r \in Checked /\ Checked' = Checked \ {r}
    BY <1>1, CheckedMoves DEF Checked
  <1>7. RequestBytes(req', Checked') + req[r].size = RequestBytes(req, Checked)
    BY <1>1, <1>6, CheckedMoves, MovedBytes
  <1>8. \A p \in Requests : req'[p].size \in Nat
    BY <1>1, MoveTypes, SizeType
  <1>9. RequestBytes(req', Checked') \in Nat /\ \A u : RequestBytes(req', AdmittedOf(u)') \in Nat
    <2>1. \A S \in SUBSET Requests : IsFiniteSet(S) /\ \A p \in S : req'[p].size \in Nat
      BY <1>8, RequestsAssumption, FS_Subset
    <2>2. \A S \in SUBSET Requests : RequestBytes(req', S) \in Nat
      BY <2>1, RequestBytesType
    <2> QED BY <1>1, <2>2, CheckedMoves
  <1>10. Bytes(rows') + RequestBytes(req', Checked') <= MaxBytes + Slack
    BY <1>4, <1>5, <1>7, <1>9, Numbers, ExistingType DEF OvershootInv
  <1>11. Cardinality(Objects(rows')) + Cardinality(Checked') <= MaxObjects + Requesters
    <2>1. Cardinality(Checked') = Cardinality(Checked) - 1
      BY <1>6, Numbers, RequestFacts, FS_RemoveElement
    <2> QED BY <1>4, <1>5, <2>1, Numbers DEF OvershootInv
  <1>12. ASSUME NEW u \in Users
         PROVE  Bytes(OfUser(rows', u)) + RequestBytes(req', AdmittedOf(u)') <= Max(UserQuotas) + Slack
    <2>1. AdmittedOf(u)' = AdmittedOf(u) \ {r}
      BY <1>1, CheckedMoves
    <2>2. CASE req[r].user = u
      <3>1. r \in AdmittedOf(u)
        BY <1>1, <2>2 DEF AdmittedOf, Admitted
      <3>2. RequestBytes(req', AdmittedOf(u)') + req[r].size = RequestBytes(req, AdmittedOf(u))
        BY <1>1, <2>1, <3>1, CheckedMoves, MovedBytes
      <3>3. Bytes(OfUser(rows', u)) <= Bytes(OfUser(rows, u)) + req[r].size
        BY <1>4, <2>2
      <3> QED BY <1>5, <1>9, <3>2, <3>3, Numbers, ExistingType DEF OvershootInv
    <2>3. CASE req[r].user # u
      <3>1. r \notin AdmittedOf(u) /\ AdmittedOf(u)' = AdmittedOf(u)
        BY <2>1, <2>3 DEF AdmittedOf, Admitted
      <3>2. RequestBytes(req', AdmittedOf(u)') = RequestBytes(req, AdmittedOf(u))
        BY <1>1, <3>1, Numbers, MovedBytes
      <3>3. Bytes(OfUser(rows', u)) <= Bytes(OfUser(rows, u))
        BY <1>4, <1>5, <2>3, Numbers
      <3> QED BY <1>5, <1>9, <3>2, <3>3, Numbers DEF OvershootInv
    <2> QED BY <2>2, <2>3
  <1> QED BY <1>10, <1>11, <1>12 DEF OvershootInv

\* Rows that do not grow.
LEMMA RowsOvershoot ==
    ASSUME TypeInv, OvershootInv, UNCHANGED req,
           rows' \subseteq RowType, IsFiniteSet(rows'), Bytes(rows') <= Bytes(rows),
           \A u \in Users : Bytes(OfUser(rows', u)) <= Bytes(OfUser(rows, u)),
           Cardinality(Objects(rows')) <= Cardinality(Objects(rows))
    PROVE  OvershootInv'
  <1>1. Checked' = Checked /\ \A u : AdmittedOf(u)' = AdmittedOf(u)
    BY DEF Checked, AdmittedOf, Admitted
  <1>2. /\ Bytes(rows') \in Nat /\ Cardinality(Objects(rows')) \in Nat
        /\ \A u : Bytes(OfUser(rows', u)) \in Nat
    BY RowFacts
  <1>3. Bytes(rows') + RequestBytes(req', Checked') <= MaxBytes + Slack
    BY <1>1, <1>2, Numbers DEF OvershootInv
  <1>4. Cardinality(Objects(rows')) + Cardinality(Checked') <= MaxObjects + Requesters
    BY <1>1, <1>2, Numbers DEF OvershootInv
  <1>5. ASSUME NEW u \in Users
        PROVE  Bytes(OfUser(rows', u)) + RequestBytes(req', AdmittedOf(u)') <= Max(UserQuotas) + Slack
    BY <1>1, <1>2, Numbers DEF OvershootInv
  <1> QED BY <1>3, <1>4, <1>5 DEF OvershootInv

\* Deletions and markers take nothing of a quota.
LEMMA DeletionsOvershoot ==
    ASSUME TypeInv, RowsInv, OvershootInv,
           (\E k \in Keys : Delete(k)) \/ (\E v \in rows : DeleteVersion(v))
    PROVE  OvershootInv'
  <1>1. ASSUME NEW k \in Keys, Delete(k) PROVE OvershootInv'
    <2>1. NewMarker(k) \in RowType /\ rows' = Inserted(NewMarker(k)) /\ UNCHANGED req
      BY <1>1, DeleteRow DEF Delete
    <2>2. NewMarker(k).size = 0 /\ NewMarker(k).marker = TRUE /\ NewMarker(k).by = NoUser
      BY DEF NewMarker
    <2>3. /\ rows' \subseteq RowType /\ IsFiniteSet(rows')
          /\ Bytes(rows') <= Bytes(rows) + 0
          /\ \A u : Bytes(OfUser(rows', u)) <= Bytes(OfUser(rows, u)) + IF NoUser = u THEN 0 ELSE 0
          /\ Cardinality(Objects(rows')) <= Cardinality(Objects(rows)) + 0
      BY <2>1, <2>2, RowsInserted DEF TypeInv
    <2>4. /\ Bytes(rows') <= Bytes(rows) /\ Cardinality(Objects(rows')) <= Cardinality(Objects(rows))
          /\ \A u : Bytes(OfUser(rows', u)) <= Bytes(OfUser(rows, u))
      BY <2>3, Numbers
    <2> QED BY <2>1, <2>3, <2>4, RowsOvershoot
  <1>2. ASSUME NEW v \in rows, DeleteVersion(v) PROVE OvershootInv'
    <2>1. PICK f : f = Survivor(v)
      OBVIOUS
    <2>2. /\ \A y \in rows' : \E w \in rows : y = f[w]
          /\ \A w \in rows : f[w] \in RowType /\ f[w].size = w.size /\ f[w].by = w.by /\ f[w].marker = w.marker
      BY <1>2, <2>1, LeftRows
    <2>3. /\ rows' \subseteq RowType /\ IsFiniteSet(rows')
          /\ Bytes(rows') <= Bytes(rows)
          /\ \A u : Bytes(OfUser(rows', u)) <= Bytes(OfUser(rows, u))
          /\ Cardinality(Objects(rows')) <= Cardinality(Objects(rows))
      <3>1. rows \subseteq RowType /\ IsFiniteSet(rows)
        BY DEF TypeInv
      <3>2. PICK T : T = rows'
        OBVIOUS
      <3>3. \A y \in T : \E w \in rows : y = f[w]
        BY <2>2, <3>2
      <3>4. /\ T \subseteq RowType /\ IsFiniteSet(T)
            /\ Bytes(T) <= Bytes(rows)
            /\ \A u : Bytes(OfUser(T, u)) <= Bytes(OfUser(rows, u))
            /\ Cardinality(Objects(T)) <= Cardinality(Objects(rows))
        BY <2>2, <3>1, <3>3, RowsOfImage
      <3> QED BY <3>2, <3>4
    <2>4. UNCHANGED req
      BY <1>2 DEF DeleteVersion
    <2> QED BY <2>3, <2>4, RowsOvershoot
  <1> QED BY <1>1, <1>2

WritesInv == TypeInv /\ RowsInv /\ OvershootInv

\* It holds at the start.
LEMMA WritesInit == WInit => WritesInv
  <1> SUFFICES ASSUME WInit PROVE WritesInv
    OBVIOUS
  <1>1. IsFiniteSet({}) /\ Cardinality({}) = 0
    BY FS_EmptySet
  <1>2. Busy = {} /\ Checked = {} /\ \A u : AdmittedOf(u) = {}
    BY DEF WInit, Busy, Checked, AdmittedOf, Admitted, Unsent
  <1>3. req \in [Requests -> WriteRequest]
    BY UnsentType DEF WInit
  <1>4. TypeInv
    BY <1>1, <1>2, <1>3, WritesBounds DEF TypeInv, WInit
  <1>5. RowsInv
    BY <1>1, <1>2, WritesBounds DEF RowsInv, WInit
  <1>6. Objects(rows) = {} /\ rows = {} /\ \A u : OfUser(rows, u) = {}
    BY DEF Objects, OfUser, WInit
  <1>7. Bytes({}) = 0 /\ RequestBytes(req, {}) = 0
    <2> DEFINE w == [x \in {} |-> 0]
    <2>1. (\A v \in {} : w[v] = v.size) /\ \A r \in {} : w[r] = req[r].size
      OBVIOUS
    <2> HIDE DEF w
    <2>2. Total(w, {}) = 0
      BY <1>1, TotalStep
    <2> QED BY <1>1, <2>1, <2>2, BytesIsTotal, RequestBytesIsTotal
  <1>8. OvershootInv
    <2>1. Bytes(rows) + RequestBytes(req, Checked) = 0
      BY <1>2, <1>6, <1>7
    <2>2. Cardinality(Objects(rows)) + Cardinality(Checked) = 0
      BY <1>1, <1>2, <1>6
    <2>3. \A u : Bytes(OfUser(rows, u)) + RequestBytes(req, AdmittedOf(u)) = 0
      BY <1>2, <1>6, <1>7
    <2>4. 0 <= MaxBytes + Slack /\ 0 <= MaxObjects + Requesters /\ 0 <= Max(UserQuotas) + Slack
      BY <1>4, Numbers
    <2> QED BY <2>1, <2>2, <2>3, <2>4 DEF OvershootInv
  <1> QED BY <1>4, <1>5, <1>8 DEF WritesInv

\* Every step keeps it.
LEMMA WritesNext ==
    ASSUME WritesInv, [WNext]_wvars
    PROVE  WritesInv'
  <1>0. TypeInv /\ RowsInv /\ OvershootInv
    BY DEF WritesInv
  <1>1. ASSUME NEW r \in Requests, NEW x \in WriteRequest, Quiet(r, x) PROVE WritesInv'
    <2>1. Moves(r, x) /\ UNCHANGED <<rows, clock>>
      BY <1>1 DEF Quiet
    <2>2. x.pc \in BusyPcs => (r \in Busy \/ Room) /\ x.size \in Sizes /\ x.key \in Keys
      BY <1>1 DEF Quiet, BusyPcs, Busy
    <2>3. TypeInv' /\ RowsInv'
      BY <1>0, <2>1, <2>2, MoveKeeps
    <2>4. OvershootInv'
      BY <1>0, <1>1, QuietOvershoot
    <2> QED BY <2>3, <2>4 DEF WritesInv
  <1>2. ASSUME NEW r \in Requests, NEW x \in WriteRequest, PassesBucket(r, x) \/ PassesUser(r, x) PROVE WritesInv'
    <2>1. Moves(r, x) /\ UNCHANGED <<rows, clock>> /\ r \in Busy
      BY <1>2 DEF PassesBucket, PassesUser, Busy
    <2>2. x.size = req[r].size /\ x.key = req[r].key
      BY <1>0, <1>2 DEF PassesBucket, PassesUser, TypeInv, WriteRequest
    <2>3. TypeInv' /\ RowsInv'
      <3>1. x.size \in Sizes /\ x.key \in Keys
        BY <1>0, <2>1, <2>2 DEF TypeInv
      <3> QED BY <1>0, <2>1, <3>1, MoveKeeps
    <2>4. OvershootInv'
      BY <1>0, <1>2, BucketOvershoot, UserOvershoot
    <2> QED BY <2>3, <2>4 DEF WritesInv
  <1>3. ASSUME NEW r \in Requests, NEW x \in WriteRequest, Stores(r, x) PROVE WritesInv'
    BY <1>0, <1>3, StoresKeeps, StoresOvershoot DEF WritesInv
  <1>4. ASSUME (\E k \in Keys : Delete(k)) \/ (\E v \in rows : DeleteVersion(v)) PROVE WritesInv'
    BY <1>0, <1>4, DeleteKeeps, DeleteVersionKeeps, DeletionsOvershoot DEF WritesInv
  <1>5. ASSUME \/ \E l \in BucketQuotas : UpdateBucketQuota(l)
               \/ \E u \in Users, n \in UserQuotas : UpdateUserQuota(u, n)
        PROVE  WritesInv'
    <2>1. quota' \in [bucket: BucketQuotas, user: [Users -> UserQuotas]] /\ UNCHANGED <<rows, clock, req, faults>>
      BY <1>0, <1>5, QuotaTypes
    <2>2. Busy' = Busy /\ Checked' = Checked /\ \A u : AdmittedOf(u)' = AdmittedOf(u)
      BY <2>1 DEF Busy, Checked, AdmittedOf, Admitted
    <2> QED BY <1>0, <2>1, <2>2 DEF WritesInv, TypeInv, RowsInv, OvershootInv
  <1>6. CASE UNCHANGED wvars
    <2>1. Busy' = Busy /\ Checked' = Checked /\ \A u : AdmittedOf(u)' = AdmittedOf(u)
      BY <1>6 DEF wvars, Busy, Checked, AdmittedOf, Admitted
    <2> QED BY <1>0, <1>6, <2>1 DEF wvars, WritesInv, TypeInv, RowsInv, OvershootInv
  <1>7. CASE WNext
    BY <1>0, <1>1, <1>2, <1>3, <1>4, <1>5, <1>7, Steps DEF RequestStep
  <1> QED BY <1>6, <1>7

\* In every reachable state rows, requests and quotas are related as the invariant says.
THEOREM WritesInvariance == WSpec => []WritesInv
  <1> QED BY WritesInit, WritesNext, PTL DEF WSpec

\* Types of rows, quotas and requests; and a key has at most one latest version, however puts, markers
\* and deletions of versions follow each other.
THEOREM TypeCorrectness == WSpec => []TypeOK
  <1>1. WritesInv => TypeOK
    BY DEF WritesInv, TypeInv, RowsInv, TypeOK, WriteRequest, Pcs, Answers
  <1> QED BY <1>1, WritesInvariance, PTL

\* However many requests pass the checks of objects.Put at once, which hold no lock until the insert, what
\* is stored and admitted exceeds the largest quota by at most one object of the largest size for each
\* request: in bytes and objects of the bucket, and in bytes of every user (CheckObjectWrite).
THEOREM QuotasHold == WSpec => []OvershootBounded
  <1>1. WritesInv => OvershootBounded
    <2> SUFFICES ASSUME WritesInv PROVE OvershootBounded
      OBVIOUS
    <2>1. TypeInv /\ OvershootInv
      BY DEF WritesInv
    <2>2. Admitted \subseteq Checked
      BY DEF Admitted, Checked
    <2>3. RequestBytes(req, Admitted) <= RequestBytes(req, Checked) /\ RequestBytes(req, Admitted) \in Nat
      <3> DEFINE w == [r \in Checked |-> req[r].size]
                 f == [r \in Checked |-> r]
      <3>1. \A r \in Checked : w[r] = req[r].size /\ w[r] \in Nat /\ f[r] = r
        BY <2>1, Numbers, SizeType DEF TypeInv
      <3> HIDE DEF w, f
      <3>2. IsFiniteSet(Checked) /\ IsFiniteSet(Admitted)
        BY <2>1, <2>2, Numbers, RequestFacts
      <3>3. RequestBytes(req, Checked) = Total(w, Checked) /\ RequestBytes(req, Admitted) = Total(w, Admitted)
        BY <2>2, <3>1, <3>2, RequestBytesIsTotal
      <3>4. \A y \in Admitted : w[y] \in Nat /\ \E x \in Checked : y = f[x]
        BY <2>2, <3>1
      <3>5. \A x \in Checked : f[x] \in Admitted => w[f[x]] <= w[x]
        BY <3>1
      <3>6. \A x \in Checked : w[x] \in Nat
        BY <3>1
      <3>7. Total(w, Admitted) <= Total(w, Checked)
        BY <3>2, <3>4, <3>5, <3>6, TotalImage
      <3> QED BY <2>1, <2>2, <3>3, <3>7, Numbers, RequestFacts
    <2>4. Cardinality(Admitted) <= Cardinality(Checked) /\ Cardinality(Admitted) \in Nat
      BY <2>1, <2>2, Numbers, RequestFacts, FS_Subset
    <2>5. Bytes(rows) + RequestBytes(req, Admitted) <= MaxBytes + Slack
      BY <2>1, <2>3, Numbers DEF OvershootInv
    <2>6. Cardinality(Objects(rows)) + Cardinality(Admitted) <= MaxObjects + Requesters
      BY <2>1, <2>4, Numbers DEF OvershootInv
    <2>7. \A u \in Users : Bytes(OfUser(rows, u)) + RequestBytes(req, AdmittedOf(u)) <= Max(UserQuotas) + Slack
      BY <2>1 DEF OvershootInv
    <2> QED BY <2>5, <2>6, <2>7 DEF OvershootBounded, RequestBytes, Objects, OfUser,
           AdmittedOf, UserUsage, MaxBytes, MaxObjects, Slack
  <1> QED BY <1>1, WritesInvariance, PTL

-----------------------------------------------------------------------------
(* What is told.                                                           *)

Told == {"upload", "copy", "complete"}

\* What one request tells is true.
Truthful(x) ==
    x.kind \in Told =>
        /\ x.pc = "stored" => x.row
        /\ x.pc # "over" => x.answer = "none" /\ ~x.audited /\ ~x.emitted
        /\ x.answer = "ok" \/ x.audited \/ x.emitted => x.row

AnswersInv == req \in [Requests -> WriteRequest] /\ \A r \in Requests : Truthful(req[r])

\* A request that has just returned has told nothing.
LEMMA SilentTruthful ==
    /\ Truthful(Unsent)
    /\ \A x, row : Truthful(Returned(x, "failed", row)) /\ Truthful(Returned(x, "stored", TRUE))
  BY DEF Truthful, Returned, Unsent, Told

\* The others stay as they are.
LEMMA MoveTruthful ==
    ASSUME AnswersInv, NEW r \in Requests, NEW x, req' = [req EXCEPT ![r] = x], Truthful(x)
    PROVE  \A p \in Requests : Truthful(req'[p])
  BY DEF AnswersInv

\* A handler that sees the error of Put tells what happened.
LEMMA TellTruthful ==
    ASSUME AnswersInv, NEW r \in Requests, NEW audits \in BOOLEAN, NEW a \in BOOLEAN, NEW e \in BOOLEAN,
           NEW error \in BOOLEAN, Tell(r, error, audits, a, e),
           req[r].kind \in Told => error = (req[r].pc = "failed")
    PROVE  \A p \in Requests : Truthful(req'[p])
  <1>1. req[r] \in WriteRequest /\ Truthful(req[r]) /\ req[r].pc \in {"stored", "failed"}
    BY DEF AnswersInv, Tell
  <1>2. CASE error
    <2> DEFINE x == [req[r] EXCEPT !.pc = "over", !.answer = "error"]
    <2>1. req' = [req EXCEPT ![r] = x]
      BY <1>2 DEF Tell
    <2>2. Truthful(x)
      BY <1>1 DEF Truthful, WriteRequest
    <2> HIDE DEF x
    <2> QED BY <2>1, <2>2, MoveTruthful
  <1>3. CASE ~error
    <2> DEFINE x == [req[r] EXCEPT !.pc = "over", !.answer = "ok", !.audited = a /\ audits, !.emitted = e]
    <2>1. req' = [req EXCEPT ![r] = x]
      BY <1>3 DEF Tell
    <2>2. x.kind = req[r].kind /\ x.row = req[r].row /\ x.pc = "over"
      BY <1>1 DEF WriteRequest
    <2>3. req[r].kind \in Told => req[r].row
      BY <1>1, <1>3 DEF Truthful
    <2>4. Truthful(x)
      <3> HIDE DEF x
      <3> QED BY <2>2, <2>3 DEF Truthful
    <2> HIDE DEF x
    <2> QED BY <2>1, <2>4, MoveTruthful
  <1> QED BY <1>2, <1>3

\* Every step keeps it.
LEMMA StepsTruthful ==
    ASSUME TypeInv, AnswersInv, WNext
    PROVE  \A p \in Requests : Truthful(req'[p])
  <1>1. ASSUME NEW r \in Requests, NEW k \in Keys, NEW u \in Writers, NEW n \in Sizes, NEW valid \in BOOLEAN,
               \/ Upload(r, k, u, n, valid) \/ Copy(r, k, u, n, valid) \/ PutObject(r, k, u, n, valid)
               \/ CopyObject(r, k, u, n, valid) \/ Complete(r, k, u, n, valid)
        PROVE  \A p \in Requests : Truthful(req'[p])
    <2>1. PICK kind : Begin(r, kind, k, u, n, valid)
      BY <1>1 DEF Upload, Copy, PutObject, CopyObject, Complete
    <2> DEFINE x == [Unsent EXCEPT !.kind = kind, !.key = k, !.user = u, !.size = n, !.pc = "sent"]
    <2>2. req' = [req EXCEPT ![r] = IF valid THEN x ELSE Returned(x, "failed", FALSE)]
      BY <2>1 DEF Begin
    <2>3. Truthful(x)
      BY DEF Truthful, Unsent
    <2> HIDE DEF x
    <2> QED BY <2>2, <2>3, SilentTruthful, MoveTruthful
  <1>2. ASSUME NEW r \in Requests, NEW a \in BOOLEAN, NEW e \in BOOLEAN,
               AnswerUpload(r, a, e) \/ AnswerCopy(r, a, e) \/ AnswerPutObject(r, a, e) \/ AnswerComplete(r, a, e)
        PROVE  \A p \in Requests : Truthful(req'[p])
    <2>1. CASE AnswerPutObject(r, a, e)
      <3>1. Tell(r, FALSE, TRUE, a, e) /\ req[r].kind \notin Told
        BY <2>1 DEF AnswerPutObject, Told
      <3> QED BY <3>1, TellTruthful
    <2>2. CASE AnswerUpload(r, a, e) \/ AnswerCopy(r, a, e) \/ AnswerComplete(r, a, e)
      <3> DEFINE error == req[r].pc = "failed"
      <3>1. error \in BOOLEAN /\ (Tell(r, error, TRUE, a, e) \/ Tell(r, error, FALSE, a, e))
        BY <2>2 DEF AnswerUpload, AnswerCopy, AnswerComplete, Failed
      <3> QED BY <3>1, TellTruthful
    <2> QED BY <1>2, <2>1, <2>2
  <1>3. ASSUME NEW r \in Requests, Lookup(r) PROVE \A p \in Requests : Truthful(req'[p])
    <2> DEFINE x == [req[r] EXCEPT !.pc = "looked", !.existing = lookupExistingObject(req[r].key)]
    <2>1. req' = [req EXCEPT ![r] = x]
      BY <1>3 DEF Lookup
    <2>2. Truthful(x)
      BY <1>3 DEF Lookup, AnswersInv, Truthful, WriteRequest
    <2> HIDE DEF x
    <2> QED BY <2>1, <2>2, MoveTruthful
  <1>5. ASSUME NEW r \in Requests, CheckBucket(r) \/ CheckUser(r) PROVE \A p \in Requests : Truthful(req'[p])
    <2>1. CASE req' = [req EXCEPT ![r] = Returned(req[r], "failed", FALSE)]
      BY <2>1, SilentTruthful, MoveTruthful
    <2>2. CASE req' # [req EXCEPT ![r] = Returned(req[r], "failed", FALSE)]
      <3>1. \E pc \in {"bucket", "admitted"} : req' = [req EXCEPT ![r] = [req[r] EXCEPT !.pc = pc]]
        BY <1>5, <2>2 DEF CheckBucket, CheckUser
      <3>2. PICK pc \in {"bucket", "admitted"} : req' = [req EXCEPT ![r] = [req[r] EXCEPT !.pc = pc]]
        BY <3>1
      <3>3. req[r].pc # "over"
        BY <1>5 DEF CheckBucket, CheckUser
      <3>4. Truthful([req[r] EXCEPT !.pc = pc])
        BY <3>3 DEF AnswersInv, Truthful, WriteRequest
      <3> QED BY <3>2, <3>4, MoveTruthful
    <2> QED BY <2>1, <2>2
  <1>6. ASSUME NEW r \in Requests, Put(r) \/ PutFails(r) \/ PutUnacknowledged(r)
        PROVE  \A p \in Requests : Truthful(req'[p])
    <2>1. \/ req' = [req EXCEPT ![r] = Returned(req[r], "stored", TRUE)]
          \/ \E row : req' = [req EXCEPT ![r] = Returned(req[r], "failed", row)]
      BY <1>6 DEF Put, PutFails, PutUnacknowledged
    <2> QED BY <2>1, SilentTruthful, MoveTruthful
  <1>7. ASSUME NEW r \in Requests, CleanupFails(r) PROVE \A p \in Requests : Truthful(req'[p])
    <2> DEFINE x == [req[r] EXCEPT !.pc = "failed"]
    <2>1. req' = [req EXCEPT ![r] = x]
      BY <1>7 DEF CleanupFails
    <2>2. Truthful(x)
      BY <1>7 DEF CleanupFails, AnswersInv, Truthful, WriteRequest
    <2> HIDE DEF x
    <2> QED BY <2>1, <2>2, MoveTruthful
  <1>8. ASSUME NEW r \in Requests, Close(r) PROVE \A p \in Requests : Truthful(req'[p])
    BY <1>8, SilentTruthful, MoveTruthful DEF Close
  <1>9. ASSUME UNCHANGED req PROVE \A p \in Requests : Truthful(req'[p])
    BY <1>9 DEF AnswersInv
  <1>10. ASSUME (\E k \in Keys : Delete(k)) \/ (\E v \in rows : DeleteVersion(v))
                \/ (\E l \in BucketQuotas : UpdateBucketQuota(l))
                \/ (\E u \in Users, n \in UserQuotas : UpdateUserQuota(u, n))
         PROVE  UNCHANGED req
    BY <1>10 DEF Delete, DeleteVersion, UpdateBucketQuota, UpdateUserQuota
  <1> QED BY <1>1, <1>2, <1>3, <1>5, <1>6, <1>7, <1>8, <1>9, <1>10 DEF WNext

\* What an upload or a copy of the admin API, or a completed multipart upload, answers, audits and emits
\* stands for a row that was inserted, although the error of Put may come after its commit.
THEOREM AnswersAreTrue == WSpec => []AdminAnswersTrue
  <1>1. WInit => AnswersInv
    BY UnsentType, SilentTruthful DEF WInit, AnswersInv
  <1>2. AnswersInv /\ TypeInv /\ TypeInv' /\ [WNext]_wvars => AnswersInv'
    <2> SUFFICES ASSUME AnswersInv, TypeInv, TypeInv', [WNext]_wvars PROVE AnswersInv'
      OBVIOUS
    <2>1. req' \in [Requests -> WriteRequest]
      BY DEF TypeInv
    <2>2. CASE WNext
      BY <2>1, <2>2, StepsTruthful DEF AnswersInv
    <2>3. CASE UNCHANGED wvars
      BY <2>3 DEF wvars, AnswersInv
    <2> QED BY <2>2, <2>3
  <1>3. AnswersInv => AdminAnswersTrue
    BY DEF AnswersInv, AdminAnswersTrue, Truthful, Told
  <1>4. WritesInv => TypeInv
    BY DEF WritesInv
  <1> QED BY <1>1, <1>2, <1>3, <1>4, WritesInvariance, PTL DEF WSpec
=============================================================================
