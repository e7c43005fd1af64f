----------------------------- MODULE Enrollment -----------------------------
(***************************************************************************)
(* Storage nodes and who knows them: one-time join tokens, the RPC         *)
(* credential a blob node gets when it joins (TopologyService.JoinNode and *)
(* maybeJoinCluster of the blob node), nodes registered by an operator,    *)
(* the endpoints and credentials that the API and the worker each keep in  *)
(* memory (DistributedStore), and the TLS identities that                  *)
(* RefreshConfiguredNodes and RePinNodeTLSIdentity pin in the node's row.  *)
(*                                                                         *)
(* A node is named by its endpoint; nodes are numbered in the order of the *)
(* endpoints.  A request to join or to register is numbered, and its       *)
(* number is also the credential it makes; credential 0 is the shared      *)
(* secret of the deployment.  A certificate is a number, 0 for plain HTTP. *)
(* A node that waits for the answer to its join does not listen yet.       *)
(***************************************************************************)
EXTENDS Integers, FiniteSets

CONSTANTS
    NumNodes,    \* blob nodes
    Configured,  \* nodes listed in STORAGE_DISTRIBUTED_ENDPOINTS
    Plain,       \* nodes without TLS
    Tokens,      \* join tokens ever issued
    Bound,       \* the endpoint a token is bound to, or 0
    RegisterAs,  \* operator states that nodes are registered with
    MaxReqs,     \* bound: requests to join or to register
    MaxCerts,    \* bound: certificates of a node
    MaxFaults    \* bound: restarts, failed statements, timeouts

ASSUME NumNodesIsPositive == NumNodes \in Nat \ {0}
ASSUME ConfiguredAssumption == Configured \subseteq 1..NumNodes /\ Plain \subseteq 1..NumNodes
ASSUME BoundAssumption == Bound \in [Tokens -> 0..NumNodes]
ASSUME RegisterAsAssumption == RegisterAs \subseteq {"active", "draining", "maintenance"}
ASSUME EnrollmentBounds == MaxReqs \in Nat /\ MaxCerts \in Nat \ {0} /\ MaxFaults \in Nat

Nodes == 1..NumNodes
Reqs == 1..MaxReqs
Procs == {"api", "worker"}
NoToken == "no token"

VARIABLES
    row,    \* storage_nodes
    tok,    \* storage_join_tokens: none, fresh, used or expired
    cert,   \* the certificate each node shows
    wait,   \* the join each node waits for, or 0
    file,   \* the credential in each node's token file
    store,  \* what each process keeps: endpoints and their credentials
    req,    \* requests at the API
    job,    \* RefreshConfiguredNodes of each process
    faults

vars == <<row, tok, cert, wait, file, store, req, job, faults>>

NoRow == [op |-> "absent", status |-> "none", pin |-> 0, rpc |-> 0]
NoReq == [kind |-> "none", node |-> 0, tok |-> NoToken, pc |-> "idle",
          creds |-> <<>>, eps |-> {}, prior |-> {}, admitted |-> FALSE, got |-> FALSE]
NoJob == [snap |-> <<>>, todo |-> {}]

\* What a refresh reads of the table: the pins.
Pins(table) == [n \in Nodes |-> table[n].pin]

Rows(table) == {n \in Nodes : table[n].op # "absent"}
Faulty == faults < MaxFaults /\ faults' = faults + 1

-----------------------------------------------------------------------------
(* Processes start.                                                        *)

\* SyncConfiguredNodes: what is known of a configured node is overwritten, but
\* for its credential and operator state.
Synced(table) ==
    [n \in Nodes |->
        IF n \notin Configured THEN table[n]
        ELSE [table[n] EXCEPT !.op = IF @ = "absent" THEN "active" ELSE @,
                              !.status = "configured", !.pin = 0]]

\* syncStoreTokens: credentials of the table replace the ones kept; a node
\* without one keeps what it had.
Learned(creds, table) ==
    [n \in Nodes |-> IF table[n].rpc # 0 THEN table[n].rpc ELSE creds[n]]

NoCreds == [n \in Nodes |-> 0]

Refresh(table) ==
    IF Rows(table) = {} THEN NoJob ELSE [snap |-> Pins(table), todo |-> Rows(table)]

Fresh(table) == [eps |-> Rows(table), creds |-> Learned(NoCreds, table)]

Init ==
    LET table == Synced([n \in Nodes |-> NoRow]) IN
    /\ row = table
    /\ tok = [t \in Tokens |-> "none"]
    /\ cert = [n \in Nodes |-> IF n \in Plain THEN 0 ELSE 1]
    /\ wait = [n \in Nodes |-> 0]
    /\ file = [n \in Nodes |-> 0]
    /\ store = [p \in Procs |-> Fresh(table)]
    /\ req = [r \in Reqs |-> NoReq]
    /\ job = [p \in Procs |-> Refresh(table)]
    /\ faults = 0

\* A process restarts: the table is synced, the store is filled from it, and
\* the first refresh begins, before which the API serves nobody.  It takes its
\* requests with it: the nodes that waited see the connection break.
Restart(p) ==
    LET table == Synced(row) IN
    /\ Faulty
    /\ row' = table
    /\ store' = [store EXCEPT ![p] = Fresh(table)]
    /\ job' = [job EXCEPT ![p] = Refresh(table)]
    /\ IF p = "api"
       THEN /\ req' = [r \in Reqs |-> IF req[r].pc = "idle" THEN req[r]
                                      ELSE [req[r] EXCEPT !.pc = "done", !.creds = <<>>, !.eps = {}]]
            /\ wait' = [n \in Nodes |-> 0]
       ELSE UNCHANGED <<req, wait>>
    /\ UNCHANGED <<tok, cert, file>>

-----------------------------------------------------------------------------
(* Join tokens and the start of a blob node.                               *)

IssueJoinToken(t) ==
    /\ tok[t] = "none"
    /\ tok' = [tok EXCEPT ![t] = "fresh"]
    /\ UNCHANGED <<row, cert, wait, file, store, req, job, faults>>

Expires(t) ==
    /\ tok[t] = "fresh"
    /\ tok' = [tok EXCEPT ![t] = "expired"]
    /\ UNCHANGED <<row, cert, wait, file, store, req, job, faults>>

\* The next request gets number r.  prior: the joins admitted before it began.
Send(r, kind, n, t, pc) ==
    /\ job["api"] = NoJob
    /\ req[r].pc = "idle" /\ \A q \in Reqs : q < r => req[q].pc # "idle"
    /\ req' = [req EXCEPT ![r] = [NoReq EXCEPT !.kind = kind, !.node = n, !.tok = t, !.pc = pc,
                                     !.prior = {q \in Reqs : req[q].admitted}]]

\* The blob node starts, loads its token file and asks to join; it may do so
\* while an earlier request of its own is still at the API.
NodeStart(n, t) ==
    /\ tok[t] # "none"
    /\ \E r \in Reqs :
          /\ Send(r, "join", n, t, "sent")
          /\ wait' = [wait EXCEPT ![n] = r]
    /\ UNCHANGED <<row, tok, cert, file, store, job, faults>>

\* The node gives up after ten seconds, or cannot write its token file, and
\* starts with the credential it has.
JoinTimeout(n) ==
    /\ wait[n] # 0 /\ Faulty
    /\ wait' = [wait EXCEPT ![n] = 0]
    /\ UNCHANGED <<row, tok, cert, file, store, req, job>>

Release(r) == [n \in Nodes |-> IF wait[n] = r THEN 0 ELSE wait[n]]

-----------------------------------------------------------------------------
(* JoinNode.                                                               *)

\* Mutant: used_at is not looked at.
AcceptableAgain(t, n) == tok[t] \in {"fresh", "used"} /\ Bound[t] \in {0, n}

Acceptable(t, n) == tok[t] = "fresh" /\ Bound[t] \in {0, n}

JoinRead(r) ==
    /\ req[r].pc = "sent"
    /\ Acceptable(req[r].tok, req[r].node)
    /\ req' = [req EXCEPT ![r].pc = "read"]
    /\ UNCHANGED <<row, tok, cert, wait, file, store, job, faults>>

JoinRefused(r) ==
    /\ req[r].pc = "sent"
    /\ ~Acceptable(req[r].tok, req[r].node)
    /\ req' = [req EXCEPT ![r].pc = "done"]
    /\ wait' = Release(r)
    /\ UNCHANGED <<row, tok, cert, file, store, job, faults>>

\* Mutant: the upsert of a known node leaves its credential as it is.
JoinedKeeping(n, r) ==
    IF row[n].op = "absent"
    THEN [NoRow EXCEPT !.op = "maintenance", !.status = "configured", !.rpc = r]
    ELSE [row[n] EXCEPT !.pin = 0]

\* A new node starts in maintenance; a known one keeps status and operator
\* state, loses its metadata and gets the new credential.
Joined(n, r) ==
    IF row[n].op = "absent"
    THEN [NoRow EXCEPT !.op = "maintenance", !.status = "configured", !.rpc = r]
    ELSE [row[n] EXCEPT !.pin = 0, !.rpc = r]

JoinCommit(r) ==
    LET n == req[r].node IN
    /\ req[r].pc = "read"
    /\ row' = [row EXCEPT ![n] = Joined(n, r)]
    /\ tok' = [tok EXCEPT ![req[r].tok] = "used"]
    /\ req' = [req EXCEPT ![r].pc = "committed", ![r].admitted = TRUE]
    /\ UNCHANGED <<cert, wait, file, store, job, faults>>

\* A statement fails, or the caller has gone and its context is cancelled.
JoinAborts(r) ==
    /\ req[r].pc \in {"sent", "read"}
    /\ IF wait[req[r].node] = r THEN Faulty ELSE UNCHANGED faults
    /\ req' = [req EXCEPT ![r].pc = "done"]
    /\ wait' = Release(r)
    /\ UNCHANGED <<row, tok, cert, file, store, job>>

-----------------------------------------------------------------------------
(* RegisterNode, and syncStoreConfiguration after both.                    *)

RegisterNode(n, s) ==
    /\ row[n].op = "absent"
    /\ \E r \in Reqs :
          /\ Send(r, "register", n, NoToken, "committed")
          /\ row' = [row EXCEPT ![n] = [NoRow EXCEPT !.op = s, !.status = "configured"]]
    /\ UNCHANGED <<tok, cert, wait, file, store, job, faults>>

SyncReadCreds(r) ==
    /\ req[r].pc = "committed"
    /\ req' = [req EXCEPT ![r].pc = "creds", ![r].creds = [n \in Nodes |-> row[n].rpc]]
    /\ UNCHANGED <<row, tok, cert, wait, file, store, job, faults>>

SetCreds(r) ==
    [store EXCEPT !["api"].creds = [n \in Nodes |->
        IF req[r].creds[n] # 0 THEN req[r].creds[n] ELSE @[n]]]

\* The credentials are set, then the endpoints are read.
SyncReadEndpoints(r) ==
    /\ req[r].pc = "creds"
    /\ store' = SetCreds(r)
    /\ req' = [req EXCEPT ![r].pc = "eps", ![r].creds = <<>>, ![r].eps = Rows(row)]
    /\ UNCHANGED <<row, tok, cert, wait, file, job, faults>>

\* The endpoints are replaced and the answer is sent: a node that still waits for
\* it writes the credential to its file and listens.
ReplaceEndpoints(r) ==
    LET n == req[r].node
        got == wait[n] = r
    IN
    /\ req[r].pc = "eps"
    /\ store' = [store EXCEPT !["api"].eps = req[r].eps]
    /\ file' = IF got THEN [file EXCEPT ![n] = r] ELSE file
    /\ wait' = Release(r)
    /\ req' = [req EXCEPT ![r].pc = "done", ![r].eps = {}, ![r].got = got]
    /\ UNCHANGED <<row, tok, cert, job, faults>>

\* A statement of the sync fails: the row is there, the caller gets an error and
\* never the credential.
SyncFails(r) ==
    /\ req[r].pc \in {"committed", "creds"} /\ Faulty
    /\ store' = IF req[r].pc = "creds" THEN SetCreds(r) ELSE store
    /\ req' = [req EXCEPT ![r].pc = "done", ![r].creds = <<>>]
    /\ wait' = Release(r)
    /\ UNCHANGED <<row, tok, cert, file, job>>

-----------------------------------------------------------------------------
(* RefreshConfiguredNodes and RePinNodeTLSIdentity.                        *)

CertChanges(n) ==
    /\ cert[n] \in 1..(MaxCerts - 1)
    /\ cert' = [cert EXCEPT ![n] = @ + 1]
    /\ UNCHANGED <<row, tok, wait, file, store, req, job, faults>>

\* Mutant: the refresh does not read the credentials again.
RefreshStartWithoutTokens(p) ==
    /\ job[p] = NoJob /\ p = "worker"
    /\ job' = [job EXCEPT ![p] = Refresh(row)]
    /\ UNCHANGED <<row, tok, cert, wait, file, store, req, faults>>

\* The worker's recurring job; both processes run it once when they start.
RefreshStart(p) ==
    /\ job[p] = NoJob /\ p = "worker"
    /\ store' = [store EXCEPT ![p].creds = Learned(@, row)]
    /\ job' = [job EXCEPT ![p] = Refresh(row)]
    /\ UNCHANGED <<row, tok, cert, wait, file, req, faults>>

\* Mutant: a certificate that is not the pinned one is only noted.
VerdictHealthy(old, seen) ==
    CASE seen = -1             -> [status |-> "offline", pin |-> old]
      [] seen > 0 /\ old = 0   -> [status |-> "healthy", pin |-> seen]
      [] OTHER                 -> [status |-> "healthy", pin |-> old]

\* What the refresh writes, from the metadata it read and the certificate seen.
Verdict(old, seen) ==
    CASE seen = -1             -> [status |-> "offline", pin |-> old]
      [] seen > 0 /\ old = 0   -> [status |-> "healthy", pin |-> seen]
      [] seen \in {0, old}     -> [status |-> "healthy", pin |-> old]
      [] OTHER                 -> [status |-> "tls-mismatch", pin |-> old]

\* fetchNodeHealth of the next node and the update of its row.
RefreshNode(p, n) ==
    LET v == Verdict(job[p].snap[n], IF wait[n] = 0 THEN cert[n] ELSE -1) IN
    /\ n \in job[p].todo /\ \A m \in job[p].todo : n <= m
    /\ row' = [row EXCEPT ![n].status = v.status, ![n].pin = v.pin]
    /\ job' = [job EXCEPT ![p] = IF @.todo = {n} THEN NoJob
                                 ELSE [snap |-> [@.snap EXCEPT ![n] = 0], todo |-> @.todo \ {n}]]
    /\ UNCHANGED <<tok, cert, wait, file, store, req, faults>>

RefreshFails(p) ==
    /\ job[p] # NoJob /\ p = "worker" /\ Faulty
    /\ job' = [job EXCEPT ![p] = NoJob]
    /\ UNCHANGED <<row, tok, cert, wait, file, store, req>>

\* The operator's request: the probe and the write.
RePinNodeTLSIdentity(n) ==
    /\ job["api"] = NoJob
    /\ row[n].op # "absent" /\ wait[n] = 0 /\ cert[n] # 0
    /\ row' = [row EXCEPT ![n].status = "healthy", ![n].pin = cert[n]]
    /\ UNCHANGED <<tok, cert, wait, file, store, req, job, faults>>

-----------------------------------------------------------------------------
JoinStep(r) ==
    \/ JoinRead(r) \/ JoinRefused(r) \/ JoinCommit(r)
    \/ SyncReadCreds(r) \/ SyncReadEndpoints(r) \/ ReplaceEndpoints(r)

RefreshStep(p) == \E n \in Nodes : RefreshNode(p, n)

Next ==
    \/ \E p \in Procs : Restart(p)
    \/ \E t \in Tokens : IssueJoinToken(t) \/ Expires(t)
    \/ \E n \in Nodes, t \in Tokens : NodeStart(n, t)
    \/ \E n \in Nodes : JoinTimeout(n)
    \/ \E r \in Reqs : JoinStep(r) \/ JoinAborts(r) \/ SyncFails(r)
    \/ \E n \in Nodes, s \in RegisterAs : RegisterNode(n, s)
    \/ \E n \in Nodes : CertChanges(n)
    \/ \E p \in Procs : RefreshStart(p) \/ RefreshStep(p) \/ RefreshFails(p)
    \/ \E n \in Nodes : RePinNodeTLSIdentity(n)

Spec == Init /\ [][Next]_vars

\* A request at the API goes on, the worker's job recurs and goes on, and so does
\* the refresh with which a process starts.
Fairness ==
    /\ \A r \in Reqs : WF_vars(JoinStep(r))
    /\ WF_vars(RefreshStart("worker"))
    /\ \A p \in Procs : WF_vars(RefreshStep(p))

FairSpec == Spec /\ Fairness

-----------------------------------------------------------------------------
\* Types of the tables, the files, the stores and the requests.
TypeOK ==
    /\ row \in [Nodes -> [op: {"absent", "active", "maintenance"} \cup RegisterAs,
                          status: {"none", "configured", "healthy", "offline", "tls-mismatch"},
                          pin: 0..MaxCerts,
                          rpc: 0..MaxReqs]]
    /\ tok \in [Tokens -> {"none", "fresh", "used", "expired"}]
    /\ cert \in [Nodes -> 0..MaxCerts]
    /\ wait \in [Nodes -> 0..MaxReqs] /\ file \in [Nodes -> 0..MaxReqs]
    /\ store \in [Procs -> [eps: SUBSET Nodes, creds: [Nodes -> 0..MaxReqs]]]
    /\ faults \in 0..MaxFaults

\* The node and the table agree on the node's credential, unless the join that
\* set it in the table is still under way or its answer got lost: a timeout, a
\* sync that failed after the commit, a restart, an earlier join of the node that
\* commits after a later one.  JoinNode commits the credential before the node
\* has it.
CredentialsAgree ==
    \A n \in Nodes : wait[n] = 0 /\ row[n].rpc # file[n] =>
        row[n].rpc # 0 /\ ~req[row[n].rpc].got

\* A join token serves once: a join that began after another join with the same
\* token had been admitted is refused.  Joins that overlap may both be admitted,
\* since JoinNode reads used_at without a lock and sets it unconditionally.
NoSequentialReuse ==
    \A r \in Reqs : \A q \in req[r].prior :
        req[q].tok = req[r].tok => ~req[r].admitted

\* The worker, which takes part in no join, comes to use the credentials in
\* the table again and again: its refresh job reads them.
WorkerLearnsCredential ==
    []<>(\A n \in Nodes : row[n].rpc \in {0, store["worker"].creds[n]})

\* Whatever restarts, joins, re-pins and refreshes overlap, the verdict on a
\* node's identity becomes right and stays so: healthy exactly if the node shows
\* the certificate that is pinned.  A refresh may undo a re-pin made while it
\* ran, since it writes back the metadata it had read; then the node is a
\* mismatch again, never healthy under the wrong pin.
VerdictConverges ==
    <>[](\A n \in Nodes \ Plain :
            row[n].op # "absent" => (row[n].status = "healthy" <=> row[n].pin = cert[n]))

=============================================================================
