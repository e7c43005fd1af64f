-------------------------- MODULE EnrollmentProofs --------------------------
(***************************************************************************)
(* Enrollment of storage nodes, for any number of nodes, tokens, requests, *)
(* certificates and faults: a node and the table disagree about the node's *)
(* credential only when an answer was lost, and a join token that admitted *)
(* a node admits none that asks later.                                     *)
(***************************************************************************)
EXTENDS Enrollment, TLAPS

-----------------------------------------------------------------------------
(* The inductive invariant.                                                *)

Answering == {"committed", "creds", "eps"}

Creds == [Nodes -> 0..MaxReqs]

Request ==
    [kind: {"none", "join", "register"}, node: 0..NumNodes, tok: Tokens \cup {NoToken},
     pc: {"idle", "sent", "read", "done"} \cup Answering,
     creds: Creds \cup {<<>>}, eps: SUBSET Nodes, prior: SUBSET Reqs,
     admitted: BOOLEAN, got: BOOLEAN]

\* Types of the requests and of the refreshes, and what has been read by then.
LocalTypes ==
    /\ req \in [Reqs -> Request]
    /\ \A r \in Reqs : /\ req[r].pc = "creds" => req[r].creds \in Creds
                       /\ req[r].pc # "idle" => req[r].node \in Nodes
                       /\ req[r].pc = "idle" => req[r] = NoReq
    /\ DOMAIN job = Procs
    /\ \A p \in Procs : \/ job[p] = NoJob
                        \/ job[p] \in [snap: [Nodes -> 0..MaxCerts], todo: SUBSET Nodes]

\* A join is admitted by its commit, which uses up the token and leaves a
\* credential in the node's row; the node gets an answer only after that.
AdmitInv ==
    \A r \in Reqs :
        /\ req[r].pc \in {"sent", "read"} => req[r].kind = "join"
        /\ req[r].kind = "join" => req[r].tok \in Tokens
        /\ req[r].kind = "join" /\ req[r].pc \in Answering => req[r].admitted
        /\ req[r].admitted => /\ req[r].kind = "join"
                              /\ req[r].pc \in Answering \cup {"done"}
                              /\ tok[req[r].tok] = "used"
                              /\ row[req[r].node].rpc # 0
        /\ req[r].got => req[r].admitted /\ req[r].pc = "done"

\* A join that began after its token had been used gets no further than the
\* look at the token.
PriorInv ==
    \A r \in Reqs : \A q \in req[r].prior :
        /\ req[q].admitted
        /\ req[r].tok = req[q].tok /\ req[r].kind = "join" =>
              req[r].pc \in {"sent", "done"} /\ ~req[r].admitted

\* The credential in a row was made by a join of that node.
RowInv ==
    \A n \in Nodes : row[n].rpc # 0 =>
        /\ row[n].op # "absent"
        /\ req[row[n].rpc].node = n /\ req[row[n].rpc].admitted

\* A node waits for a join of its own.  If that one has committed and another one
\* replaced its credential, the other one was not answered.
WaitInv ==
    \A n \in Nodes : wait[n] # 0 =>
        /\ req[wait[n]].kind = "join" /\ req[wait[n]].node = n
        /\ req[wait[n]].pc \in {"sent", "read"} \cup Answering
        /\ req[wait[n]].pc \in Answering /\ row[n].rpc # wait[n] => ~req[row[n].rpc].got

\* The file of a node has the credential of the row if the node got the answer of
\* the join that made it, and a credential in a file means that there is one in the row.
FileInv ==
    \A n \in Nodes : /\ file[n] # 0 => row[n].rpc # 0
                     /\ row[n].rpc # 0 /\ req[row[n].rpc].got => file[n] = row[n].rpc

JoinInv == AdmitInv /\ PriorInv /\ RowInv /\ WaitInv /\ FileInv

IInv == TypeOK /\ LocalTypes /\ JoinInv
-----------------------------------------------------------------------------
(* Types.                                                                  *)

Row ==
    [op: {"absent", "active", "maintenance"} \cup RegisterAs,
     status: {"none", "configured", "healthy", "offline", "tls-mismatch"},
     pin: 0..MaxCerts, rpc: 0..MaxReqs]

USE NumNodesIsPositive, EnrollmentBounds

\* A sync of the configured nodes keeps rows, credentials and types.
LEMMA SyncedTypes ==
    ASSUME NEW table \in [Nodes -> Row]
    PROVE  /\ Synced(table) \in [Nodes -> Row]
           /\ \A n \in Nodes : /\ Synced(table)[n].rpc = table[n].rpc
                               /\ table[n].op # "absent" => Synced(table)[n].op # "absent"
  <1> DEFINE T == Synced(table)
  <1>1. T = [n \in Nodes |-> T[n]]
    BY DEF Synced
  <1>2. ASSUME NEW n \in Nodes
        PROVE  T[n] \in Row /\ T[n].rpc = table[n].rpc /\ (table[n].op # "absent" => T[n].op # "absent")
    <2>1. table[n] \in Row
      OBVIOUS
    <2>2. CASE n \notin Configured
      BY <2>1, <2>2 DEF Synced
    <2>3. CASE n \in Configured
      <3> DEFINE o == IF table[n].op = "absent" THEN "active" ELSE table[n].op
      <3>1. T[n] = [table[n] EXCEPT !.op = o, !.status = "configured", !.pin = 0]
        BY <2>3 DEF Synced
      <3>2. o \in {"absent", "active", "maintenance"} \cup RegisterAs /\ o # "absent"
        BY <2>1 DEF Row
      <3> HIDE DEF T, o
      <3>3. T[n] = [op |-> o, status |-> "configured", pin |-> 0, rpc |-> table[n].rpc]
        BY <2>1, <3>1 DEF Row
      <3>4. [op |-> o, status |-> "configured", pin |-> 0, rpc |-> table[n].rpc] \in Row
        BY <2>1, <3>2 DEF Row
      <3> QED  BY <3>2, <3>3, <3>4
    <2> QED  BY <2>2, <2>3
  <1> HIDE DEF T
  <1>3. T \in [Nodes -> Row]
    BY <1>1, <1>2
  <1> QED  BY <1>2, <1>3 DEF T

\* What a process reads of the table has the types of what it keeps.
LEMMA TableTypes ==
    ASSUME NEW table \in [Nodes -> Row]
    PROVE  /\ Fresh(table) \in [eps: SUBSET Nodes, creds: Creds]
           /\ \A creds \in Creds : Learned(creds, table) \in Creds
           /\ \/ Refresh(table) = NoJob
              \/ Refresh(table) \in [snap: [Nodes -> 0..MaxCerts], todo: SUBSET Nodes]
  <1>1. Rows(table) \subseteq Nodes /\ Pins(table) \in [Nodes -> 0..MaxCerts]
    BY DEF Rows, Pins, Row
  <1>2. \A creds \in Creds : Learned(creds, table) \in Creds
    BY DEF Learned, Creds, Row
  <1>3. NoCreds \in Creds
    BY DEF NoCreds, Creds
  <1> QED  BY <1>1, <1>2, <1>3 DEF Fresh, Refresh

\* The set of rows in TypeOK.
LEMMA RowType == TypeOK => /\ row \in [Nodes -> Row]
                           /\ store \in [Procs -> [eps: SUBSET Nodes, creds: Creds]]
  BY DEF TypeOK, Row, Creds

\* A verdict is a status and a pin.
LEMMA VerdictTypes ==
    ASSUME NEW old \in 0..MaxCerts, NEW seen \in 0..MaxCerts \cup {-1}
    PROVE  /\ Verdict(old, seen).status \in {"healthy", "offline", "tls-mismatch"}
           /\ Verdict(old, seen).pin \in 0..MaxCerts
  <1>1. CASE seen = -1
    BY <1>1 DEF Verdict
  <1>2. CASE seen = 0
    BY <1>2 DEF Verdict
  <1>3. CASE seen > 0 /\ old = 0
    BY <1>3 DEF Verdict
  <1>4. CASE seen > 0 /\ old # 0
    BY <1>4 DEF Verdict
  <1> QED  BY <1>1, <1>2, <1>3, <1>4

\* The fault counter stays within its bound.
LEMMA FaultyType == TypeOK /\ Faulty => faults' \in 0..MaxFaults
  BY DEF TypeOK, Faulty

\* The empty request has the type of a request.
LEMMA NoReqType == NoReq \in Request
  BY DEF NoReq, Request, Answering

-----------------------------------------------------------------------------
(* Steps that are not part of a join.                                      *)

\* The invariant holds when the processes start.
LEMMA InitInv == Init => IInv
  <1> SUFFICES ASSUME Init PROVE IInv
    OBVIOUS
  <1> DEFINE table == Synced([n \in Nodes |-> NoRow])
  <1>1. [n \in Nodes |-> NoRow] \in [Nodes -> Row]
    BY DEF NoRow, Row
  <1>2. table \in [Nodes -> Row] /\ \A n \in Nodes : table[n].rpc = 0
    BY <1>1, SyncedTypes DEF NoRow
  <1>3. /\ row = table /\ store = [p \in Procs |-> Fresh(table)] /\ job = [p \in Procs |-> Refresh(table)]
        /\ req = [r \in Reqs |-> NoReq]
        /\ wait = [n \in Nodes |-> 0] /\ file = [n \in Nodes |-> 0]
        /\ tok = [t \in Tokens |-> "none"] /\ faults = 0
        /\ cert = [n \in Nodes |-> IF n \in Plain THEN 0 ELSE 1]
    BY DEF Init
  <1> HIDE DEF table
  <1>4. TypeOK
    <2>1. store \in [Procs -> [eps: SUBSET Nodes, creds: Creds]]
      BY <1>2, <1>3, TableTypes
    <2> QED  BY <1>2, <1>3, <2>1 DEF TypeOK, Row, Creds
  <1>5. LocalTypes
    BY <1>2, <1>3, TableTypes, NoReqType DEF LocalTypes, NoReq
  <1>6. JoinInv
    BY <1>2, <1>3 DEF JoinInv, AdmitInv, PriorInv, RowInv, WaitInv, FileInv, NoReq, Answering
  <1> QED  BY <1>4, <1>5, <1>6 DEF IInv

\* Joins are not touched by a step that keeps the requests, files, credentials and
\* used tokens, and lets nodes stop waiting at most.
LEMMA FrameJoinInv ==
    ASSUME IInv, UNCHANGED <<req, file>>,
           \A n \in Nodes : wait'[n] \in {0, wait[n]},
           \A n \in Nodes : row'[n].rpc = row[n].rpc /\ (row[n].op # "absent" => row'[n].op # "absent"),
           \A t \in Tokens : tok[t] = "used" => tok'[t] = "used"
    PROVE  JoinInv'
  <1>1. AdmitInv'
    <2> SUFFICES ASSUME NEW r \in Reqs PROVE AdmitInv!(r)'
      BY DEF AdmitInv
    <2>1. AdmitInv!(r)
      BY DEF IInv, JoinInv, AdmitInv
    <2>2. req[r].admitted => req[r].node \in Nodes /\ req[r].tok \in Tokens
      BY <2>1 DEF IInv, LocalTypes, Answering
    <2> QED  BY <2>1, <2>2
  <1>2. PriorInv'
    BY DEF IInv, JoinInv, PriorInv
  <1>3. RowInv'
    BY DEF IInv, JoinInv, RowInv
  <1>4. WaitInv'
    BY DEF IInv, JoinInv, WaitInv
  <1>5. FileInv'
    BY DEF IInv, JoinInv, FileInv
  <1> QED  BY <1>1, <1>2, <1>3, <1>4, <1>5 DEF JoinInv

\* Tokens are issued and expire, unused.
LEMMA TokenInvariant ==
    ASSUME IInv, NEW t \in Tokens, IssueJoinToken(t) \/ Expires(t)
    PROVE  IInv'
  <1>1. /\ UNCHANGED <<row, cert, wait, file, store, req, job, faults>>
        /\ tok' \in [Tokens -> {"none", "fresh", "used", "expired"}]
        /\ \A u \in Tokens : tok[u] = "used" => tok'[u] = "used"
    BY DEF IssueJoinToken, Expires, IInv, TypeOK
  <1>2. TypeOK' /\ LocalTypes'
    BY <1>1 DEF IInv, TypeOK, LocalTypes
  <1>3. JoinInv'
    BY <1>1, FrameJoinInv DEF IInv, TypeOK
  <1> QED  BY <1>2, <1>3 DEF IInv

\* A node that gives up waits no longer.
LEMMA TimeoutInvariant ==
    ASSUME IInv, NEW n \in Nodes, JoinTimeout(n)
    PROVE  IInv'
  <1>1. /\ UNCHANGED <<row, tok, cert, file, store, req, job>>
        /\ wait' \in [Nodes -> 0..MaxReqs]
        /\ \A m \in Nodes : wait'[m] \in {0, wait[m]}
    BY DEF JoinTimeout, IInv, TypeOK
  <1>2. TypeOK' /\ LocalTypes'
    BY <1>1, FaultyType DEF JoinTimeout, IInv, TypeOK, LocalTypes
  <1>3. JoinInv'
    BY <1>1, FrameJoinInv
  <1> QED  BY <1>2, <1>3 DEF IInv

\* A new certificate.
LEMMA CertInvariant ==
    ASSUME IInv, NEW n \in Nodes, CertChanges(n)
    PROVE  IInv'
  <1>1. /\ UNCHANGED <<row, tok, wait, file, store, req, job, faults>>
        /\ cert' \in [Nodes -> 0..MaxCerts]
    BY DEF CertChanges, IInv, TypeOK
  <1>2. TypeOK' /\ LocalTypes'
    BY <1>1 DEF IInv, TypeOK, LocalTypes
  <1>3. JoinInv'
    BY <1>1, FrameJoinInv
  <1> QED  BY <1>2, <1>3 DEF IInv

\* A refresh begins, or ends with an error.
LEMMA RefreshInvariant ==
    ASSUME IInv, NEW p \in Procs, RefreshStart(p) \/ RefreshFails(p)
    PROVE  IInv'
  <1>1. UNCHANGED <<row, tok, cert, wait, file, req>>
    BY DEF RefreshStart, RefreshFails
  <1>2. row \in [Nodes -> Row] /\ store \in [Procs -> [eps: SUBSET Nodes, creds: Creds]]
    BY RowType DEF IInv
  <1>3. store' \in [Procs -> [eps: SUBSET Nodes, creds: Creds]]
    <2>1. CASE RefreshStart(p)
      <3>1. Learned(store[p].creds, row) \in Creds
        BY <1>2, TableTypes
      <3> QED  BY <1>2, <2>1, <3>1 DEF RefreshStart
    <2> QED  BY <1>2, <2>1 DEF RefreshFails
  <1>4. faults' \in 0..MaxFaults
    BY FaultyType DEF IInv, TypeOK, RefreshStart, RefreshFails
  <1>5. TypeOK'
    BY <1>1, <1>3, <1>4 DEF IInv, TypeOK, Creds
  <1>6. LocalTypes'
    BY <1>1, <1>2, TableTypes DEF RefreshStart, RefreshFails, IInv, LocalTypes
  <1>7. JoinInv'
    BY <1>1, FrameJoinInv
  <1> QED  BY <1>5, <1>6, <1>7 DEF IInv

\* A refresh and a re-pin write the status and the pin of a row.
LEMMA PinInvariant ==
    ASSUME IInv, NEW n \in Nodes, NEW p \in Procs, RefreshNode(p, n) \/ RePinNodeTLSIdentity(n)
    PROVE  IInv'
  <1>1. row \in [Nodes -> Row]
    BY RowType DEF IInv
  <1>2. PICK st \in {"healthy", "offline", "tls-mismatch"}, pin \in 0..MaxCerts :
            row' = [row EXCEPT ![n].status = st, ![n].pin = pin]
    <2>1. CASE RefreshNode(p, n)
      <3> DEFINE seen == IF wait[n] = 0 THEN cert[n] ELSE -1
      <3>1. n \in job[p].todo
        BY <2>1 DEF RefreshNode
      <3>2. job[p].snap[n] \in 0..MaxCerts
        BY <3>1 DEF IInv, LocalTypes, NoJob
      <3>3. seen \in 0..MaxCerts \cup {-1}
        BY DEF IInv, TypeOK
      <3> HIDE DEF seen
      <3>4. /\ Verdict(job[p].snap[n], seen).status \in {"healthy", "offline", "tls-mismatch"}
            /\ Verdict(job[p].snap[n], seen).pin \in 0..MaxCerts
        BY <3>2, <3>3, VerdictTypes
      <3>5. row' = [row EXCEPT ![n].status = Verdict(job[p].snap[n], seen).status,
                               ![n].pin = Verdict(job[p].snap[n], seen).pin]
        BY <2>1 DEF RefreshNode, seen
      <3> QED  BY <3>4, <3>5
    <2>2. CASE RePinNodeTLSIdentity(n)
      BY <2>2 DEF RePinNodeTLSIdentity, IInv, TypeOK
    <2> QED  BY <2>1, <2>2
  <1>3. /\ row' \in [Nodes -> Row]
        /\ \A m \in Nodes : row'[m].rpc = row[m].rpc /\ row'[m].op = row[m].op
    BY <1>1, <1>2 DEF Row
  <1>4. UNCHANGED <<tok, cert, wait, file, store, req, faults>>
    BY DEF RefreshNode, RePinNodeTLSIdentity
  <1>5. TypeOK'
    BY <1>3, <1>4 DEF IInv, TypeOK, Row
  <1>6. LocalTypes'
    <2>1. CASE RefreshNode(p, n)
      <3>1. n \in job[p].todo /\ job[p] # NoJob
        BY <2>1 DEF RefreshNode, NoJob
      <3>2. job[p] \in [snap: [Nodes -> 0..MaxCerts], todo: SUBSET Nodes]
        BY <3>1 DEF IInv, LocalTypes
      <3>3. [snap |-> [job[p].snap EXCEPT ![n] = 0], todo |-> job[p].todo \ {n}]
               \in [snap: [Nodes -> 0..MaxCerts], todo: SUBSET Nodes]
        BY <3>2
      <3>4. \/ job'[p] = NoJob
            \/ job'[p] = [snap |-> [job[p].snap EXCEPT ![n] = 0], todo |-> job[p].todo \ {n}]
        BY <2>1 DEF RefreshNode, IInv, LocalTypes
      <3>5. DOMAIN job' = Procs /\ \A q \in Procs : q # p => job'[q] = job[q]
        BY <2>1 DEF RefreshNode, IInv, LocalTypes
      <3> QED  BY <1>4, <3>3, <3>4, <3>5 DEF IInv, LocalTypes
    <2>2. CASE RePinNodeTLSIdentity(n)
      BY <2>2 DEF RePinNodeTLSIdentity, IInv, LocalTypes
    <2> QED  BY <2>1, <2>2
  <1>7. JoinInv'
    BY <1>3, <1>4, FrameJoinInv
  <1> QED  BY <1>5, <1>6, <1>7 DEF IInv
-----------------------------------------------------------------------------
(* Joins.                                                                  *)

\* A request goes on, or ends and lets go of the node that waits for it.
LEMMA ProgressJoinInv ==
    ASSUME IInv, NEW r \in Reqs, UNCHANGED <<row, tok, file>>,
           \A k \in Reqs : k # r => req'[k] = req[k],
           /\ req'[r].kind = req[r].kind /\ req'[r].node = req[r].node /\ req'[r].tok = req[r].tok
           /\ req'[r].prior = req[r].prior /\ req'[r].admitted = req[r].admitted /\ req'[r].got = req[r].got,
           \/ req'[r].pc = "done" /\ req[r].pc # "done" /\ wait' = Release(r)
           \/ req'[r].pc \in Answering /\ req[r].pc \in Answering /\ wait' = wait
           \/ req'[r].pc = "read" /\ req[r].pc = "sent" /\ tok[req[r].tok] = "fresh" /\ wait' = wait
    PROVE  JoinInv'
  <1>1. AdmitInv'
    BY DEF IInv, JoinInv, AdmitInv, Answering
  <1>2. PriorInv'
    <2> SUFFICES ASSUME NEW k \in Reqs, NEW q \in req[k].prior
                 PROVE  PriorInv!(k)!(q)'
      BY DEF PriorInv
    <2>1. q \in Reqs
      BY DEF IInv, LocalTypes, Request
    <2>2. PriorInv!(k)!(q)
      BY DEF IInv, JoinInv, PriorInv
    <2>3. req'[q].admitted = req[q].admitted /\ req'[q].tok = req[q].tok
      BY <2>1
    <2>4. CASE k # r
      BY <2>2, <2>3, <2>4
    <2>5. CASE k = r /\ req'[r].pc = "read"
      <3>1. req[r].tok # req[q].tok
        BY <2>1, <2>2, <2>5 DEF IInv, JoinInv, AdmitInv, Answering
      <3> QED  BY <2>2, <2>3, <2>5, <3>1
    <2>6. CASE k = r /\ req'[r].pc # "read"
      BY <2>2, <2>3, <2>6 DEF Answering
    <2> QED  BY <2>4, <2>5, <2>6
  <1>3. RowInv'
    BY DEF IInv, TypeOK, JoinInv, RowInv, Reqs
  <1>4. WaitInv'
    <2> SUFFICES ASSUME NEW n \in Nodes, wait'[n] # 0
                 PROVE  WaitInv!(n)'
      BY DEF WaitInv
    <2>1. wait'[n] = wait[n] /\ (wait[n] = r => wait' = wait)
      BY DEF Release
    <2>2. wait[n] \in Reqs /\ row[n].rpc \in 0..MaxReqs
      BY <2>1 DEF IInv, TypeOK, Reqs
    <2>3. WaitInv!(n)
      BY DEF IInv, JoinInv, WaitInv
    <2>4. /\ req'[wait[n]].kind = "join" /\ req'[wait[n]].node = n
          /\ req'[wait[n]].pc \in {"sent", "read"} \cup Answering
          /\ req'[wait[n]].pc \in Answering => req[wait[n]].pc \in Answering
      BY <2>1, <2>2, <2>3 DEF Answering, Release
    <2>5. req[wait[n]].pc \in Answering => row[n].rpc \in Reqs
      BY <2>1, <2>2, <2>3 DEF IInv, JoinInv, AdmitInv, Reqs
    <2> QED  BY <2>1, <2>2, <2>3, <2>4, <2>5
  <1>5. FileInv'
    BY DEF IInv, TypeOK, JoinInv, FileInv, Reqs
  <1> QED  BY <1>1, <1>2, <1>3, <1>4, <1>5 DEF JoinInv

\* The types of a request that goes on, and of what is left alone meanwhile.
LEMMA RequestTypes ==
    ASSUME IInv, NEW r \in Reqs, NEW q \in Request, req' = [req EXCEPT ![r] = q],
           q.pc # "idle", q.node \in Nodes, q.pc = "creds" => q.creds \in Creds,
           UNCHANGED job
    PROVE  LocalTypes' /\ req'[r] = q /\ \A k \in Reqs : k # r => req'[k] = req[k]
  BY DEF IInv, LocalTypes

\* Waiting nodes that are let go of.
LEMMA ReleaseType == TypeOK => \A r \in Reqs : Release(r) \in [Nodes -> 0..MaxReqs]
  BY DEF TypeOK, Release

\* JoinNode looks at the token, or ends there.
LEMMA JoinReadInvariant ==
    ASSUME IInv, NEW r \in Reqs, JoinRead(r) \/ JoinRefused(r) \/ JoinAborts(r)
    PROVE  IInv'
  <1>1. PICK p \in {"read", "done"} : req' = [req EXCEPT ![r].pc = p]
    BY DEF JoinRead, JoinRefused, JoinAborts
  <1> DEFINE q == [req[r] EXCEPT !.pc = p]
  <1>2. req[r] \in Request /\ req[r].node \in Nodes /\ req[r].pc \in {"sent", "read"}
    BY DEF JoinRead, JoinRefused, JoinAborts, IInv, LocalTypes
  <1>3. q \in Request /\ q.pc = p
    BY <1>2 DEF Request
  <1>4. /\ q.kind = req[r].kind /\ q.node = req[r].node /\ q.tok = req[r].tok
        /\ q.prior = req[r].prior /\ q.admitted = req[r].admitted /\ q.got = req[r].got
    BY <1>2 DEF Request
  <1>5. req' = [req EXCEPT ![r] = q]
    BY <1>1
  <1> HIDE DEF q
  <1>6. UNCHANGED <<row, tok, cert, file, store, job>>
    BY DEF JoinRead, JoinRefused, JoinAborts
  <1>7. LocalTypes' /\ req'[r] = q /\ \A k \in Reqs : k # r => req'[k] = req[k]
    BY <1>2, <1>3, <1>4, <1>5, <1>6, RequestTypes, ZenonT(60)
  <1>8. \/ p = "done" /\ req[r].pc # "done" /\ wait' = Release(r)
        \/ p = "read" /\ req[r].pc = "sent" /\ tok[req[r].tok] = "fresh" /\ wait' = wait
    <2>1. CASE JoinRead(r)
      <3>1. req'[r].pc = "read"
        BY <2>1, <1>2 DEF JoinRead, IInv, LocalTypes, Request
      <3> QED  BY <2>1, <3>1, <1>3, <1>7 DEF JoinRead, Acceptable
    <2>2. CASE JoinRefused(r) \/ JoinAborts(r)
      <3>1. req'[r].pc = "done"
        BY <2>2, <1>2 DEF JoinRefused, JoinAborts, IInv, LocalTypes, Request
      <3> QED  BY <2>2, <3>1, <1>2, <1>3, <1>7 DEF JoinRefused, JoinAborts
    <2> QED  BY <2>1, <2>2
  <1>9. TypeOK'
    <2>1. faults' \in 0..MaxFaults
      BY FaultyType DEF JoinRead, JoinRefused, JoinAborts, IInv, TypeOK
    <2>2. wait' \in [Nodes -> 0..MaxReqs]
      BY <1>8, ReleaseType DEF IInv, TypeOK
    <2> QED  BY <1>6, <2>1, <2>2 DEF IInv, TypeOK
  <1>10. JoinInv'
    BY <1>3, <1>4, <1>6, <1>7, <1>8, ProgressJoinInv
  <1> QED  BY <1>7, <1>9, <1>10 DEF IInv

\* A commit sets the node's credential and uses up the token, and nobody has been
\* answered with that credential yet.
LEMMA JoinCommitInvariant ==
    ASSUME IInv, NEW r \in Reqs, JoinCommit(r)
    PROVE  IInv'
  <1> DEFINE n == req[r].node
             t == req[r].tok
             q == [req[r] EXCEPT !.pc = "committed", !.admitted = TRUE]
  <1>1. /\ req[r] \in Request /\ n \in Nodes /\ req[r].pc = "read"
        /\ req[r].kind = "join" /\ t \in Tokens /\ ~req[r].got
    BY DEF JoinCommit, IInv, LocalTypes, JoinInv, AdmitInv
  <1>2. q \in Request /\ q.pc = "committed" /\ q.admitted
    BY <1>1 DEF Request, Answering
  <1>3. /\ q.kind = "join" /\ q.node = n /\ q.tok = t
        /\ q.prior = req[r].prior /\ ~q.got
    BY <1>1 DEF Request
  <1>4. req' = [req EXCEPT ![r] = q]
    BY DEF JoinCommit
  <1>5. UNCHANGED <<cert, wait, file, store, job, faults>>
    BY DEF JoinCommit
  <1>6. row \in [Nodes -> Row]
    BY RowType DEF IInv
  <1>7. Joined(n, r) \in Row /\ Joined(n, r).rpc = r /\ Joined(n, r).op # "absent"
    <2>1. row[n] \in Row /\ r \in 0..MaxReqs
      BY <1>1, <1>6 DEF Reqs
    <2>2. CASE row[n].op = "absent"
      <3>1. Joined(n, r) = [op |-> "maintenance", status |-> "configured", pin |-> 0, rpc |-> r]
        BY <2>2 DEF Joined, NoRow
      <3>2. [op |-> "maintenance", status |-> "configured", pin |-> 0, rpc |-> r] \in Row
        BY <2>1 DEF Row
      <3> QED  BY <3>1, <3>2
    <2>3. CASE row[n].op # "absent"
      <3>1. Joined(n, r) = [op |-> row[n].op, status |-> row[n].status, pin |-> 0, rpc |-> r]
        BY <2>1, <2>3 DEF Joined, Row
      <3>2. [op |-> row[n].op, status |-> row[n].status, pin |-> 0, rpc |-> r] \in Row
        BY <2>1 DEF Row
      <3> QED  BY <2>3, <3>1, <3>2
    <2> QED  BY <2>2, <2>3
  <1>8. row' = [row EXCEPT ![n] = Joined(n, r)] /\ tok' = [tok EXCEPT ![t] = "used"]
    BY DEF JoinCommit
  <1> HIDE DEF n, t, q
  <1>9. /\ row' \in [Nodes -> Row] /\ row'[n].rpc = r /\ row'[n].op # "absent"
        /\ \A m \in Nodes : m # n => row'[m] = row[m]
    BY <1>1, <1>6, <1>7, <1>8
  <1>10. tok' \in [Tokens -> {"none", "fresh", "used", "expired"}] /\ tok'[t] = "used"
         /\ \A u \in Tokens : tok[u] = "used" => tok'[u] = "used"
    BY <1>1, <1>8 DEF IInv, TypeOK
  <1>11. TypeOK'
    BY <1>5, <1>9, <1>10 DEF IInv, TypeOK, Row
  <1>12. LocalTypes' /\ req'[r] = q /\ \A k \in Reqs : k # r => req'[k] = req[k]
    BY <1>1, <1>2, <1>3, <1>4, <1>5, RequestTypes
  <1>13. AdmitInv'
    <2> SUFFICES ASSUME NEW k \in Reqs PROVE AdmitInv!(k)'
      BY DEF AdmitInv
    <2>1. CASE k = r
      <3>1. /\ req'[k].pc = "committed" /\ req'[k].kind = "join" /\ req'[k].tok = t
            /\ req'[k].admitted /\ ~req'[k].got /\ req'[k].node = n /\ row'[n].rpc # 0
        BY <2>1, <1>2, <1>3, <1>9, <1>12 DEF Reqs
      <3> QED  BY <1>1, <1>10, <3>1 DEF Answering
    <2>2. CASE k # r
      <3>1. AdmitInv!(k)
        BY DEF IInv, JoinInv, AdmitInv
      <3>2. req[k].admitted => req[k].node \in Nodes /\ req[k].tok \in Tokens
        BY <3>1 DEF IInv, LocalTypes, Answering
      <3>3. r # 0
        BY DEF Reqs
      <3> QED  BY <2>2, <1>9, <1>10, <1>12, <3>1, <3>2, <3>3
    <2> QED  BY <2>1, <2>2
  <1>14. PriorInv'
    <2> SUFFICES ASSUME NEW k \in Reqs, NEW x \in req'[k].prior
                 PROVE  PriorInv!(k)!(x)'
      BY DEF PriorInv
    <2>1. x \in req[k].prior /\ x \in Reqs
      BY <1>3, <1>12 DEF IInv, LocalTypes, Request
    <2>2. PriorInv!(k)!(x)
      BY <2>1 DEF IInv, JoinInv, PriorInv
    <2>3. k = r => req[k].tok # req[x].tok
      BY <1>1, <2>2
    <2>4. req'[x].admitted /\ req'[x].tok = req[x].tok
      BY <1>2, <1>3, <1>12, <2>1, <2>2 DEF t
    <2>5. k = r => req'[k].tok = req[k].tok
      BY <1>3, <1>12 DEF t
    <2> QED  BY <1>12, <2>2, <2>3, <2>4, <2>5
  <1>15. RowInv'
    <2> SUFFICES ASSUME NEW m \in Nodes, row'[m].rpc # 0 PROVE RowInv!(m)'
      BY DEF RowInv
    <2>1. CASE m = n
      BY <2>1, <1>2, <1>3, <1>9, <1>12
    <2>2. CASE m # n
      <3>1. RowInv!(m) /\ row[m].rpc \in Reqs
        BY <1>9, <2>2 DEF IInv, TypeOK, JoinInv, RowInv, Reqs
      <3>2. row[m].rpc # r
        BY <1>9, <2>2, <3>1 DEF n
      <3> QED  BY <1>9, <1>12, <2>2, <3>1, <3>2
    <2> QED  BY <2>1, <2>2
  <1>16. WaitInv'
    <2> SUFFICES ASSUME NEW m \in Nodes, wait[m] # 0 PROVE WaitInv!(m)'
      BY <1>5 DEF WaitInv
    <2>1. wait[m] \in Reqs /\ WaitInv!(m)
      BY DEF IInv, TypeOK, JoinInv, WaitInv, Reqs
    <2>2. /\ req'[wait[m]].kind = "join" /\ req'[wait[m]].node = m
          /\ req'[wait[m]].pc \in {"sent", "read"} \cup Answering
      BY <1>2, <1>3, <1>12, <2>1 DEF Answering, n
    <2>3. CASE m = n
      BY <1>3, <1>5, <1>9, <1>12, <2>2, <2>3
    <2>4. CASE m # n
      <3>1. wait[m] # r
        BY <2>1, <2>4 DEF n
      <3>2. req[wait[m]].pc \in Answering => row[m].rpc \in Reqs
        BY <2>1 DEF IInv, TypeOK, JoinInv, AdmitInv, Reqs
      <3>3. row[m].rpc # r \/ ~req'[r].got
        BY <1>3, <1>12
      <3> QED  BY <1>5, <1>9, <1>12, <2>1, <2>2, <2>4, <3>1, <3>2, <3>3
    <2> QED  BY <2>3, <2>4
  <1>17. FileInv'
    <2> SUFFICES ASSUME NEW m \in Nodes PROVE FileInv!(m)'
      BY DEF FileInv
    <2>1. CASE m = n
      BY <1>3, <1>9, <1>12, <2>1 DEF Reqs
    <2>2. CASE m # n
      <3>1. FileInv!(m)
        BY DEF IInv, JoinInv, FileInv
      <3>2. row[m].rpc # 0 => row[m].rpc \in Reqs
        BY DEF IInv, TypeOK, Reqs
      <3> QED  BY <1>3, <1>5, <1>9, <1>12, <2>2, <3>1, <3>2
    <2> QED  BY <2>1, <2>2
  <1> QED  BY <1>11, <1>12, <1>13, <1>14, <1>15, <1>16, <1>17 DEF IInv, JoinInv

\* A new request changes nothing about the others, and nothing refers to it yet.
LEMMA SendInvariant ==
    ASSUME IInv, NEW r \in Reqs, NEW n \in Nodes, NEW kind, NEW t \in Tokens \cup {NoToken}, NEW p,
           Send(r, kind, n, t, p),
           \/ kind = "join" /\ t \in Tokens /\ p = "sent" /\ wait' = [wait EXCEPT ![n] = r]
           \/ kind = "register" /\ p = "committed" /\ wait' = wait,
           row' \in [Nodes -> Row],
           \A m \in Nodes : row'[m].rpc = row[m].rpc /\ (row[m].op # "absent" => row'[m].op # "absent"),
           UNCHANGED <<tok, cert, file, store, job, faults>>
    PROVE  IInv'
  <1> DEFINE prior == {q \in Reqs : req[q].admitted}
             new == [NoReq EXCEPT !.kind = kind, !.node = n, !.tok = t, !.pc = p, !.prior = prior]
  <1>1. req[r] = NoReq /\ req[r].pc = "idle"
    BY DEF Send, IInv, LocalTypes
  <1>2. prior \in SUBSET Reqs /\ n \in 0..NumNodes /\ \A x \in prior : req[x].admitted
    BY DEF Nodes
  <1>3. req' = [req EXCEPT ![r] = new]
    BY DEF Send
  <1> HIDE DEF prior
  <1>4. new \in Request
    BY <1>2, NoReqType DEF Request, Answering
  <1>5. /\ new.kind = kind /\ new.node = n /\ new.tok = t /\ new.pc = p /\ new.prior = prior
         /\ ~new.admitted /\ ~new.got /\ prior \subseteq {x \in Reqs : req[x].admitted}
    BY <1>2 DEF NoReq
  <1> HIDE DEF new
  <1>6. LocalTypes' /\ req'[r] = new /\ \A k \in Reqs : k # r => req'[k] = req[k]
    <2>1. new.pc \notin {"idle", "creds"}
      BY <1>5
    <2> QED  BY <1>3, <1>4, <1>5, <2>1, RequestTypes
  <1>7. TypeOK'
    <2>1. wait' \in [Nodes -> 0..MaxReqs]
      BY DEF IInv, TypeOK, Reqs
    <2> QED  BY <2>1 DEF IInv, TypeOK, Row
  <1>8. ~req[r].admitted /\ ~req[r].got /\ req[r].kind = "none" /\ req[r].prior = {}
    BY <1>1 DEF NoReq
  <1>9. AdmitInv'
    <2> SUFFICES ASSUME NEW k \in Reqs PROVE AdmitInv!(k)'
      BY DEF AdmitInv
    <2>1. CASE k = r
      BY <1>5, <1>6, <2>1 DEF Answering
    <2>2. CASE k # r
      <3>1. AdmitInv!(k)
        BY DEF IInv, JoinInv, AdmitInv
      <3>2. req[k].admitted => req[k].node \in Nodes
        BY <3>1 DEF IInv, LocalTypes, Answering
      <3> QED  BY <1>6, <2>2, <3>1, <3>2
    <2> QED  BY <2>1, <2>2
  <1>10. PriorInv'
    <2> SUFFICES ASSUME NEW k \in Reqs, NEW x \in req'[k].prior
                 PROVE  PriorInv!(k)!(x)'
      BY DEF PriorInv
    <2>1. CASE k = r
      <3>1. x \in Reqs /\ req[x].admitted /\ x # r
        BY <1>5, <1>6, <1>8, <2>1
      <3> QED  BY <1>5, <1>6, <2>1, <3>1
    <2>2. CASE k # r
      <3>1. x \in req[k].prior /\ x \in Reqs
        BY <1>6, <2>2 DEF IInv, LocalTypes, Request
      <3>2. PriorInv!(k)!(x) /\ x # r
        BY <1>8, <3>1 DEF IInv, JoinInv, PriorInv
      <3> QED  BY <1>6, <2>2, <3>1, <3>2
    <2> QED  BY <2>1, <2>2
  <1>11. \A m \in Nodes : row[m].rpc # 0 => row[m].rpc \in Reqs /\ row[m].rpc # r
    BY <1>8 DEF IInv, TypeOK, JoinInv, RowInv, Reqs
  <1>12. RowInv'
    BY <1>6, <1>11 DEF IInv, JoinInv, RowInv
  <1>13. WaitInv'
    <2> SUFFICES ASSUME NEW m \in Nodes, wait'[m] # 0 PROVE WaitInv!(m)'
      BY DEF WaitInv
    <2>1. CASE wait'[m] = r
      <3>1. wait[m] # r
        BY <1>1 DEF IInv, JoinInv, WaitInv, Answering, Reqs
      <3>2. m = n /\ kind = "join" /\ p = "sent"
        BY <2>1, <3>1 DEF IInv, TypeOK
      <3> QED  BY <1>5, <1>6, <2>1, <3>2 DEF Answering
    <2>2. CASE wait'[m] # r
      <3>1. wait'[m] = wait[m] /\ wait[m] \in Reqs
        BY <2>2 DEF IInv, TypeOK, Reqs
      <3>2. WaitInv!(m)
        BY DEF IInv, JoinInv, WaitInv
      <3>3. req[wait[m]].pc \in Answering => row[m].rpc # 0
        BY <3>1, <3>2 DEF IInv, JoinInv, AdmitInv
      <3> QED  BY <1>6, <1>11, <2>2, <3>1, <3>2, <3>3
    <2> QED  BY <2>1, <2>2
  <1>14. FileInv'
    BY <1>6, <1>11 DEF IInv, JoinInv, FileInv
  <1> QED  BY <1>6, <1>7, <1>9, <1>10, <1>12, <1>13, <1>14 DEF IInv, JoinInv

\* A blob node asks to join.
LEMMA NodeStartInvariant ==
    ASSUME IInv, NEW n \in Nodes, NEW t \in Tokens, NodeStart(n, t)
    PROVE  IInv'
  <1>1. PICK r \in Reqs : Send(r, "join", n, t, "sent") /\ wait' = [wait EXCEPT ![n] = r]
    BY DEF NodeStart
  <1>2. UNCHANGED <<row, tok, cert, file, store, job, faults>>
    BY DEF NodeStart
  <1>3. row' \in [Nodes -> Row]
    BY <1>2, RowType DEF IInv
  <1> QED  BY <1>1, <1>2, <1>3, SendInvariant

\* An operator registers a node, whose row has no credential.
LEMMA RegisterInvariant ==
    ASSUME IInv, NEW n \in Nodes, NEW s \in RegisterAs, RegisterNode(n, s)
    PROVE  IInv'
  <1>1. PICK r \in Reqs :
            /\ Send(r, "register", n, NoToken, "committed")
            /\ row' = [row EXCEPT ![n] = [NoRow EXCEPT !.op = s, !.status = "configured"]]
    BY DEF RegisterNode
  <1> DEFINE new == [NoRow EXCEPT !.op = s, !.status = "configured"]
  <1>2. row' = [row EXCEPT ![n] = new]
    BY <1>1
  <1>3. new \in Row /\ row \in [Nodes -> Row]
    <2>1. NoRow \in Row
      BY DEF NoRow, Row
    <2> QED  BY <2>1, RowType DEF Row, IInv
  <1>4. row[n].op = "absent" /\ row[n].rpc = 0
    BY DEF RegisterNode, IInv, JoinInv, RowInv
  <1>5. new.rpc = 0
    BY DEF NoRow
  <1> HIDE DEF new
  <1>6. /\ row' \in [Nodes -> Row]
        /\ \A m \in Nodes : row'[m].rpc = row[m].rpc /\ (row[m].op # "absent" => row'[m].op # "absent")
    BY <1>2, <1>3, <1>4, <1>5
  <1>7. UNCHANGED <<tok, cert, wait, file, store, job, faults>>
    BY DEF RegisterNode
  <1> QED  BY <1>1, <1>6, <1>7, SendInvariant

\* The sync after a join or a registration reads the table and sets what the API
\* keeps; when it fails the request ends without an answer.
LEMMA SyncInvariant ==
    ASSUME IInv, NEW r \in Reqs, SyncReadCreds(r) \/ SyncReadEndpoints(r) \/ SyncFails(r)
    PROVE  IInv'
  <1>1. req[r] \in Request /\ req[r].node \in Nodes /\ req[r].pc \in Answering
    BY DEF SyncReadCreds, SyncReadEndpoints, SyncFails, IInv, LocalTypes, Answering
  <1>2. row \in [Nodes -> Row] /\ store \in [Procs -> [eps: SUBSET Nodes, creds: Creds]]
    BY RowType DEF IInv
  <1>3. PICK p \in Answering \cup {"done"}, c \in Creds \cup {<<>>}, e \in SUBSET Nodes :
            /\ req' = [req EXCEPT ![r] = [req[r] EXCEPT !.pc = p, !.creds = c, !.eps = e]]
            /\ p = "creds" => c \in Creds
            /\ \/ p = "done" /\ wait' = Release(r)
               \/ p \in Answering /\ wait' = wait
    <2>1. CASE SyncReadCreds(r)
      <3>1. [n \in Nodes |-> row[n].rpc] \in Creds
        BY <1>2 DEF Creds, Row
      <3>2. req' = [req EXCEPT ![r] = [req[r] EXCEPT !.pc = "creds", !.creds = [n \in Nodes |-> row[n].rpc],
                                                     !.eps = req[r].eps]]
        BY <1>1, <2>1 DEF SyncReadCreds, Request
      <3>3. wait' = wait /\ req[r].eps \in SUBSET Nodes
        BY <1>1, <2>1 DEF SyncReadCreds, Request
      <3> QED  BY <3>1, <3>2, <3>3 DEF Answering
    <2>2. CASE SyncReadEndpoints(r)
      <3>1. req' = [req EXCEPT ![r] = [req[r] EXCEPT !.pc = "eps", !.creds = <<>>, !.eps = Rows(row)]]
        BY <2>2 DEF SyncReadEndpoints
      <3>2. Rows(row) \in SUBSET Nodes /\ wait' = wait
        BY <2>2 DEF SyncReadEndpoints, Rows
      <3> QED  BY <3>1, <3>2 DEF Answering
    <2>3. CASE SyncFails(r)
      <3>1. req' = [req EXCEPT ![r] = [req[r] EXCEPT !.pc = "done", !.creds = <<>>, !.eps = req[r].eps]]
        BY <1>1, <2>3 DEF SyncFails, Request
      <3>2. req[r].eps \in SUBSET Nodes /\ wait' = Release(r)
        BY <1>1, <2>3 DEF SyncFails, Request
      <3> QED  BY <3>1, <3>2
    <2> QED  BY <2>1, <2>2, <2>3
  <1> DEFINE q == [req[r] EXCEPT !.pc = p, !.creds = c, !.eps = e]
  <1>4. req' = [req EXCEPT ![r] = q]
    BY <1>3
  <1>5. p \in {"idle", "sent", "read", "done"} \cup Answering /\ req[r] \in Request
    BY <1>1
  <1>6. q \in Request
    BY <1>5 DEF Request
  <1>7. /\ q.kind = req[r].kind /\ q.node = req[r].node /\ q.tok = req[r].tok /\ q.pc = p /\ q.creds = c
        /\ q.prior = req[r].prior /\ q.admitted = req[r].admitted /\ q.got = req[r].got
    BY <1>5 DEF Request
  <1> HIDE DEF q
  <1>8. UNCHANGED <<row, tok, cert, file, job>>
    BY DEF SyncReadCreds, SyncReadEndpoints, SyncFails
  <1>9. LocalTypes' /\ req'[r] = q /\ \A k \in Reqs : k # r => req'[k] = req[k]
    <2>1. q.pc # "idle"
      BY <1>7 DEF Answering
    <2> QED  BY <1>1, <1>3, <1>4, <1>6, <1>7, <1>8, <2>1, RequestTypes, ZenonT(60)
  <1>10. store' \in [Procs -> [eps: SUBSET Nodes, creds: Creds]]
    <2>1. CASE req[r].pc = "creds"
      <3> DEFINE c2 == [n \in Nodes |-> IF req[r].creds[n] # 0 THEN req[r].creds[n] ELSE store["api"].creds[n]]
      <3>1. req[r].creds \in Creds /\ store["api"].creds \in Creds
        BY <1>2, <2>1 DEF IInv, LocalTypes, Procs
      <3>2. c2 \in Creds
        BY <3>1 DEF Creds
      <3>3. SetCreds(r) = [store EXCEPT !["api"].creds = c2]
        BY DEF SetCreds
      <3>4. SetCreds(r) \in [Procs -> [eps: SUBSET Nodes, creds: Creds]]
        BY <1>2, <3>2, <3>3
      <3> QED  BY <1>2, <3>4 DEF SyncReadCreds, SyncReadEndpoints, SyncFails
    <2>2. CASE req[r].pc # "creds"
      BY <1>2, <2>2 DEF SyncReadCreds, SyncReadEndpoints, SyncFails
    <2> QED  BY <2>1, <2>2
  <1>11. TypeOK'
    <2>1. faults' \in 0..MaxFaults
      BY FaultyType DEF SyncReadCreds, SyncReadEndpoints, SyncFails, IInv, TypeOK
    <2>2. wait' \in [Nodes -> 0..MaxReqs]
      BY <1>3, ReleaseType DEF IInv, TypeOK
    <2> QED  BY <1>8, <1>10, <2>1, <2>2 DEF IInv, TypeOK, Creds
  <1>12. JoinInv'
    BY <1>1, <1>3, <1>7, <1>8, <1>9, ProgressJoinInv DEF Answering
  <1> QED  BY <1>9, <1>11, <1>12 DEF IInv

\* The answer: a node that waits for it has the credential in its file from then
\* on.  If the row has another credential by then, nobody was answered with that.
LEMMA ReplaceInvariant ==
    ASSUME IInv, NEW r \in Reqs, ReplaceEndpoints(r)
    PROVE  IInv'
  <1> DEFINE n == req[r].node
             got == wait[n] = r
             q == [req[r] EXCEPT !.pc = "done", !.eps = {}, !.got = got]
  <1>1. req[r] \in Request /\ n \in Nodes /\ req[r].pc = "eps" /\ r # 0
    BY DEF ReplaceEndpoints, IInv, LocalTypes, Reqs
  <1>2. got \in BOOLEAN
    OBVIOUS
  <1>3. /\ req' = [req EXCEPT ![r] = q] /\ wait' = Release(r)
        /\ file' = IF got THEN [file EXCEPT ![n] = r] ELSE file
        /\ store' = [store EXCEPT !["api"].eps = req[r].eps]
        /\ UNCHANGED <<row, tok, cert, job, faults>>
    BY DEF ReplaceEndpoints
  <1>4. got => req[r].kind = "join" /\ req[r].admitted /\ row[n].rpc # 0
    BY <1>1 DEF IInv, JoinInv, WaitInv, AdmitInv, Answering
  <1>5. got => row[n].rpc = r \/ ~req[row[n].rpc].got
    BY <1>1 DEF IInv, JoinInv, WaitInv, Answering
  <1>6. req[r].eps \in SUBSET Nodes /\ ~req[r].got
    BY <1>1 DEF Request, IInv, JoinInv, AdmitInv
  <1> HIDE DEF got
  <1>7. /\ q.kind = req[r].kind /\ q.node = n /\ q.tok = req[r].tok /\ q.pc = "done"
        /\ q.prior = req[r].prior /\ q.admitted = req[r].admitted /\ q.got = got
    BY <1>1 DEF Request
  <1>8. q \in Request
    BY <1>1, <1>2 DEF Request
  <1>9. \A m \in Nodes : m # n => wait[m] # r
    BY <1>1 DEF IInv, JoinInv, WaitInv
  <1>10. \A m \in Nodes : row[m].rpc # 0 => row[m].rpc \in Reqs /\ (m # n => row[m].rpc # r)
    BY DEF IInv, TypeOK, JoinInv, RowInv, Reqs
  <1>11. file' \in [Nodes -> 0..MaxReqs] /\ (got => file'[n] = r) /\ (~got => file'[n] = file[n])
         /\ \A m \in Nodes : m # n => file'[m] = file[m]
    BY <1>1, <1>3 DEF IInv, TypeOK, Reqs
  <1> HIDE DEF q, n
  <1>12. LocalTypes' /\ req'[r] = q /\ \A k \in Reqs : k # r => req'[k] = req[k]
    BY <1>1, <1>3, <1>7, <1>8, RequestTypes
  <1>13. TypeOK'
    <2>1. store' \in [Procs -> [eps: SUBSET Nodes, creds: Creds]]
      BY <1>3, <1>6, RowType DEF IInv
    <2>2. wait' \in [Nodes -> 0..MaxReqs]
      BY <1>3, ReleaseType DEF IInv
    <2> QED  BY <1>3, <1>11, <2>1, <2>2 DEF IInv, TypeOK, Creds
  <1>14. AdmitInv'
    <2> SUFFICES ASSUME NEW k \in Reqs PROVE AdmitInv!(k)'
      BY DEF AdmitInv
    <2>1. AdmitInv!(k)
      BY DEF IInv, JoinInv, AdmitInv
    <2>2. CASE k = r
      <3>1. req'[k].got => req'[k].admitted
        BY <1>4, <1>7, <1>12, <2>2
      <3> QED  BY <1>3, <1>7, <1>12, <2>1, <2>2, <3>1 DEF Answering, n
    <2>3. CASE k # r
      BY <1>3, <1>12, <2>1, <2>3
    <2> QED  BY <2>2, <2>3
  <1>15. PriorInv'
    <2> SUFFICES ASSUME NEW k \in Reqs, NEW x \in req'[k].prior
                 PROVE  PriorInv!(k)!(x)'
      BY DEF PriorInv
    <2>1. x \in req[k].prior /\ x \in Reqs
      BY <1>7, <1>12 DEF IInv, LocalTypes, Request
    <2>2. PriorInv!(k)!(x)
      BY <2>1 DEF IInv, JoinInv, PriorInv
    <2>3. req'[x].admitted = req[x].admitted /\ req'[x].tok = req[x].tok
      BY <1>7, <1>12, <2>1
    <2>4. req'[k].admitted = req[k].admitted /\ req'[k].tok = req[k].tok /\ req'[k].kind = req[k].kind
          /\ req'[k].pc \in {req[k].pc, "done"}
      BY <1>7, <1>12
    <2> QED  BY <2>2, <2>3, <2>4
  <1>16. RowInv'
    BY <1>3, <1>7, <1>10, <1>12 DEF IInv, JoinInv, RowInv, n
  <1>17. WaitInv'
    <2> SUFFICES ASSUME NEW m \in Nodes, wait'[m] # 0 PROVE WaitInv!(m)'
      BY DEF WaitInv
    <2>1. wait'[m] = wait[m] /\ wait[m] # r /\ wait[m] \in Reqs
      BY <1>3 DEF Release, IInv, TypeOK, Reqs
    <2>2. WaitInv!(m)
      BY DEF IInv, JoinInv, WaitInv
    <2>3. req[wait[m]].pc \in Answering => row[m].rpc # 0
      BY <2>1, <2>2 DEF IInv, JoinInv, AdmitInv
    <2>4. CASE row[m].rpc = r
      <3>1. m = n
        BY <1>1, <1>10, <2>4
      <3>2. ~got
        BY <2>1, <3>1 DEF got
      <3> QED  BY <1>3, <1>7, <1>12, <2>1, <2>2, <3>2, <2>4
    <2>5. CASE row[m].rpc # r
      BY <1>3, <1>10, <1>12, <2>1, <2>2, <2>3, <2>5
    <2> QED  BY <2>4, <2>5
  <1>18. FileInv'
    <2> SUFFICES ASSUME NEW m \in Nodes PROVE FileInv!(m)'
      BY DEF FileInv
    <2>1. FileInv!(m)
      BY DEF IInv, JoinInv, FileInv
    <2>2. CASE m # n
      BY <1>3, <1>10, <1>11, <1>12, <2>1, <2>2
    <2>3. CASE m = n /\ got
      <3>1. file'[m] = r /\ row'[m].rpc # 0
        BY <1>3, <1>4, <1>11, <2>3
      <3>2. row[m].rpc # r => ~req'[row[m].rpc].got
        BY <1>4, <1>5, <1>10, <1>12, <2>3
      <3> QED  BY <1>3, <3>1, <3>2
    <2>4. CASE m = n /\ ~got
      BY <1>3, <1>7, <1>10, <1>11, <1>12, <2>1, <2>4
    <2> QED  BY <2>2, <2>3, <2>4
  <1> QED  BY <1>12, <1>13, <1>14, <1>15, <1>16, <1>17, <1>18 DEF IInv, JoinInv

\* A restart of the API ends every request, and no node waits after it.
LEMMA RestartInvariant ==
    ASSUME IInv, NEW p \in Procs, Restart(p)
    PROVE  IInv'
  <1> DEFINE table == Synced(row)
  <1>1. row \in [Nodes -> Row] /\ store \in [Procs -> [eps: SUBSET Nodes, creds: Creds]]
    BY RowType DEF IInv
  <1>2. /\ table \in [Nodes -> Row]
        /\ \A n \in Nodes : table[n].rpc = row[n].rpc /\ (row[n].op # "absent" => table[n].op # "absent")
    BY <1>1, SyncedTypes
  <1>3. /\ row' = table /\ store' = [store EXCEPT ![p] = Fresh(table)]
        /\ job' = [job EXCEPT ![p] = Refresh(table)]
        /\ UNCHANGED <<tok, cert, file>>
    BY DEF Restart
  <1> HIDE DEF table
  <1>4. store' \in [Procs -> [eps: SUBSET Nodes, creds: Creds]]
    BY <1>1, <1>2, <1>3, TableTypes
  <1>5. /\ DOMAIN job' = Procs
        /\ \A k \in Procs : \/ job'[k] = NoJob
                            \/ job'[k] \in [snap: [Nodes -> 0..MaxCerts], todo: SUBSET Nodes]
    BY <1>2, <1>3, TableTypes DEF IInv, LocalTypes
  <1>6. faults' \in 0..MaxFaults
    BY FaultyType DEF Restart, IInv
  <1>7. CASE p # "api"
    <2>1. UNCHANGED <<req, wait>>
      BY <1>7 DEF Restart
    <2>2. TypeOK'
      BY <1>2, <1>3, <1>4, <1>6, <2>1 DEF IInv, TypeOK, Row, Creds
    <2>3. LocalTypes'
      BY <1>5, <2>1 DEF IInv, LocalTypes
    <2>4. JoinInv'
      BY <1>2, <1>3, <2>1, FrameJoinInv
    <2> QED  BY <2>2, <2>3, <2>4 DEF IInv
  <1>8. CASE p = "api"
    <2> DEFINE Ended(q) == [q EXCEPT !.pc = "done", !.creds = <<>>, !.eps = {}]
    <2>1. /\ req' = [r \in Reqs |-> IF req[r].pc = "idle" THEN req[r] ELSE Ended(req[r])]
          /\ wait' = [n \in Nodes |-> 0]
      BY <1>8 DEF Restart
    <2>2. ASSUME NEW q \in Request
          PROVE  /\ Ended(q) \in Request
                 /\ Ended(q).kind = q.kind /\ Ended(q).node = q.node /\ Ended(q).tok = q.tok
                 /\ Ended(q).pc = "done" /\ Ended(q).prior = q.prior
                 /\ Ended(q).admitted = q.admitted /\ Ended(q).got = q.got
      BY <2>2 DEF Request
    <2> HIDE DEF Ended
    <2>3. ASSUME NEW r \in Reqs
          PROVE  /\ req'[r] \in Request
                 /\ req'[r].kind = req[r].kind /\ req'[r].node = req[r].node /\ req'[r].tok = req[r].tok
                 /\ req'[r].prior = req[r].prior
                 /\ req'[r].admitted = req[r].admitted /\ req'[r].got = req[r].got
                 /\ req'[r].pc = IF req[r].pc = "idle" THEN "idle" ELSE "done"
                 /\ req[r].pc = "idle" => req'[r] = req[r]
      BY <2>1, <2>2 DEF IInv, LocalTypes
    <2>4. TypeOK'
      BY <1>2, <1>3, <1>4, <1>6, <2>1 DEF IInv, TypeOK, Row, Creds
    <2>5. LocalTypes'
      <3>1. req' \in [Reqs -> Request]
        BY <2>1, <2>3
      <3>2. ASSUME NEW r \in Reqs
            PROVE  /\ req'[r].pc # "creds"
                   /\ req'[r].pc # "idle" => req'[r].node \in Nodes
                   /\ req'[r].pc = "idle" => req'[r] = NoReq
        BY <2>3 DEF IInv, LocalTypes
      <3> QED  BY <1>5, <3>1, <3>2 DEF LocalTypes
    <2>6. AdmitInv'
      <3> SUFFICES ASSUME NEW r \in Reqs PROVE AdmitInv!(r)'
        BY DEF AdmitInv
      <3>1. AdmitInv!(r)
        BY DEF IInv, JoinInv, AdmitInv
      <3>2. req[r].admitted => req[r].node \in Nodes /\ req[r].pc # "idle"
        BY <3>1 DEF IInv, LocalTypes, Answering
      <3> QED  BY <1>2, <1>3, <2>3, <3>1, <3>2 DEF Answering
    <2>7. PriorInv'
      <3> SUFFICES ASSUME NEW r \in Reqs, NEW q \in req'[r].prior PROVE PriorInv!(r)!(q)'
        BY DEF PriorInv
      <3>1. q \in Reqs /\ PriorInv!(r)!(q)
        BY <2>3 DEF IInv, LocalTypes, Request, JoinInv, PriorInv
      <3> QED  BY <2>3, <3>1
    <2>8. \A n \in Nodes : row[n].rpc # 0 => row[n].rpc \in Reqs
      BY DEF IInv, TypeOK, Reqs
    <2>9. RowInv' /\ FileInv'
      BY <1>2, <1>3, <2>3, <2>8 DEF IInv, JoinInv, RowInv, FileInv
    <2>10. WaitInv'
      BY <2>1 DEF WaitInv
    <2> QED  BY <2>4, <2>5, <2>6, <2>7, <2>9, <2>10 DEF IInv, JoinInv
  <1> QED  BY <1>7, <1>8

\* Every step keeps the invariant.
LEMMA NextInv == IInv /\ [Next]_vars => IInv'
  <1> SUFFICES ASSUME IInv, [Next]_vars PROVE IInv'
    OBVIOUS
  <1>1. ASSUME NEW r \in Reqs, JoinStep(r) \/ JoinAborts(r) \/ SyncFails(r) PROVE IInv'
    BY <1>1, JoinReadInvariant, JoinCommitInvariant, SyncInvariant, ReplaceInvariant DEF JoinStep
  <1>2. ASSUME NEW p \in Procs, RefreshStart(p) \/ RefreshStep(p) \/ RefreshFails(p) PROVE IInv'
    BY <1>2, RefreshInvariant, PinInvariant DEF RefreshStep
  <1>3. ASSUME NEW n \in Nodes, RePinNodeTLSIdentity(n) PROVE IInv'
    <2>1. "api" \in Procs
      BY DEF Procs
    <2> QED  BY <1>3, <2>1, PinInvariant
  <1>4. CASE UNCHANGED vars
    <2>1. TypeOK' /\ LocalTypes'
      BY <1>4 DEF IInv, TypeOK, LocalTypes, vars
    <2>2. JoinInv'
      BY <1>4, FrameJoinInv DEF vars
    <2> QED  BY <2>1, <2>2 DEF IInv
  <1> QED
    BY <1>1, <1>2, <1>3, <1>4, RestartInvariant, TokenInvariant, NodeStartInvariant, TimeoutInvariant,
       RegisterInvariant, CertInvariant
    DEF Next

-----------------------------------------------------------------------------
(* What follows for every behaviour.                                       *)

\* The invariant holds in every state, whatever joins overlap, time out, fail or
\* are cut off by a restart (JoinNode, RegisterNode, maybeJoinCluster).
THEOREM Invariance == Spec => []IInv
  BY InitInv, NextInv, PTL DEF Spec

\* A node whose credential is not the one in its row never got the answer of the
\* join that made the one in the row (JoinNode commits before it answers).
THEOREM NodeAndTableAgree == Spec => []CredentialsAgree
  <1>1. IInv => CredentialsAgree
    BY DEF IInv, JoinInv, FileInv, CredentialsAgree
  <1> QED  BY <1>1, Invariance, PTL

\* A join that began after its token had admitted another one is refused
\* (JoinNode's look at used_at).
THEOREM TokensServeOnce == Spec => []NoSequentialReuse
  <1>1. IInv => NoSequentialReuse
    <2> SUFFICES ASSUME IInv, NEW r \in Reqs, NEW q \in req[r].prior,
                        req[q].tok = req[r].tok, req[r].admitted
                 PROVE  FALSE
      BY DEF NoSequentialReuse
    <2>1. req[r].kind = "join"
      BY DEF IInv, JoinInv, AdmitInv
    <2> QED  BY <2>1 DEF IInv, JoinInv, PriorInv
  <1> QED  BY <1>1, Invariance, PTL
=============================================================================
