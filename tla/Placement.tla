----------------------------- MODULE Placement -----------------------------
(***************************************************************************)
(* Replicas of objects on blob nodes: the distributed write of             *)
(* objects.Put and storage.DistributedStore, the table object_placements,  *)
(* and the worker's jobs RefreshConfiguredNodes, RefreshPlacementHealth,   *)
(* RepairDegradedPlacements and RebalancePlacements (TopologyService).     *)
(*                                                                         *)
(* Nodes are numbered in the order of their names, objects in the order of *)
(* their ids: the queries sort by them.  The worker runs one job at a      *)
(* time.  A blob operation reaches a node that is up and fails on one that *)
(* is down.  PSpec and its parts have a P, as WorkerProofs extends this    *)
(* module beside another.                                                  *)
(***************************************************************************)
EXTENDS Integers, FiniteSets, FiniteSetsExt

CONSTANTS
    NumNodes,     \* blob nodes that may be registered
    NumObjects,   \* bound: objects ever written
    PutReplicas,  \* replica target of the bucket
    Replicas,     \* replica target of the worker's configuration
    InitActive,   \* nodes registered and active at the start
    Operations,   \* operator states the operators may set, or register with
    Changeable,   \* nodes the operators register, drain or activate
    MaxFailures   \* bound: node failures, lost replicas, failed jobs

ASSUME NumNodesAssumption == NumNodes \in Nat \ {0}
ASSUME NumObjectsAssumption == NumObjects \in Nat
ASSUME ReplicasAssumption == PutReplicas \in Nat /\ Replicas \in Nat
ASSUME InitActiveAssumption == InitActive \subseteq 1..NumNodes
ASSUME OperationsAssumption == Operations \subseteq {"active", "draining", "maintenance"}
ASSUME ChangeableAssumption == Changeable \subseteq 1..NumNodes
ASSUME FailuresAssumption == MaxFailures \in Nat

Nodes == 1..NumNodes
Objects == 1..NumObjects

VARIABLES
    op,       \* operator_state of each node; "absent": not registered
    nodeStatus, \* status of each node as the table has it
    up,       \* nodes that are reachable
    mismatch, \* nodes whose certificate is not the pinned one
    obj,      \* life of each object
    replicas, \* nodes that hold a replica of each object
    idx,      \* replica_index of each placement row; -1: no row
    state,    \* state of each placement row
    write,    \* the Put under way: endpoints to write, endpoints written
    job,      \* the job the worker runs
    failures    \* faults so far

nodeVars == <<op, nodeStatus, up, mismatch>>
rowVars == <<idx, state>>
pvars == <<nodeVars, obj, replicas, rowVars, write, job, failures>>

NoNode == 0
NoWrite == [obj |-> 0, targets |-> {}, written |-> {}]
NoJob == [kind |-> "none", targets |-> {}, snap |-> <<>>, todo |-> {}, cur |-> 0,
          src |-> NoNode, del |-> {}, copy |-> {}, ins |-> NoNode]

-----------------------------------------------------------------------------
(* The queries.                                                            *)

Active == {n \in Nodes : op[n] = "active"}

\* A target of 0, or one larger than what is available, means all.
effectiveReplicaCount(k, available) == IF k = 0 \/ k > available THEN available ELSE k

Before(n, S) == {m \in S : m < n}

\* The first k of the active nodes, by name.
FirstOnes(k, S) ==
    {n \in S : Cardinality(Before(n, S)) < effectiveReplicaCount(k, Cardinality(S))}

\* Mutant: the node with the first name is skipped.
TargetsLast == FirstOnes(Replicas, Active \ {Min(Active)})

\* activeTargetEndpoints: where the worker wants every object to be.
Targets == FirstOnes(Replicas, Active)

RowNodes(o) == {n \in Nodes : idx[o][n] # -1}

\* UNIQUE (object_id, replica_index, chunk_ordinal).
IndexTaken(o, i) == \E n \in Nodes : idx[o][n] = i

\* replicaExists.
Exists(o, n) == n \in up /\ n \in replicas[o]

-----------------------------------------------------------------------------
PInit ==
    /\ op = [n \in Nodes |-> IF n \in InitActive THEN "active" ELSE "absent"]
    /\ nodeStatus = [n \in Nodes |-> IF n \in InitActive THEN "healthy" ELSE "configured"]
    /\ up = Nodes
    /\ mismatch = {}
    /\ obj = [o \in Objects |-> "none"]
    /\ replicas = [o \in Objects |-> {}]
    /\ idx = [o \in Objects |-> [n \in Nodes |-> -1]]
    /\ state = [o \in Objects |-> [n \in Nodes |-> "none"]]
    /\ write = NoWrite
    /\ job = NoJob
    /\ failures = 0

Failure == failures < MaxFailures /\ failures' = failures + 1

-----------------------------------------------------------------------------
(* Nodes and operators.                                                    *)

NodeDown(n) ==
    /\ n \in up /\ Failure
    /\ up' = up \ {n}
    /\ UNCHANGED <<op, nodeStatus, mismatch, obj, replicas, rowVars, write, job>>

NodeUp(n) ==
    /\ n \notin up
    /\ up' = up \cup {n}
    /\ UNCHANGED <<op, nodeStatus, mismatch, obj, replicas, rowVars, write, job, failures>>

\* A node whose certificate has been seen, and so pinned, gets another one.
CertificateChanges(n) ==
    /\ nodeStatus[n] = "healthy" /\ n \notin mismatch /\ Failure
    /\ mismatch' = mismatch \cup {n}
    /\ UNCHANGED <<op, nodeStatus, up, obj, replicas, rowVars, write, job>>

RePinNodeTLSIdentity(n) ==
    /\ op[n] # "absent" /\ n \in up
    /\ mismatch' = mismatch \ {n}
    /\ nodeStatus' = [nodeStatus EXCEPT ![n] = "healthy"]
    /\ UNCHANGED <<op, up, obj, replicas, rowVars, write, job, failures>>

\* A node loses a replica that another one has.
LoseReplica(o, n) ==
    /\ n \in replicas[o] /\ replicas[o] # {n} /\ Failure
    /\ replicas' = [replicas EXCEPT ![o] = @ \ {n}]
    /\ UNCHANGED <<nodeVars, obj, rowVars, write, job>>

RegisterNode(n, s) ==
    /\ op[n] = "absent"
    /\ op' = [op EXCEPT ![n] = s]
    /\ UNCHANGED <<nodeStatus, up, mismatch, obj, replicas, rowVars, write, job, failures>>

\* No object is stored locally here, so shouldBlockNodeStateChange blocks none.
UpdateNodeOperatorState(n, s) ==
    /\ op[n] \notin {"absent", s}
    /\ op' = [op EXCEPT ![n] = s]
    /\ UNCHANGED <<nodeStatus, up, mismatch, obj, replicas, rowVars, write, job, failures>>

-----------------------------------------------------------------------------
(* objects.Put and DeleteVersion.                                          *)

\* resolvePlacementEndpoints.
PutStart(o) ==
    /\ obj[o] = "none" /\ write = NoWrite /\ Active # {}
    /\ obj' = [obj EXCEPT ![o] = "writing"]
    /\ write' = [obj |-> o, targets |-> FirstOnes(PutReplicas, Active), written |-> {}]
    /\ UNCHANGED <<nodeVars, replicas, rowVars, job, failures>>

\* putOne on the next endpoint.
PutOne ==
    \E n \in write.targets \ write.written :
        /\ Before(n, write.targets) \subseteq write.written
        /\ n \in up
        /\ replicas' = [replicas EXCEPT ![write.obj] = @ \cup {n}]
        /\ write' = [write EXCEPT !.written = @ \cup {n}]
        /\ UNCHANGED <<nodeVars, obj, rowVars, job, failures>>

\* An endpoint cannot be written: the ones written are rolled back, as far as
\* they can be reached.
PutFails ==
    \E n \in write.targets \ write.written :
        /\ Before(n, write.targets) \subseteq write.written
        /\ n \notin up
        /\ replicas' = [replicas EXCEPT ![write.obj] = @ \ (write.written \cap up)]
        /\ obj' = [obj EXCEPT ![write.obj] = "gone"]
        /\ write' = NoWrite
        /\ UNCHANGED <<nodeVars, rowVars, job, failures>>

\* recordPlacements and the commit.
PutCommit ==
    LET o == write.obj IN
    /\ o # 0 /\ write.written = write.targets
    /\ obj' = [obj EXCEPT ![o] = "stored"]
    /\ idx' = [idx EXCEPT ![o] = [n \in Nodes |->
                  IF n \in write.targets THEN Cardinality(Before(n, write.targets)) ELSE -1]]
    /\ state' = [state EXCEPT ![o] = [n \in Nodes |->
                  IF n \in write.targets THEN "stored" ELSE "none"]]
    /\ write' = NoWrite
    /\ UNCHANGED <<nodeVars, replicas, job, failures>>

\* The row goes, its placements with it, then the replicas on every endpoint
\* that answers.
Delete(o) ==
    /\ obj[o] = "stored"
    /\ obj' = [obj EXCEPT ![o] = "gone"]
    /\ idx' = [idx EXCEPT ![o] = [n \in Nodes |-> -1]]
    /\ state' = [state EXCEPT ![o] = [n \in Nodes |-> "none"]]
    /\ replicas' = [replicas EXCEPT ![o] = @ \ up]
    /\ UNCHANGED <<nodeVars, write, job, failures>>

-----------------------------------------------------------------------------
(* RefreshConfiguredNodes and RefreshPlacementHealth.                      *)

RefreshConfiguredNodes ==
    /\ job = NoJob
    /\ nodeStatus' = [n \in Nodes |->
                     IF op[n] = "absent" THEN nodeStatus[n]
                     ELSE IF n \notin up THEN "offline"
                     ELSE IF n \in mismatch THEN "tls-mismatch" ELSE "healthy"]
    /\ UNCHANGED <<op, up, mismatch, obj, replicas, rowVars, write, job, failures>>

\* Every placement by itself.
HealthRows ==
    /\ job = NoJob /\ Active # {}
    /\ state' = [o \in Objects |-> [n \in Nodes |->
                    IF idx[o][n] = -1 THEN "none"
                    ELSE IF nodeStatus[n] = "healthy" /\ Exists(o, n) THEN "stored" ELSE "degraded"]]
    /\ job' = [NoJob EXCEPT !.kind = "health",
                            !.targets = FirstOnes(Replicas, Active)]
    /\ UNCHANGED <<nodeVars, obj, replicas, idx, write, failures>>

\* Then every object: its placements are all stored or all degraded.
HealthObjects ==
    /\ job.kind = "health"
    /\ state' = [o \in Objects |-> [n \in Nodes |->
                    IF idx[o][n] = -1 THEN "none"
                    ELSE IF Cardinality({m \in Nodes : state[o][m] = "stored"})
                                < Cardinality(job.targets)
                         THEN "degraded" ELSE "stored"]]
    /\ job' = NoJob
    /\ UNCHANGED <<nodeVars, obj, replicas, idx, write, failures>>

-----------------------------------------------------------------------------
(* RepairDegradedPlacements: the degraded rows are read once.              *)

RepairStart ==
    LET snap == [o \in Objects |-> {n \in Nodes : state[o][n] = "degraded"}] IN
    /\ job = NoJob
    /\ \E o \in Objects : snap[o] # {}
    /\ job' = [NoJob EXCEPT !.kind = "repair", !.snap = snap,
                            !.todo = {o \in Objects : snap[o] # {}}]
    /\ UNCHANGED <<nodeVars, obj, replicas, rowVars, write, failures>>

\* The next object and a node to copy from; without one it is skipped.
RepairObject(o) ==
    /\ job.kind = "repair" /\ job.cur = 0 /\ o \in job.todo
    /\ \/ \E n \in job.snap[o] :
              /\ Exists(o, n)
              /\ job' = [job EXCEPT !.todo = @ \ {o}, !.cur = o, !.src = n,
                                    !.copy = job.snap[o] \ {n}]
       \/ /\ \A n \in job.snap[o] : ~Exists(o, n)
          /\ job' = [job EXCEPT !.todo = @ \ {o}]
    /\ UNCHANGED <<nodeVars, obj, replicas, rowVars, write, failures>>

\* Mutant: the copy is recorded but not made.
RepairCopyRowOnly(n) ==
    LET o == job.cur IN
    /\ job.kind = "repair" /\ n \in job.copy
    /\ job' = [job EXCEPT !.copy = @ \ {n}]
    /\ IF ~Exists(o, n) /\ Exists(o, job.src) /\ n \in up
       THEN /\ state' = [state EXCEPT ![o][n] = IF idx[o][n] = -1 THEN @ ELSE "stored"]
            /\ UNCHANGED replicas
       ELSE UNCHANGED <<replicas, state>>
    /\ UNCHANGED <<nodeVars, obj, idx, write, failures>>

\* One placement: what exists is left alone, what cannot be copied is skipped.
RepairCopy(n) ==
    LET o == job.cur IN
    /\ job.kind = "repair" /\ n \in job.copy
    /\ job' = [job EXCEPT !.copy = @ \ {n}]
    /\ IF ~Exists(o, n) /\ Exists(o, job.src) /\ n \in up
       THEN /\ replicas' = [replicas EXCEPT ![o] = @ \cup {n}]
            /\ state' = [state EXCEPT ![o][n] = IF idx[o][n] = -1 THEN @ ELSE "stored"]
       ELSE UNCHANGED <<replicas, state>>
    /\ UNCHANGED <<nodeVars, obj, idx, write, failures>>

-----------------------------------------------------------------------------
(* RebalancePlacements: targets and rows are read once.                    *)

RebalanceStart ==
    /\ job = NoJob /\ Active # {}
    /\ \E o \in Objects : RowNodes(o) # {}
    /\ job' = [NoJob EXCEPT !.kind = "rebalance", !.targets = Targets, !.snap = idx,
                            !.todo = {o \in Objects : RowNodes(o) # {}}]
    /\ UNCHANGED <<nodeVars, obj, replicas, rowVars, write, failures>>

SnapNodes(o) == {n \in Nodes : job.snap[o][n] # -1}

\* The next object: the source is the first row, by replica_index, whose
\* replica exists.
RebalanceObject(o) ==
    LET holders == {n \in SnapNodes(o) : Exists(o, n)}
        src == IF holders = {} THEN NoNode
               ELSE CHOOSE n \in holders :
                        \A m \in holders : job.snap[o][n] <= job.snap[o][m]
    IN
    /\ job.kind = "rebalance" /\ job.cur = 0
    /\ o \in job.todo /\ \A q \in job.todo : o <= q
    /\ job' = [job EXCEPT !.todo = @ \ {o}, !.cur = o, !.src = src,
                          !.del = SnapNodes(o) \ job.targets,
                          !.copy = IF src = NoNode THEN {} ELSE job.targets \ SnapNodes(o)]
    /\ UNCHANGED <<nodeVars, obj, replicas, rowVars, write, failures>>

\* A placement that is not a target: the replica goes if its node answers, the
\* row in any case.
RebalanceDelete(n) ==
    LET o == job.cur IN
    /\ job.kind = "rebalance" /\ n \in job.del
    /\ replicas' = [replicas EXCEPT ![o] = IF n \in up THEN @ \ {n} ELSE @]
    /\ idx' = [idx EXCEPT ![o][n] = -1]
    /\ state' = [state EXCEPT ![o][n] = "none"]
    /\ job' = [job EXCEPT !.del = @ \ {n}]
    /\ UNCHANGED <<nodeVars, obj, write, failures>>

\* A target without a placement: the copy; one that cannot be made is skipped.
RebalanceCopy(n) ==
    LET o == job.cur IN
    /\ job.kind = "rebalance" /\ job.del = {} /\ job.ins = NoNode
    /\ n \in job.copy /\ \A m \in job.copy : n <= m
    /\ IF Exists(o, job.src) /\ n \in up
       THEN /\ replicas' = [replicas EXCEPT ![o] = @ \cup {n}]
            /\ job' = [job EXCEPT !.ins = n]
       ELSE /\ job' = [job EXCEPT !.copy = @ \ {n}]
            /\ UNCHANGED replicas
    /\ UNCHANGED <<nodeVars, obj, rowVars, write, failures>>

\* The replica_index of a new placement: the position in the target list.
ReplicaIndex(n) == Cardinality(Before(n, job.targets))

\* Mutant: the copy is not recorded.
RebalanceInsertNothing ==
    /\ job.ins # NoNode
    /\ job' = [job EXCEPT !.copy = @ \ {job.ins}, !.ins = NoNode]
    /\ UNCHANGED <<nodeVars, obj, replicas, rowVars, write, failures>>

\* Then its row: an index that is taken, or an object that has been deleted,
\* makes the insert fail, which ends the job.
RebalanceInsert ==
    LET o == job.cur
        n == job.ins
    IN
    /\ n # NoNode
    /\ IF obj[o] = "stored" /\ ~IndexTaken(o, ReplicaIndex(n))
       THEN /\ idx' = [idx EXCEPT ![o][n] = ReplicaIndex(n)]
            /\ state' = [state EXCEPT ![o][n] = "stored"]
            /\ job' = [job EXCEPT !.copy = @ \ {n}, !.ins = NoNode]
       ELSE job' = NoJob /\ UNCHANGED rowVars
    /\ UNCHANGED <<nodeVars, obj, replicas, write, failures>>

-----------------------------------------------------------------------------
\* Repair and rebalance, done with one object.
NextObject ==
    /\ job.cur # 0 /\ job.del = {} /\ job.copy = {}
    /\ job' = [job EXCEPT !.cur = 0, !.src = NoNode]
    /\ UNCHANGED <<nodeVars, obj, replicas, rowVars, write, failures>>

JobDone ==
    /\ job.kind \in {"repair", "rebalance"} /\ job.cur = 0 /\ job.todo = {}
    /\ job' = NoJob
    /\ UNCHANGED <<nodeVars, obj, replicas, rowVars, write, failures>>

\* A statement of the job fails or the worker dies.
JobFails ==
    /\ job # NoJob /\ Failure
    /\ job' = NoJob
    /\ UNCHANGED <<nodeVars, obj, replicas, rowVars, write>>

\* The API dies, or cannot commit, during a Put: the replicas stay.
PutDies ==
    /\ write # NoWrite /\ Failure
    /\ obj' = [obj EXCEPT ![write.obj] = "gone"]
    /\ write' = NoWrite
    /\ UNCHANGED <<nodeVars, replicas, rowVars, job>>

JobStep ==
    \/ HealthObjects
    \/ \E o \in Objects : RepairObject(o)
    \/ \E n \in Nodes : RepairCopy(n)
    \/ \E o \in Objects : RebalanceObject(o)
    \/ \E n \in Nodes : RebalanceDelete(n)
    \/ \E n \in Nodes : RebalanceCopy(n)
    \/ RebalanceInsert
    \/ NextObject
    \/ JobDone

PutStep == PutOne \/ PutFails \/ PutCommit

PNext ==
    \/ \E n \in Nodes : NodeDown(n)
    \/ \E n \in Nodes : NodeUp(n)
    \/ \E n \in Nodes : CertificateChanges(n)
    \/ \E n \in Nodes : RePinNodeTLSIdentity(n)
    \/ \E o \in Objects, n \in Nodes : LoseReplica(o, n)
    \/ \E n \in Changeable, s \in Operations : RegisterNode(n, s)
    \/ \E n \in Changeable, s \in Operations : UpdateNodeOperatorState(n, s)
    \/ \E o \in Objects : PutStart(o)
    \/ PutStep
    \/ PutDies
    \/ \E o \in Objects : Delete(o)
    \/ RefreshConfiguredNodes
    \/ HealthRows
    \/ RepairStart
    \/ RebalanceStart
    \/ JobStep
    \/ JobFails

PSpec == PInit /\ [][PNext]_pvars

\* The jobs recur (JobQueue) and each of them is started again and again, a job
\* under way goes on, nodes come back.
PFairness ==
    /\ WF_pvars(JobStep) /\ WF_pvars(PutStep)
    /\ \A n \in Nodes : WF_pvars(NodeUp(n))
    /\ SF_pvars(RefreshConfiguredNodes) /\ SF_pvars(HealthRows)
    /\ SF_pvars(RepairStart) /\ SF_pvars(RebalanceStart)

FairPSpec == PSpec /\ PFairness

-----------------------------------------------------------------------------
\* Types of the tables, the nodes and the jobs.  A replica index counts from 0
\* and is less than the number of nodes.
PlacementTypes ==
    /\ op \in [Nodes -> {"absent", "active", "draining", "maintenance"}]
    /\ nodeStatus \in [Nodes -> {"configured", "healthy", "offline", "tls-mismatch"}]
    /\ up \subseteq Nodes /\ mismatch \subseteq Nodes
    /\ obj \in [Objects -> {"none", "writing", "stored", "gone"}]
    /\ replicas \in [Objects -> SUBSET Nodes]
    /\ idx \in [Objects -> [Nodes -> -1..(NumNodes - 1)]]
    /\ state \in [Objects -> [Nodes -> {"none", "stored", "degraded"}]]
    /\ write \in [obj: 0..NumObjects, targets: SUBSET Nodes, written: SUBSET Nodes]
    /\ job.kind \in {"none", "health", "repair", "rebalance"}
    /\ job.cur \in 0..NumObjects /\ {job.src, job.ins} \subseteq 0..NumNodes
    /\ failures \in 0..MaxFailures

\* A stored object has a replica somewhere, whatever nodes, Puts and jobs do.
\* It holds while the nodes that come first by name stay active, so that the
\* targets of an object keep one that has it.  Draining the only node with a
\* replica breaks it: the rebalance deletes the replicas on nodes that are no
\* longer targets before it copies from them.
EveryObjectHasReplica == \A o \in Objects : obj[o] = "stored" => replicas[o] # {}

\* The operators leave the nodes alone in the end.
OperatorsRest == \E A \in SUBSET Nodes : <>[](Active = A)

\* What a placement row promises is restored: a node that has lost its replica
\* gets it again from another one (refresh, health check, repair), or the row
\* goes.  While operators drain and activate nodes for ever the health check may
\* always count a replica that is about to go.
ReplicasRestored ==
    OperatorsRest => \A o \in Objects, n \in Nodes :
        idx[o][n] # -1 ~> (idx[o][n] = -1 \/ n \in replicas[o])

\* Every object comes to be placed on exactly the target nodes: new and drained
\* nodes are taken into account.
PlacementsReachTargets ==
    OperatorsRest => \A o \in Objects : []<>(obj[o] = "stored" => RowNodes(o) = Targets)
=============================================================================
