----------------------------- MODULE Migration -----------------------------
(***************************************************************************)
(* Objects that move from the local store to the blob nodes while clients  *)
(* use them: objects.Put with its fallback to the local store,             *)
(* MigrateLocalObjectsToDistributed (copy, switch of the row, deletion of  *)
(* the local file, each a step of its own), getVersion, DeleteVersion, and *)
(* the guard of the admin API that keeps the last healthy active node in   *)
(* service while local objects wait for their migration.                   *)
(*                                                                         *)
(* Objects are numbered in the order of created_at, nodes in the order of  *)
(* their names.  A blob operation reaches a node that is up and fails on   *)
(* one that is down; the processes know the nodes (see Enrollment).        *)
(***************************************************************************)
EXTENDS Integers, FiniteSets

CONSTANTS
    NumObjects,  \* bound: objects ever written
    NumNodes,    \* blob nodes
    Replicas,    \* replica target; 0: every active node
    Migrators,   \* migration requests that may be under way at once
    Limit,       \* objects a migration request takes on
    Used,        \* bound: objects that clients read and delete
    MaxFaults    \* bound: node failures, failed statements, crashes

ASSUME ObjectsAssumption == NumObjects \in Nat
ASSUME MigrationNodesAssumption == NumNodes \in Nat
ASSUME MigrationReplicasAssumption == Replicas \in Nat
ASSUME LimitAssumption == Limit \in Nat \ {0}
ASSUME MigrationFaultsAssumption == MaxFaults \in Nat

Objects == 1..NumObjects
Nodes == 1..NumNodes

ASSUME UsedAssumption == Used \subseteq Objects

VARIABLES
    row,      \* the row of each object: none, live or gone
    backend,  \* storage_backend of each row
    local,    \* objects with a file in the local store
    rep,      \* nodes with a replica of each object
    active,   \* nodes with operator_state active
    healthy,  \* nodes with status healthy in the table
    up,       \* nodes that can be reached
    put,      \* the Put of each object: idle, the store it wrote to, or over
    del,      \* the DeleteVersion of each object
    mig,      \* each migration request
    get,      \* the Get under way
    patch,    \* the PATCH of each node that takes it out of service
    faults

storeVars == <<row, backend, local, rep>>
nodeVars == <<active, healthy, up>>
vars == <<storeVars, nodeVars, put, del, mig, get, patch, faults>>

Idle == [pc |-> "idle", todo |-> {}, cur |-> 0, targets |-> {}]
NoGet == [obj |-> 0, backend |-> "none"]
Patches == [why: {"none", "last", "empty", "spare"}, met: BOOLEAN]
NoPatch == [why |-> "none", met |-> FALSE]

Faulty == faults < MaxFaults /\ faults' = faults + 1

-----------------------------------------------------------------------------
(* The queries.                                                            *)

\* resolvePlacementEndpoints: the first active nodes by name, all of them if
\* there is no target or not enough of them.
Targets ==
    {n \in active : Replicas = 0 \/ Cardinality({m \in active : m < n}) < Replicas}

\* MigrationStatus and the candidates of a migration.
Pending == {o \in Objects : row[o] = "live" /\ backend[o] = "local"}

\* The first Limit objects of a set.
First(S) == {o \in S : Cardinality({q \in S : q < o}) < Limit}

\* Mutant: the limit is applied before the backend is looked at.
CandidatesUnfiltered == First({o \in Objects : row[o] = "live"}) \cap Pending

Candidates == First(Pending)

\* The nodes that shouldBlockNodeStateChange counts.
Serving == active \cap healthy

Init ==
    /\ row = [o \in Objects |-> "none"]
    /\ backend = [o \in Objects |-> "none"]
    /\ local = {}
    /\ rep = [o \in Objects |-> {}]
    /\ active = {}
    /\ healthy = Nodes
    /\ up = Nodes
    /\ put = [o \in Objects |-> "idle"]
    /\ del = [o \in Objects |-> "idle"]
    /\ mig = [m \in Migrators |-> Idle]
    /\ get = NoGet
    /\ patch = [n \in Nodes |-> NoPatch]
    /\ faults = 0

-----------------------------------------------------------------------------
(* PutToEndpoints: the endpoints in their order; one that is down makes it *)
(* fail, and what was written before it is deleted again.                  *)

Reached(targets) == {n \in targets : \E m \in targets \ up : n < m /\ \A k \in targets \ up : m <= k}

Copied(o, targets) == [rep EXCEPT ![o] = @ \cup targets]
RolledBack(o, targets) == [rep EXCEPT ![o] = @ \ Reached(targets)]

-----------------------------------------------------------------------------
(* objects.Put.                                                            *)

\* resolveWriteBackend: without an endpoint the object goes to the local store.
PutBlob(o) ==
    /\ put[o] = "idle" /\ Targets \subseteq up
    /\ IF Targets = {}
       THEN /\ local' = local \cup {o}
            /\ put' = [put EXCEPT ![o] = "local"]
            /\ UNCHANGED rep
       ELSE /\ rep' = Copied(o, Targets)
            /\ put' = [put EXCEPT ![o] = "distributed"]
            /\ UNCHANGED local
    /\ UNCHANGED <<row, backend, nodeVars, del, mig, get, patch, faults>>

PutFails(o) ==
    /\ put[o] = "idle" /\ ~(Targets \subseteq up)
    /\ rep' = RolledBack(o, Targets)
    /\ put' = [put EXCEPT ![o] = "over"]
    /\ UNCHANGED <<row, backend, local, nodeVars, del, mig, get, patch, faults>>

PutCommit(o) ==
    /\ put[o] \in {"local", "distributed"}
    /\ row' = [row EXCEPT ![o] = "live"]
    /\ backend' = [backend EXCEPT ![o] = put[o]]
    /\ put' = [put EXCEPT ![o] = "over"]
    /\ UNCHANGED <<local, rep, nodeVars, del, mig, get, patch, faults>>

-----------------------------------------------------------------------------
(* DeleteVersion: the backend is read first and the blob deleted last.     *)

DeleteRead(o) ==
    /\ row[o] = "live" /\ del[o] = "idle"
    /\ del' = [del EXCEPT ![o] = backend[o]]
    /\ UNCHANGED <<storeVars, nodeVars, put, mig, get, patch, faults>>

DeleteRow(o) ==
    /\ row[o] = "live" /\ del[o] # "idle"
    /\ row' = [row EXCEPT ![o] = "gone"]
    /\ UNCHANGED <<backend, local, rep, nodeVars, put, del, mig, get, patch, faults>>

DeleteBlob(o) ==
    /\ row[o] = "gone" /\ del[o] \notin {"idle", "over"}
    /\ IF del[o] = "local" THEN local' = local \ {o} /\ UNCHANGED rep
                           ELSE rep' = [rep EXCEPT ![o] = @ \ up] /\ UNCHANGED local
    /\ del' = [del EXCEPT ![o] = "over"]
    /\ UNCHANGED <<row, backend, nodeVars, put, mig, get, patch, faults>>

-----------------------------------------------------------------------------
(* MigrateLocalObjectsToDistributed.                                       *)

MigrateStart(m) ==
    /\ mig[m].pc = "idle" /\ Candidates # {}
    /\ mig' = [mig EXCEPT ![m] = [Idle EXCEPT !.pc = "next", !.todo = Candidates]]
    /\ UNCHANGED <<storeVars, nodeVars, put, del, get, patch, faults>>

\* The next candidate: endpoints are chosen and the local file is read.  The
\* request ends with an error if there is no endpoint or no file.
MigrateRead(m, o) ==
    /\ mig[m].pc = "next"
    /\ o \in mig[m].todo /\ \A q \in mig[m].todo : o <= q
    /\ mig' = [mig EXCEPT ![m] =
                  IF Targets = {} \/ o \notin local THEN Idle
                  ELSE [pc |-> "copy", todo |-> @.todo \ {o}, cur |-> o, targets |-> Targets]]
    /\ UNCHANGED <<storeVars, nodeVars, put, del, get, patch, faults>>

MigrateCopy(m) ==
    /\ mig[m].pc = "copy" /\ mig[m].targets \subseteq up
    /\ rep' = Copied(mig[m].cur, mig[m].targets)
    /\ mig' = [mig EXCEPT ![m].pc = "switch", ![m].targets = {}]
    /\ UNCHANGED <<row, backend, local, nodeVars, put, del, get, patch, faults>>

MigrateCopyFails(m) ==
    /\ mig[m].pc = "copy" /\ ~(mig[m].targets \subseteq up)
    /\ rep' = RolledBack(mig[m].cur, mig[m].targets)
    /\ mig' = [mig EXCEPT ![m] = Idle]
    /\ UNCHANGED <<row, backend, local, nodeVars, put, del, get, patch, faults>>

\* The transaction: the row, then its placements, which a deleted object's row
\* no longer admits.
MigrateSwitch(m) ==
    LET o == mig[m].cur IN
    /\ mig[m].pc = "switch"
    /\ IF row[o] = "live"
       THEN /\ backend' = [backend EXCEPT ![o] = "distributed"]
            /\ mig' = [mig EXCEPT ![m].pc = "unlink"]
       ELSE /\ mig' = [mig EXCEPT ![m] = Idle]
            /\ UNCHANGED backend
    /\ UNCHANGED <<row, local, rep, nodeVars, put, del, get, patch, faults>>

\* Mutant: the local file goes before the row is switched.
MigrateUnlinkEarly(m) ==
    /\ mig[m].pc = "switch"
    /\ local' = local \ {mig[m].cur}
    /\ UNCHANGED <<row, backend, rep, nodeVars, put, del, mig, get, patch, faults>>

MigrateUnlink(m) ==
    /\ mig[m].pc = "unlink"
    /\ local' = local \ {mig[m].cur}
    /\ mig' = [mig EXCEPT ![m] = IF mig[m].todo = {} THEN Idle
                                 ELSE [Idle EXCEPT !.pc = "next", !.todo = mig[m].todo]]
    /\ UNCHANGED <<row, backend, rep, nodeVars, put, del, get, patch, faults>>

\* A statement fails, the client leaves or the API dies.
MigrateDies(m) ==
    /\ mig[m].pc # "idle" /\ Faulty
    /\ mig' = [mig EXCEPT ![m] = Idle]
    /\ UNCHANGED <<storeVars, nodeVars, put, del, get, patch>>

-----------------------------------------------------------------------------
(* getVersion: the backend is read, then its store is asked.               *)

GetRow(o) ==
    /\ get = NoGet /\ row[o] = "live"
    /\ get' = [obj |-> o, backend |-> backend[o]]
    /\ UNCHANGED <<storeVars, nodeVars, put, del, mig, patch, faults>>

\* Mutant: the store in use for new objects is asked, not the object's own.
FoundCurrent(o, b) == IF Targets = {} THEN o \in local ELSE rep[o] \cap up # {}

Found(o, b) == IF b = "local" THEN o \in local ELSE rep[o] \cap up # {}

\* The answer: the bytes, or the error of the store.
GetBlob(found) ==
    /\ get # NoGet /\ found = Found(get.obj, get.backend)
    /\ get' = NoGet
    /\ UNCHANGED <<storeVars, nodeVars, put, del, mig, patch, faults>>

-----------------------------------------------------------------------------
(* Nodes and operators.                                                    *)

NodeDown(n) ==
    /\ n \in up /\ Faulty
    /\ up' = up \ {n}
    /\ UNCHANGED <<storeVars, active, healthy, put, del, mig, get, patch>>

NodeUp(n) ==
    /\ n \notin up
    /\ up' = up \cup {n}
    /\ UNCHANGED <<storeVars, active, healthy, put, del, mig, get, patch, faults>>

\* The status column follows the nodes.
RefreshConfiguredNodes ==
    /\ healthy # up
    /\ healthy' = up
    /\ UNCHANGED <<storeVars, active, up, put, del, mig, get, patch, faults>>

\* The PATCHes under way meet another one.
Met == [n \in Nodes |-> IF patch[n] = NoPatch THEN NoPatch ELSE [patch[n] EXCEPT !.met = TRUE]]

\* PATCH of a node that is to serve.
Activate(n) ==
    /\ n \notin active
    /\ active' = active \cup {n}
    /\ patch' = Met
    /\ UNCHANGED <<storeVars, healthy, up, put, del, mig, get, faults>>

\* Mutant: the last node is not counted.
shouldBlockNodeStateChangeOffByOne(n) == n \in Serving /\ Cardinality(Serving) < 1

shouldBlockNodeStateChange(n) == n \in Serving /\ Cardinality(Serving) <= 1

\* PATCH of a node that is to leave (bound: one per node at a time): the guard
\* decides by the nodes it read ...
LeaveCheck(n) ==
    /\ patch[n] = NoPatch
    /\ patch' = [Met EXCEPT ![n] = [why |-> IF shouldBlockNodeStateChange(n) THEN "last" ELSE "spare",
                                   met |-> \E k \in Nodes : patch[k] # NoPatch]]
    /\ UNCHANGED <<storeVars, nodeVars, put, del, mig, get, faults>>

\* ... asks for the last one whether objects are pending, and refuses if so ...
LeavePending(n) ==
    /\ patch[n].why = "last"
    /\ patch' = [patch EXCEPT ![n] = IF Pending = {} THEN [@ EXCEPT !.why = "empty"] ELSE NoPatch]
    /\ UNCHANGED <<storeVars, nodeVars, put, del, mig, get, faults>>

\* ... and the update.
LeaveApply(n) ==
    /\ patch[n].why \in {"spare", "empty"}
    /\ active' = active \ {n}
    /\ patch' = [patch EXCEPT ![n] = NoPatch]
    /\ UNCHANGED <<storeVars, healthy, up, put, del, mig, get, faults>>

\* A query of it fails.
LeaveFails(n) ==
    /\ patch[n] # NoPatch
    /\ patch' = [patch EXCEPT ![n] = NoPatch]
    /\ UNCHANGED <<storeVars, nodeVars, put, del, mig, get, faults>>

-----------------------------------------------------------------------------
MigrateStep(m) ==
    \/ \E o \in Objects : MigrateRead(m, o)
    \/ MigrateCopy(m) \/ MigrateCopyFails(m) \/ MigrateSwitch(m) \/ MigrateUnlink(m)

Next ==
    \/ \E o \in Objects : PutBlob(o) \/ PutFails(o) \/ PutCommit(o)
    \/ \E o \in Used : DeleteRead(o) \/ DeleteRow(o) \/ DeleteBlob(o)
    \/ \E m \in Migrators : MigrateStart(m) \/ MigrateStep(m) \/ MigrateDies(m)
    \/ \E o \in Used : GetRow(o)
    \/ \E found \in BOOLEAN : GetBlob(found)
    \/ \E n \in Nodes : NodeDown(n) \/ NodeUp(n)
    \/ RefreshConfiguredNodes
    \/ \E n \in Nodes : Activate(n) \/ LeaveCheck(n) \/ LeavePending(n) \/ LeaveApply(n) \/ LeaveFails(n)

Spec == Init /\ [][Next]_vars

\* Operators repeat the migration until nothing is pending; requests under way go
\* on; nodes come back.
Fairness ==
    /\ \A m \in Migrators : SF_vars(MigrateStart(m)) /\ WF_vars(MigrateStep(m))
    /\ \A n \in Nodes : WF_vars(NodeUp(n))

FairSpec == Spec /\ Fairness

-----------------------------------------------------------------------------
\* Types of the table, the stores, the nodes and the requests.
TypeOK ==
    /\ row \in [Objects -> {"none", "live", "gone"}]
    /\ backend \in [Objects -> {"none", "local", "distributed"}]
    /\ local \in SUBSET Objects
    /\ rep \in [Objects -> SUBSET Nodes]
    /\ active \in SUBSET Nodes /\ healthy \in SUBSET Nodes /\ up \in SUBSET Nodes
    /\ put \in [Objects -> {"idle", "local", "distributed", "over"}]
    /\ del \in [Objects -> {"idle", "local", "distributed", "over"}]
    /\ mig \in [Migrators -> [pc: {"idle", "next", "copy", "switch", "unlink"},
                              todo: SUBSET Objects, cur: Objects \cup {0}, targets: SUBSET Nodes]]
    /\ get \in [obj: Objects \cup {0}, backend: {"none", "local", "distributed"}]
    /\ patch \in [Nodes -> Patches]
    /\ faults \in 0..MaxFaults

\* The store that the row names has the bytes.
Served(o) == IF backend[o] = "local" THEN o \in local ELSE rep[o] # {}

\* What clients see of an object.
Visible(o) ==
    CASE row[o] = "none" -> "absent"
      [] row[o] = "gone" -> "deleted"
      [] OTHER           -> IF Served(o) THEN "readable" ELSE "lost"

Client == INSTANCE Versions WITH state <- [o \in Objects |-> Visible(o)]

\* Migration implements Versions: no interleaving of Puts, deletions, failed,
\* repeated and interrupted migrations and operators makes a live version
\* unreadable or brings a deleted one back, as long as migrations do not overlap:
\* the rollback of a second one would delete the replicas of the first.
VersionsKept == Client!Spec

\* A Get of a version that is live when it ends fails only because the backend
\* was switched between its two queries, or because the nodes with the replicas
\* are down: a Get repeated after the migration finds the version.
GetFailsOnlyAcrossSwitch ==
    [][GetBlob(FALSE) /\ row[get.obj] = "live" =>
            \/ get.backend # backend[get.obj]
            \/ get.backend = "distributed" /\ rep[get.obj] # {}]_vars

\* As long as nothing has failed, a PATCH that overlaps no other takes the last
\* healthy active node away from objects that wait for their migration only if its
\* guard saw none pending: they were put in between.  PATCHes that overlap are
\* excepted: nothing is locked between guard and update, so each of two may have
\* counted the other's node.
LastNodeStays ==
    [][Pending # {} /\ Serving # {} /\ Serving' = {} =>
            \/ faults > 0
            \/ \E n \in Nodes : LeaveApply(n) /\ (patch[n].why = "empty" \/ patch[n].met)]_vars

\* Repeating the migration empties the local store of live objects, whatever
\* fails on the way, as long as operators leave an active node in service.
MigrationDrains == ([]<>(Pending = {})) \/ ([]<>(active = {}))
=============================================================================
