-------------------------- MODULE MigrationProofs --------------------------
(***************************************************************************)
(* Migration implements Versions, for any number of objects, nodes,        *)
(* replicas, candidates and faults, as long as migrations do not overlap   *)
(* in time; and what Gets and the guard on the last node promise.          *)
(***************************************************************************)
EXTENDS Migration, FiniteSetTheorems, TLAPS

-----------------------------------------------------------------------------
(* The inductive invariant.                                                *)

MigrationRequest ==
    [pc: {"idle", "next", "copy", "switch", "unlink"},
     todo: SUBSET Objects, cur: Objects \cup {0}, targets: SUBSET Nodes]

\* At most one migration request is under way.  Nothing in the code sees to it:
\* the theorems that need it have it as a hypothesis.
Alone == \A m, n \in Migrators : mig[m].pc # "idle" /\ mig[n].pc # "idle" => m = n

\* An object has no row before its Put commits, and the Put that has written
\* the bytes finds them again when it does.
PutInv ==
    \A o \in Objects :
        /\ put[o] # "over" => row[o] = "none"
        /\ put[o] = "local" => o \in local
        /\ put[o] = "distributed" => rep[o] # {}

\* A live version is in the store that its row names.
LiveInv == \A o \in Objects : row[o] = "live" => backend[o] # "none" /\ Served(o)

\* An object that a migration has still to switch is deleted or in the local store.
ToSwitch(o) == row[o] # "none" /\ (row[o] = "live" => backend[o] = "local")

\* Where a migration is with its objects.
MigInv ==
    \A m \in Migrators :
        /\ \A o \in mig[m].todo : ToSwitch(o)
        /\ mig[m].pc \in {"copy", "switch", "unlink"} => mig[m].cur \in Objects \ mig[m].todo
        /\ mig[m].pc = "copy" => ToSwitch(mig[m].cur) /\ mig[m].targets # {}
        /\ mig[m].pc = "switch" => /\ ToSwitch(mig[m].cur)
                                   /\ row[mig[m].cur] = "live" => rep[mig[m].cur] # {}
        /\ mig[m].pc = "unlink" => /\ row[mig[m].cur] # "none"
                                   /\ row[mig[m].cur] = "live" => backend[mig[m].cur] = "distributed"

\* A migration that is not under way has nothing to do.
IdleInv == \A m \in Migrators : mig[m].pc = "idle" => mig[m] = Idle

\* A Get under way is about an object.
GetInv == get # NoGet => get.obj \in Objects

IInv == TypeOK /\ PutInv /\ LiveInv /\ MigInv /\ IdleInv /\ GetInv

\* The guard on the last node.  Until something fails every node is healthy, PATCHes
\* that are under way together have met, and so a node that leaves because there were
\* others, alone, leaves one of them behind.
GuardInv ==
    /\ active \subseteq Nodes /\ faults \in Nat
    /\ patch \in [Nodes -> Patches]
    /\ faults = 0 => healthy = Nodes /\ up = Nodes
    /\ \A n, k \in Nodes : n # k /\ patch[n] # NoPatch /\ patch[k] # NoPatch => patch[n].met
    /\ \A n \in Nodes : patch[n].why = "spare" /\ ~patch[n].met /\ faults = 0 => active # {n}

-----------------------------------------------------------------------------
(* Types.                                                                  *)

\* The queries return nodes and objects, and a migration only takes pending objects.
LEMMA QueryTypes ==
    ASSUME TypeOK
    PROVE  Targets \subseteq Nodes /\ Candidates \subseteq Objects /\ Candidates \subseteq Pending
  BY DEF TypeOK, Targets, Candidates, First, Pending

\* No PATCH is one of the PATCHes, and one may have met another.
LEMMA PatchValues ==
    /\ NoPatch \in Patches /\ NoPatch.why = "none"
    /\ \A p \in Patches : [p EXCEPT !.met = TRUE] \in Patches
    /\ \A p \in Patches : [p EXCEPT !.why = "empty"] \in Patches
    /\ \A w \in {"last", "spare"}, b \in BOOLEAN : [why |-> w, met |-> b] \in Patches
  BY DEF NoPatch, Patches

\* What meeting another PATCH changes.
LEMMA MetValues ==
    ASSUME patch \in [Nodes -> Patches], NEW k \in Nodes
    PROVE  /\ patch[k] = NoPatch => Met[k] = NoPatch
           /\ patch[k] # NoPatch => Met[k] # NoPatch /\ Met[k].met
  <1>1. patch[k] \in Patches
    OBVIOUS
  <1>2. CASE patch[k] = NoPatch
    BY <1>2 DEF Met
  <1>3. CASE patch[k] # NoPatch
    <2>1. Met[k] = [patch[k] EXCEPT !.met = TRUE]
      BY <1>3 DEF Met
    <2>2. Met[k].met
      BY <1>1, <2>1 DEF Patches
    <2> QED
      BY <1>3, <2>2 DEF NoPatch
  <1> QED
    BY <1>2, <1>3

\* The steps of the PATCHes keep their type.
LEMMA PatchTypes ==
    ASSUME patch \in [Nodes -> Patches], NEW n \in Nodes,
           \/ Activate(n) \/ LeaveCheck(n) \/ LeavePending(n) \/ LeaveApply(n) \/ LeaveFails(n)
    PROVE  patch' \in [Nodes -> Patches]
  <1>1. Met \in [Nodes -> Patches]
    BY PatchValues DEF Met
  <1>2. CASE Activate(n)
    BY <1>1, <1>2 DEF Activate
  <1>3. CASE LeaveCheck(n)
    <2> DEFINE w == IF shouldBlockNodeStateChange(n) THEN "last" ELSE "spare"
               b == \E k \in Nodes : patch[k] # NoPatch
    <2>1. patch' = [Met EXCEPT ![n] = [why |-> w, met |-> b]]
      BY <1>3 DEF LeaveCheck
    <2>2. [why |-> w, met |-> b] \in Patches
      BY PatchValues
    <2> QED
      BY <1>1, <2>1, <2>2
  <1>4. CASE LeavePending(n)
    BY <1>4, PatchValues DEF LeavePending
  <1>5. CASE LeaveApply(n) \/ LeaveFails(n)
    BY <1>5, PatchValues DEF LeaveApply, LeaveFails
  <1> QED
    BY <1>2, <1>3, <1>4, <1>5

\* The initial state has the types.
LEMMA InitType == Init => TypeOK
  BY MigrationFaultsAssumption, PatchValues DEF Init, TypeOK, Idle, NoGet

\* Every action keeps the types.
LEMMA StepType ==
    ASSUME TypeOK, LiveInv, Next
    PROVE  TypeOK'
  <1> USE DEF TypeOK, storeVars, nodeVars
  <1>1. ASSUME NEW o \in Objects, PutBlob(o) \/ PutFails(o)
        PROVE  TypeOK'
    BY <1>1, QueryTypes DEF PutBlob, PutFails, Copied, RolledBack
  <1>2. ASSUME NEW o \in Objects, PutCommit(o) \/ DeleteRead(o) \/ DeleteRow(o) \/ DeleteBlob(o)
        PROVE  TypeOK'
    <2>1. CASE PutCommit(o)
      BY <2>1 DEF PutCommit
    <2>2. CASE DeleteRead(o)
      BY <2>2 DEF DeleteRead, LiveInv
    <2>3. CASE DeleteRow(o) \/ DeleteBlob(o)
      BY <2>3 DEF DeleteRow, DeleteBlob
    <2> QED
      BY <1>2, <2>1, <2>2, <2>3
  <1>3. ASSUME NEW m \in Migrators, MigrateStart(m)
        PROVE  TypeOK'
    BY <1>3, QueryTypes DEF MigrateStart, Idle
  <1>4. ASSUME NEW m \in Migrators, NEW o \in Objects, MigrateRead(m, o)
        PROVE  TypeOK'
    BY <1>4, QueryTypes DEF MigrateRead, Idle
  <1>5. ASSUME NEW m \in Migrators, MigrateCopy(m) \/ MigrateCopyFails(m)
        PROVE  TypeOK'
    <2>1. CASE MigrateCopy(m)
      <3>1. rep' \in [Objects -> SUBSET Nodes]
        BY <2>1 DEF MigrateCopy, Copied
      <3>2. mig[m] \in MigrationRequest
        BY DEF MigrationRequest
      <3>3. [mig[m] EXCEPT !.pc = "switch", !.targets = {}] \in MigrationRequest
        BY <3>2 DEF MigrationRequest
      <3>4. mig' = [mig EXCEPT ![m] = [mig[m] EXCEPT !.pc = "switch", !.targets = {}]]
        BY <2>1 DEF MigrateCopy
      <3>5. mig' \in [Migrators -> MigrationRequest]
        BY <3>3, <3>4 DEF MigrationRequest
      <3> QED
        BY <2>1, <3>1, <3>5 DEF MigrateCopy, MigrationRequest
    <2>2. CASE MigrateCopyFails(m)
      <3>1. rep' \in [Objects -> SUBSET Nodes]
        BY <2>2 DEF MigrateCopyFails, RolledBack
      <3>2. mig' \in [Migrators -> MigrationRequest]
        BY <2>2 DEF MigrateCopyFails, MigrationRequest, Idle
      <3> QED
        BY <2>2, <3>1, <3>2 DEF MigrateCopyFails, MigrationRequest
    <2> QED
      BY <1>5, <2>1, <2>2
  <1>6. ASSUME NEW m \in Migrators, MigrateSwitch(m) \/ MigrateUnlink(m)
        PROVE  TypeOK'
    <2>1. CASE MigrateSwitch(m)
      BY <2>1, SMTT(30) DEF MigrateSwitch, Idle
    <2>2. CASE MigrateUnlink(m)
      BY <2>2 DEF MigrateUnlink, Idle
    <2> QED
      BY <1>6, <2>1, <2>2
  <1>7. ASSUME NEW m \in Migrators, MigrateDies(m)
        PROVE  TypeOK'
    BY <1>7, MigrationFaultsAssumption DEF MigrateDies, Idle, Faulty
  <1>8. ASSUME NEW o \in Objects, GetRow(o)
        PROVE  TypeOK'
    BY <1>8 DEF GetRow
  <1>9. ASSUME NEW found \in BOOLEAN, GetBlob(found)
        PROVE  TypeOK'
    BY <1>9 DEF GetBlob, NoGet
  <1>10. ASSUME NEW n \in Nodes, NodeDown(n) \/ NodeUp(n)
         PROVE  TypeOK'
    BY <1>10, MigrationFaultsAssumption DEF NodeDown, NodeUp, Faulty
  <1>11. CASE RefreshConfiguredNodes
    BY <1>11 DEF RefreshConfiguredNodes
  <1>12. ASSUME NEW n \in Nodes, Activate(n) \/ LeaveCheck(n)
         PROVE  TypeOK'
    BY <1>12, PatchTypes DEF Activate, LeaveCheck
  <1>13. ASSUME NEW n \in Nodes, LeavePending(n) \/ LeaveApply(n) \/ LeaveFails(n)
         PROVE  TypeOK'
    BY <1>13, PatchTypes DEF LeavePending, LeaveApply, LeaveFails
  <1> QED
    BY <1>1, <1>2, <1>3, <1>4, <1>5, <1>6, <1>7, <1>8, <1>9, <1>10, <1>11, <1>12, <1>13,
       UsedAssumption
       DEF Next, MigrateStep

-----------------------------------------------------------------------------
(* Each step keeps the invariant.                                          *)

\* Initially there is no object and no migration.
LEMMA InitInv == Init => IInv
  BY InitType DEF Init, IInv, PutInv, LiveInv, MigInv, IdleInv, GetInv, Idle

\* Put stores the bytes of a version that has no row yet.
LEMMA PutBlobInvariant ==
    ASSUME IInv, TypeOK', NEW o \in Objects, PutBlob(o)
    PROVE  IInv'
  <1> USE DEF PutBlob, IInv, TypeOK, Copied
  <1>1. PutInv'
    BY DEF PutInv
  <1>2. LiveInv'
    BY DEF LiveInv, Served
  <1>3. MigInv'
    BY DEF MigInv, ToSwitch
  <1>4. IdleInv' /\ GetInv'
    BY DEF IdleInv, GetInv
  <1> QED
    BY <1>1, <1>2, <1>3, <1>4

\* A Put that cannot reach every target never gets a row.
LEMMA PutFailsInvariant ==
    ASSUME IInv, TypeOK', NEW o \in Objects, PutFails(o)
    PROVE  IInv'
  <1> USE DEF PutFails, IInv, TypeOK, RolledBack
  <1>0. row[o] = "none"
    BY DEF PutInv
  <1>1. PutInv'
    BY DEF PutInv
  <1>2. LiveInv'
    BY <1>0 DEF LiveInv, Served
  <1>3. MigInv'
    BY <1>0 DEF MigInv, ToSwitch
  <1>4. IdleInv' /\ GetInv'
    BY DEF IdleInv, GetInv
  <1> QED
    BY <1>1, <1>2, <1>3, <1>4

\* The row of a new version names the store that has its bytes.
LEMMA PutCommitInvariant ==
    ASSUME IInv, TypeOK', NEW o \in Objects, PutCommit(o)
    PROVE  IInv'
  <1> USE DEF PutCommit, IInv, TypeOK
  <1>0. row[o] = "none"
    BY DEF PutInv
  <1>1. PutInv'
    BY DEF PutInv
  <1>2. LiveInv'
    BY DEF LiveInv, Served, PutInv
  <1>3. MigInv'
    <2>1. \A q \in Objects : q # o => row'[q] = row[q] /\ backend'[q] = backend[q]
      OBVIOUS
    <2>2. \A m \in Migrators : o \notin mig[m].todo
      BY <1>0 DEF MigInv, ToSwitch
    <2>3. \A m \in Migrators : mig[m].pc \in {"copy", "switch", "unlink"} => mig[m].cur # o
      BY <1>0 DEF MigInv, ToSwitch
    <2> QED
      BY <2>1, <2>2, <2>3 DEF MigInv, ToSwitch
  <1>4. IdleInv' /\ GetInv'
    BY DEF IdleInv, GetInv
  <1> QED
    BY <1>1, <1>2, <1>3, <1>4

\* A version is deleted, perhaps while it is migrated.
LEMMA DeleteInvariant ==
    ASSUME IInv, TypeOK', NEW o \in Objects, DeleteRead(o) \/ DeleteRow(o) \/ DeleteBlob(o)
    PROVE  IInv'
  <1> USE DEF DeleteRead, DeleteRow, DeleteBlob, IInv, TypeOK, storeVars
  <1>1. PutInv'
    BY DEF PutInv
  <1>2. LiveInv'
    BY DEF LiveInv, Served
  <1>3. MigInv'
    BY DEF MigInv, ToSwitch
  <1>4. IdleInv' /\ GetInv'
    BY DEF IdleInv, GetInv
  <1> QED
    BY <1>1, <1>2, <1>3, <1>4

\* A migration takes its candidates on.
LEMMA MigrateStartInvariant ==
    ASSUME IInv, TypeOK', NEW m \in Migrators, MigrateStart(m)
    PROVE  IInv'
  <1> USE DEF MigrateStart, IInv, TypeOK, storeVars
  <1>1. PutInv' /\ LiveInv' /\ GetInv'
    BY DEF PutInv, LiveInv, Served, GetInv
  <1>2. \A o \in Candidates : ToSwitch(o)
    BY QueryTypes DEF ToSwitch, Pending
  <1>3. MigInv'
    BY <1>2 DEF MigInv, ToSwitch, Idle
  <1>4. IdleInv'
    <2>1. mig'[m].pc = "next" /\ \A n \in Migrators : n # m => mig'[n] = mig[n]
      BY DEF Idle
    <2> QED
      BY <2>1 DEF IdleInv
  <1> QED
    BY <1>1, <1>3, <1>4

\* It chooses the endpoints for the next object, or gives up.
LEMMA MigrateReadInvariant ==
    ASSUME IInv, TypeOK', NEW m \in Migrators, NEW o \in Objects, MigrateRead(m, o)
    PROVE  IInv'
  <1> USE DEF MigrateRead, IInv, TypeOK, storeVars
  <1>1. PutInv' /\ LiveInv' /\ GetInv'
    BY DEF PutInv, LiveInv, Served, GetInv
  <1>2. MigInv'
    <2>1. ToSwitch(o) /\ \A q \in mig[m].todo : ToSwitch(q)
      BY DEF MigInv
    <2>2. CASE Targets = {} \/ o \notin local
      BY <2>2 DEF MigInv, ToSwitch, Idle
    <2>3. CASE ~(Targets = {} \/ o \notin local)
      BY <2>1, <2>3 DEF MigInv, ToSwitch
    <2> QED
      BY <2>2, <2>3
  <1>3. IdleInv'
    <2>1. /\ mig'[m] = Idle \/ mig'[m].pc = "copy"
          /\ \A n \in Migrators : n # m => mig'[n] = mig[n]
      OBVIOUS
    <2> QED
      BY <2>1 DEF IdleInv
  <1> QED
    BY <1>1, <1>2, <1>3

\* It copies.  Nobody else is migrating, so what a rollback deletes is not needed.
LEMMA MigrateCopyInvariant ==
    ASSUME IInv, Alone, TypeOK', NEW m \in Migrators, MigrateCopy(m) \/ MigrateCopyFails(m)
    PROVE  IInv'
  <1> DEFINE o == mig[m].cur
  <1>0. o \in Objects /\ ToSwitch(o) /\ mig[m].targets # {} /\ mig[m].pc = "copy"
    BY DEF IInv, MigInv, MigrateCopy, MigrateCopyFails
  <1>1. /\ row[o] # "none" /\ put[o] = "over"
        /\ row[o] = "live" => backend[o] = "local" /\ o \in local
    BY <1>0 DEF ToSwitch, IInv, PutInv, LiveInv, Served
  <1>2. /\ \A q \in Objects : q # o => rep'[q] = rep[q]
        /\ UNCHANGED <<row, backend, local, put, get>>
    BY <1>0 DEF MigrateCopy, MigrateCopyFails, Copied, RolledBack, IInv, TypeOK
  <1>3. /\ \A n \in Migrators : n # m => mig'[n] = mig[n] /\ mig[n] = Idle
        /\ mig'[m] = Idle \/ /\ mig'[m] = [mig[m] EXCEPT !.pc = "switch", !.targets = {}]
                             /\ rep'[o] # {}
    <2>1. \A n \in Migrators : n # m => mig[n] = Idle
      BY <1>0 DEF Alone, IInv, IdleInv
    <2> QED
      BY <1>0, <2>1 DEF MigrateCopy, MigrateCopyFails, Copied, IInv, TypeOK
  <1>4. PutInv'
    BY <1>1, <1>2 DEF IInv, PutInv
  <1>5. LiveInv'
    BY <1>1, <1>2 DEF IInv, LiveInv, Served
  <1>6. MigInv'
    <2>1. \A n \in Migrators : mig'[n] = Idle \/ n = m
      BY <1>3
    <2>2. \A q : ToSwitch(q)' <=> ToSwitch(q)
      BY <1>2 DEF ToSwitch
    <2>3. mig[m].cur \in Objects \ mig[m].todo /\ \A q \in mig[m].todo : ToSwitch(q)
      BY <1>0 DEF IInv, MigInv
    <2>4. ASSUME NEW n \in Migrators
          PROVE  MigInv!(n)'
      <3>1. CASE mig'[n] = Idle
        BY <3>1 DEF Idle
      <3>2. CASE mig'[n] # Idle
        <4>1. /\ mig'[n].pc = "switch" /\ mig'[n].todo = mig[m].todo /\ mig'[n].cur = o
              /\ rep'[o] # {}
          <5>1. n = m /\ mig'[m] = [mig[m] EXCEPT !.pc = "switch", !.targets = {}] /\ rep'[o] # {}
            BY <1>3, <2>1, <3>2
          <5>2. mig[m] \in MigrationRequest
            BY DEF IInv, TypeOK, MigrationRequest
          <5> QED
            BY <5>1, <5>2 DEF MigrationRequest
        <4> QED
          BY <1>0, <4>1, <2>2, <2>3
      <3> QED
        BY <3>1, <3>2
    <2> QED
      BY <2>4 DEF MigInv
  <1>7. IdleInv' /\ GetInv'
    <2>1. mig[m] \in MigrationRequest
      BY DEF IInv, TypeOK, MigrationRequest
    <2> QED
      BY <1>2, <1>3, <2>1 DEF IInv, IdleInv, GetInv, MigrationRequest
  <1> QED
    BY <1>4, <1>5, <1>6, <1>7 DEF IInv

\* It switches the row, which then has replicas, or finds the object deleted.
LEMMA MigrateSwitchInvariant ==
    ASSUME IInv, Alone, TypeOK', NEW m \in Migrators, MigrateSwitch(m)
    PROVE  IInv'
  <1> DEFINE o == mig[m].cur
  <1>0. /\ o \in Objects \ mig[m].todo /\ ToSwitch(o) /\ mig[m].pc = "switch"
        /\ row[o] = "live" => rep[o] # {}
        /\ \A q \in mig[m].todo : ToSwitch(q)
        /\ mig[m].todo \subseteq Objects
    BY DEF IInv, TypeOK, MigInv, MigrateSwitch
  <1>2. /\ \A q \in Objects : q # o => backend'[q] = backend[q]
        /\ row[o] = "live" => backend'[o] = "distributed"
        /\ row[o] # "live" => backend' = backend
        /\ UNCHANGED <<row, rep, local, put, get>>
    BY <1>0 DEF MigrateSwitch, IInv, TypeOK
  <1>3. /\ \A n \in Migrators : n # m => mig'[n] = mig[n] /\ mig[n] = Idle
        /\ mig'[m] = Idle \/ /\ mig'[m] = [mig[m] EXCEPT !.pc = "unlink"]
                             /\ row[o] = "live"
    <2>1. \A n \in Migrators : n # m => mig[n] = Idle
      BY <1>0 DEF Alone, IInv, IdleInv
    <2> QED
      BY <1>0, <2>1 DEF MigrateSwitch, IInv, TypeOK
  <1>4. PutInv'
    BY <1>2 DEF IInv, PutInv
  <1>5. LiveInv'
    BY <1>0, <1>2 DEF IInv, LiveInv, Served
  <1>6. MigInv'
    <2>1. ASSUME NEW n \in Migrators
          PROVE  MigInv!(n)'
      <3>1. CASE mig'[n] = Idle
        BY <3>1 DEF Idle
      <3>2. CASE mig'[n] # Idle
        <4>1. /\ mig'[n].pc = "unlink" /\ mig'[n].todo = mig[m].todo /\ mig'[n].cur = o
              /\ row[o] = "live"
          <5>1. mig[m] \in MigrationRequest
            BY DEF IInv, TypeOK, MigrationRequest
          <5>2. n = m /\ mig'[m] = [mig[m] EXCEPT !.pc = "unlink"] /\ row[o] = "live"
            BY <1>3, <3>2
          <5> QED  BY <5>1, <5>2 DEF MigrationRequest
        <4>2. \A q \in mig[m].todo : ToSwitch(q)'
          BY <1>0, <1>2 DEF ToSwitch
        <4> QED
          BY <1>0, <1>2, <4>1, <4>2
      <3> QED
        BY <3>1, <3>2
    <2> QED
      BY <2>1 DEF MigInv
  <1>7. IdleInv' /\ GetInv'
    <2>1. mig[m] \in MigrationRequest
      BY DEF IInv, TypeOK, MigrationRequest
    <2> QED
      BY <1>2, <1>3, <2>1 DEF IInv, IdleInv, GetInv, MigrationRequest
  <1> QED
    BY <1>4, <1>5, <1>6, <1>7 DEF IInv

\* It deletes the local file, which no row needs any more.
LEMMA MigrateUnlinkInvariant ==
    ASSUME IInv, TypeOK', NEW m \in Migrators, MigrateUnlink(m)
    PROVE  IInv'
  <1> DEFINE o == mig[m].cur
  <1>0. /\ o \in Objects /\ row[o] # "none"
        /\ row[o] = "live" => backend[o] = "distributed"
    BY DEF IInv, MigInv, MigrateUnlink
  <1>1. PutInv'
    BY <1>0 DEF IInv, PutInv, MigrateUnlink
  <1>2. LiveInv'
    BY <1>0 DEF IInv, LiveInv, Served, MigrateUnlink
  <1>3. MigInv'
    BY DEF IInv, TypeOK, MigInv, ToSwitch, MigrateUnlink, Idle
  <1>4. IdleInv' /\ GetInv'
    BY ZenonT(60) DEF IInv, TypeOK, IdleInv, GetInv, MigrateUnlink, Idle
  <1> QED
    BY <1>1, <1>2, <1>3, <1>4 DEF IInv

\* A migration that dies leaves copies behind, never a row without its bytes.
LEMMA MigrateDiesInvariant ==
    ASSUME IInv, TypeOK', NEW m \in Migrators, MigrateDies(m)
    PROVE  IInv'
  <1> USE DEF MigrateDies, IInv, TypeOK, storeVars
  <1>1. PutInv' /\ LiveInv' /\ GetInv'
    BY DEF PutInv, LiveInv, Served, GetInv
  <1>2. mig'[m] = Idle /\ \A n \in Migrators : n # m => mig'[n] = mig[n]
    OBVIOUS
  <1>3. MigInv'
    BY <1>2 DEF MigInv, ToSwitch, Idle
  <1>4. IdleInv'
    BY <1>2 DEF IdleInv
  <1> QED
    BY <1>1, <1>3, <1>4

\* Nodes, operators and Gets change no object.
LEMMA OtherInvariant ==
    ASSUME IInv, TypeOK', UNCHANGED <<storeVars, put, mig>>, GetInv'
    PROVE  IInv'
  BY DEF IInv, PutInv, LiveInv, Served, MigInv, ToSwitch, IdleInv, storeVars

\* Every step keeps the inductive invariant while migrations do not overlap.
LEMMA StepInv == IInv /\ Alone /\ [Next]_vars => IInv'
  <1> SUFFICES ASSUME IInv, Alone, [Next]_vars PROVE IInv'
    OBVIOUS
  <1>1. CASE UNCHANGED vars
    <2>1. TypeOK'
      BY <1>1 DEF IInv, TypeOK, vars, storeVars, nodeVars
    <2> QED
      BY <1>1, <2>1, OtherInvariant DEF vars, IInv, GetInv
  <1>2. CASE Next
    <2>0. TypeOK'
      BY <1>2, StepType DEF IInv
    <2>1. ASSUME NEW o \in Objects, GetRow(o)
          PROVE  IInv'
      BY <2>0, <2>1, OtherInvariant DEF GetRow, GetInv
    <2>2. ASSUME NEW found \in BOOLEAN, GetBlob(found)
          PROVE  IInv'
      BY <2>0, <2>2, OtherInvariant DEF GetBlob, GetInv
    <2>3. ASSUME \/ \E n \in Nodes :
                       \/ NodeDown(n) \/ NodeUp(n) \/ Activate(n) \/ LeaveCheck(n)
                       \/ LeavePending(n) \/ LeaveApply(n) \/ LeaveFails(n)
                 \/ RefreshConfiguredNodes
          PROVE  IInv'
      <3>1. UNCHANGED <<storeVars, put, mig, get>>
        BY <2>3 DEF NodeDown, NodeUp, Activate, LeaveCheck, LeavePending, LeaveApply, LeaveFails,
               RefreshConfiguredNodes
      <3> QED
        BY <2>0, <3>1, OtherInvariant DEF IInv, GetInv
    <2> QED
      BY <1>2, <2>0, <2>1, <2>2, <2>3, PutBlobInvariant, PutFailsInvariant, PutCommitInvariant,
         DeleteInvariant, MigrateStartInvariant, MigrateReadInvariant, MigrateCopyInvariant,
         MigrateSwitchInvariant, MigrateUnlinkInvariant, MigrateDiesInvariant,
         UsedAssumption
         DEF Next, MigrateStep
  <1> QED
    BY <1>1, <1>2

-----------------------------------------------------------------------------
(* The refinement.                                                         *)

\* What clients see of a version whose row has status st, if it is not lost.
View(st) == CASE st = "none" -> "absent" [] st = "gone" -> "deleted" [] OTHER -> "readable"

\* Under the invariant what clients see is decided by the row, before and after a step.
LEMMA ViewByRow ==
    ASSUME IInv, IInv', NEW o \in Objects
    PROVE  Visible(o) = View(row[o]) /\ Visible(o)' = View(row'[o])
  <1>1. Visible(o) = View(row[o])
    <2>1. row[o] \in {"none", "live", "gone"} /\ (row[o] = "live" => Served(o))
      BY DEF IInv, TypeOK, LiveInv
    <2> QED
      BY <2>1 DEF Visible, View
  <1>2. Visible(o)' = View(row'[o])
    <2>1. row'[o] \in {"none", "live", "gone"} /\ (row'[o] = "live" => Served(o)')
      BY DEF IInv, TypeOK, LiveInv
    <2> QED
      BY <2>1 DEF Visible, View
  <1> QED
    BY <1>1, <1>2

\* Only the commit of a Put and the DELETE of a version change a row.
LEMMA RowChanges ==
    ASSUME Next
    PROVE  \/ row' = row
           \/ \E o \in Objects : PutCommit(o) \/ DeleteRow(o)
  BY UsedAssumption
     DEF Next, MigrateStep, PutBlob, PutFails, DeleteRead, DeleteBlob, MigrateStart, MigrateRead,
         MigrateCopy, MigrateCopyFails, MigrateSwitch, MigrateUnlink, MigrateDies, GetRow, GetBlob,
         NodeDown, NodeUp, RefreshConfiguredNodes, Activate, LeaveCheck, LeavePending, LeaveApply,
         LeaveFails, storeVars

\* Every step is a step of Versions or leaves what clients see as it is.
LEMMA StepRefines ==
    ASSUME IInv, IInv', [Next]_vars
    PROVE  [Client!Next]_([o \in Objects |-> Visible(o)])
  <1> DEFINE view == [o \in Objects |-> Visible(o)]
  <1>1. CASE row' = row
    <2>1. \A o \in Objects : Visible(o)' = Visible(o)
      BY <1>1, ViewByRow
    <2> QED
      BY <2>1
  <1>2. ASSUME NEW o \in Objects, PutCommit(o)
        PROVE  Client!Store(o)
    <2>1. row[o] = "none" /\ row' = [row EXCEPT ![o] = "live"]
      BY <1>2 DEF PutCommit, IInv, PutInv
    <2>2. Visible(o) = "absent" /\ Visible(o)' = "readable"
      BY <2>1, ViewByRow DEF IInv, TypeOK, View
    <2>3. \A q \in Objects : q # o => Visible(q)' = Visible(q)
      BY <2>1, ViewByRow DEF IInv, TypeOK, View
    <2> QED
      BY <2>2, <2>3 DEF Client!Store
  <1>3. ASSUME NEW o \in Objects, DeleteRow(o)
        PROVE  Client!Remove(o)
    <2>1. row[o] = "live" /\ row' = [row EXCEPT ![o] = "gone"]
      BY <1>3 DEF DeleteRow
    <2>2. Visible(o) = "readable" /\ Visible(o)' = "deleted"
      BY <2>1, ViewByRow DEF IInv, TypeOK, View
    <2>3. \A q \in Objects : q # o => Visible(q)' = Visible(q)
      BY <2>1, ViewByRow DEF IInv, TypeOK, View
    <2> QED
      BY <2>2, <2>3 DEF Client!Remove
  <1> QED
    BY <1>1, <1>2, <1>3, RowChanges DEF Client!Next, vars, storeVars

\* Before any Put clients see nothing.
LEMMA InitRefines == Init => Client!Init
  BY DEF Init, Client!Init, Visible

-----------------------------------------------------------------------------
(* The theorems.                                                           *)

\* Rows, stores and migrations are related as IInv says in every reachable state of
\* Put, DeleteVersion and MigrateLocalObjectsToDistributed, if migrations do not overlap.
THEOREM Invariance == Spec /\ []Alone => []IInv
  BY InitInv, StepInv, PTL DEF Spec

\* Migrations that do not overlap implement Versions: a version is readable from the commit
\* of its Put to its deletion wherever its bytes are, and does not come back, whatever
\* nodes, operators, failed copies and interrupted migrations do.
THEOREM MigrationImplementsVersions == Spec /\ []Alone => VersionsKept
  <1>1. IInv /\ IInv' /\ [Next]_vars => [Client!Next]_([o \in Objects |-> Visible(o)])
    BY StepRefines
  <1> QED
    BY <1>1, InitRefines, Invariance, PTL DEF Spec, VersionsKept, Client!Spec

\* A Get of a live version fails only when the migration switched its backend between the
\* two queries of getVersion, or when the nodes with its replicas are down.
THEOREM GetsFailOnlyAcrossSwitch == Spec /\ []Alone => GetFailsOnlyAcrossSwitch
  <1>1. ASSUME IInv, GetBlob(FALSE), row[get.obj] = "live"
        PROVE  get.backend # backend[get.obj] \/ (get.backend = "distributed" /\ rep[get.obj] # {})
    <2> SUFFICES ASSUME get.backend = backend[get.obj]
                 PROVE  get.backend = "distributed" /\ rep[get.obj] # {}
      OBVIOUS
    <2>1. get.obj \in Objects
      BY <1>1 DEF GetBlob, IInv, GetInv
    <2>2. backend[get.obj] \in {"local", "distributed"} /\ Served(get.obj)
      BY <1>1, <2>1 DEF IInv, TypeOK, LiveInv
    <2>3. ~Found(get.obj, get.backend)
      BY <1>1 DEF GetBlob
    <2> QED
      BY <2>2, <2>3 DEF Found, Served
  <1>2. IInv /\ [Next]_vars =>
          [GetBlob(FALSE) /\ row[get.obj] = "live" =>
            \/ get.backend # backend[get.obj]
            \/ get.backend = "distributed" /\ rep[get.obj] # {}]_vars
    BY <1>1
  <1> QED
    BY <1>2, Invariance, PTL DEF Spec, GetFailsOnlyAcrossSwitch

-----------------------------------------------------------------------------
(* The guard on the last node.                                             *)

\* Initially every node is healthy and none is leaving.
LEMMA GuardInit == Init => GuardInv
  BY PatchValues DEF Init, GuardInv

\* A PATCH begins: the nodes that it read have another one in service, or it is the last.
LEMMA LeaveCheckGuard ==
    ASSUME GuardInv, NEW n \in Nodes, LeaveCheck(n)
    PROVE  GuardInv'
  <1>1. ASSUME faults = 0, ~shouldBlockNodeStateChange(n), active = {n}
        PROVE  FALSE
    <2>1. Serving = {n} /\ n \in Serving
      BY <1>1 DEF Serving, GuardInv
    <2>2. Cardinality(Serving) <= 1
      BY <2>1, FS_Singleton
    <2> QED
      BY <1>1, <2>1, <2>2 DEF shouldBlockNodeStateChange
  <1>2. patch' \in [Nodes -> Patches]
    BY PatchTypes DEF GuardInv
  <1>3. /\ patch'[n].why = "spare" => ~shouldBlockNodeStateChange(n)
        /\ (\E k \in Nodes : patch[k] # NoPatch) => patch'[n].met
        /\ \A k \in Nodes : k # n => patch'[k] = Met[k]
    <2> DEFINE w == IF shouldBlockNodeStateChange(n) THEN "last" ELSE "spare"
               b == \E k \in Nodes : patch[k] # NoPatch
    <2>1. Met \in [Nodes -> Patches]
      BY PatchValues DEF Met, GuardInv
    <2>2. patch' = [Met EXCEPT ![n] = [why |-> w, met |-> b]]
      BY DEF LeaveCheck
    <2> QED
      BY <2>1, <2>2
  <1>4. ASSUME NEW i \in Nodes, NEW k \in Nodes, i # k, patch'[i] # NoPatch, patch'[k] # NoPatch
        PROVE  patch'[i].met
    <2>1. patch \in [Nodes -> Patches]
      BY DEF GuardInv
    <2>2. CASE i = n
      BY <1>3, <1>4, <2>1, <2>2, MetValues
    <2>3. CASE i # n
      BY <1>3, <1>4, <2>1, <2>3, MetValues
    <2> QED
      BY <2>2, <2>3
  <1>5. ASSUME NEW k \in Nodes, patch'[k].why = "spare", ~patch'[k].met, faults = 0
        PROVE  active # {k}
    <2>1. patch \in [Nodes -> Patches]
      BY DEF GuardInv
    <2>2. k = n
      BY <1>3, <1>5, <2>1, MetValues, PatchValues
    <2> QED
      BY <1>1, <1>3, <1>5, <2>2
  <1> QED
    BY <1>2, <1>4, <1>5 DEF LeaveCheck, nodeVars, GuardInv

\* A node is put in service: the PATCHes under way have met that one.
LEMMA ActivateGuard ==
    ASSUME GuardInv, NEW n \in Nodes, Activate(n)
    PROVE  GuardInv'
  <1>1. patch' \in [Nodes -> Patches]
    BY PatchTypes DEF GuardInv
  <1>2. ASSUME NEW k \in Nodes, patch'[k] # NoPatch
        PROVE  patch'[k].met
    BY <1>2 DEF Activate, Met, GuardInv
  <1>3. ASSUME NEW k \in Nodes, patch'[k].why = "spare"
        PROVE  patch'[k] # NoPatch
    BY <1>3 DEF NoPatch
  <1> QED
    BY <1>1, <1>2, <1>3 DEF Activate, GuardInv

\* A PATCH goes on or ends: one that is alone stays alone, and no other takes a node away.
LEMMA LeaveGuard ==
    ASSUME GuardInv, NEW n \in Nodes, LeavePending(n) \/ LeaveApply(n) \/ LeaveFails(n)
    PROVE  GuardInv'
  <1>1. patch' \in [Nodes -> Patches]
    BY PatchTypes DEF GuardInv
  <1>2. ASSUME NEW k \in Nodes
        PROVE  /\ patch'[k] # NoPatch => patch[k] # NoPatch
               /\ patch'[k].met = patch[k].met \/ patch'[k] = NoPatch
               /\ patch'[k].why = "spare" => patch'[k] = patch[k] /\ k # n
    <2>1. patch \in [Nodes -> Patches]
      BY DEF GuardInv
    <2>2. patch'[n] = NoPatch \/ patch'[n] = [patch[n] EXCEPT !.why = "empty"]
      BY <2>1 DEF LeavePending, LeaveApply, LeaveFails
    <2>3. patch[n] # NoPatch
      BY PatchValues DEF LeavePending, LeaveApply, LeaveFails
    <2>4. k # n => patch'[k] = patch[k]
      BY <1>2, <2>1 DEF LeavePending, LeaveApply, LeaveFails
    <2>5. patch[n] \in Patches
      BY <2>1
    <2>6. CASE k = n /\ patch'[n] = [patch[n] EXCEPT !.why = "empty"]
      BY <2>3, <2>5, <2>6 DEF Patches
    <2> QED
      BY <2>2, <2>3, <2>4, <2>6, PatchValues
  <1>3. ASSUME NEW i \in Nodes, NEW k \in Nodes, i # k, patch'[i] # NoPatch, patch'[k] # NoPatch
        PROVE  patch'[i].met
    BY <1>2, <1>3 DEF GuardInv
  <1>4. ASSUME NEW k \in Nodes, patch'[k].why = "spare", ~patch'[k].met, faults = 0
        PROVE  active' # {k}
    <2>1. k # n /\ patch[k].why = "spare" /\ ~patch[k].met
      BY <1>2, <1>4
    <2>2. patch[n] = NoPatch
      BY <2>1 DEF GuardInv, NoPatch
    <2> QED
      BY <2>2 DEF LeavePending, LeaveApply, LeaveFails, NoPatch
  <1>5. UNCHANGED <<healthy, up, faults>> /\ active' \subseteq Nodes
    BY DEF LeavePending, LeaveApply, LeaveFails, nodeVars, GuardInv
  <1> QED
    BY <1>1, <1>3, <1>4, <1>5 DEF GuardInv

\* What the guard of a PATCH that is alone has seen stays true until its update.
LEMMA GuardStep == GuardInv /\ [Next]_vars => GuardInv'
  <1> SUFFICES ASSUME GuardInv, [Next]_vars PROVE GuardInv'
    OBVIOUS
  <1>1. ASSUME UNCHANGED <<nodeVars, patch>>, faults' \in {faults, faults + 1}
        PROVE  GuardInv'
    BY <1>1 DEF GuardInv, nodeVars
  <1>2. ASSUME NEW n \in Nodes, NodeDown(n) \/ NodeUp(n)
        PROVE  GuardInv'
    BY <1>2 DEF GuardInv, NodeDown, NodeUp, Faulty
  <1>3. CASE RefreshConfiguredNodes
    BY <1>3 DEF GuardInv, RefreshConfiguredNodes
  <1>4. ASSUME Next
        PROVE  \/ UNCHANGED <<nodeVars, patch>> /\ faults' \in {faults, faults + 1}
               \/ \E n \in Nodes :
                     \/ NodeDown(n) \/ NodeUp(n) \/ Activate(n) \/ LeaveCheck(n)
                     \/ LeavePending(n) \/ LeaveApply(n) \/ LeaveFails(n)
               \/ RefreshConfiguredNodes
    BY <1>4
       DEF Next, MigrateStep, PutBlob, PutFails, PutCommit, DeleteRead, DeleteRow, DeleteBlob,
           MigrateStart, MigrateRead, MigrateCopy, MigrateCopyFails, MigrateSwitch, MigrateUnlink,
           MigrateDies, GetRow, GetBlob, Faulty
  <1>5. CASE UNCHANGED vars
    BY <1>1, <1>5 DEF vars
  <1> QED
    BY <1>1, <1>2, <1>3, <1>4, <1>5, LeaveCheckGuard, ActivateGuard, LeaveGuard

\* Until a node or a statement fails, no PATCH that overlaps no other and whose guard saw
\* pending objects takes the last serving node away from them
\* (shouldBlockNodeStateChange), whatever clients and migrations do between the guard and
\* the update.
THEOREM LastNodeIsKept == Spec => LastNodeStays
  <1>1. ASSUME GuardInv, [Next]_vars, Pending # {}, Serving # {}, Serving' = {}
        PROVE  \/ faults > 0
               \/ \E n \in Nodes : LeaveApply(n) /\ (patch[n].why = "empty" \/ patch[n].met)
    <2> SUFFICES ASSUME faults = 0
                 PROVE  \E n \in Nodes : LeaveApply(n) /\ (patch[n].why = "empty" \/ patch[n].met)
      BY <1>1 DEF GuardInv
    <2>1. Serving = active
      BY <1>1 DEF Serving, GuardInv
    <2>2. ASSUME NEW n \in Nodes, LeaveApply(n)
          PROVE  patch[n].why = "empty" \/ patch[n].met
      <3>1. active' = active \ {n} /\ healthy' = Nodes
        BY <1>1, <2>2 DEF LeaveApply, GuardInv
      <3>2. active = {n}
        BY <1>1, <2>1, <3>1 DEF Serving, GuardInv
      <3> QED
        BY <1>1, <2>2, <3>2 DEF LeaveApply, GuardInv
    <2>3. ASSUME active \subseteq active', healthy' = healthy \/ healthy' = up
          PROVE  FALSE
      BY <1>1, <2>1, <2>3 DEF Serving, GuardInv
    <2>4. \/ \E n \in Nodes : LeaveApply(n)
          \/ active \subseteq active' /\ (healthy' = healthy \/ healthy' = up)
      BY <1>1
         DEF Next, MigrateStep, PutBlob, PutFails, PutCommit, DeleteRead, DeleteRow, DeleteBlob,
             MigrateStart, MigrateRead, MigrateCopy, MigrateCopyFails, MigrateSwitch, MigrateUnlink,
             MigrateDies, GetRow, GetBlob, NodeDown, NodeUp, RefreshConfiguredNodes, Activate,
             LeaveCheck, LeavePending, LeaveFails, vars, nodeVars
    <2> QED
      BY <2>2, <2>3, <2>4
  <1>2. GuardInv /\ [Next]_vars =>
          [Pending # {} /\ Serving # {} /\ Serving' = {} =>
            \/ faults > 0
            \/ \E n \in Nodes : LeaveApply(n) /\ (patch[n].why = "empty" \/ patch[n].met)]_vars
    BY <1>1
  <1> QED
    BY <1>2, GuardInit, GuardStep, PTL DEF Spec, LastNodeStays
=============================================================================
