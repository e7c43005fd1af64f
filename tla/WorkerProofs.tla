---------------------------- MODULE WorkerProofs ----------------------------
(***************************************************************************)
(* The worker process: its job queue and what its jobs do to the           *)
(* placements.                                                             *)
(*                                                                         *)
(* JobQueue, for any number of workers, jobs and faults and with or        *)
(* without overload: no job runs twice at once and every run is recorded,  *)
(* unless a run has outlasted staleAfter.                                  *)
(*                                                                         *)
(* Placement, for any numbers of nodes, objects and failures and any       *)
(* replica targets: a stored object has a replica as long as one node that *)
(* is always a target keeps what it holds.                                 *)
(***************************************************************************)
EXTENDS JobQueue, Placement, FiniteSetTheorems, WellFoundedInduction, TLAPS

-----------------------------------------------------------------------------
(* The inductive invariant.                                                *)

\* A worker holds a job exactly while it runs it.
HoldInv == \A w \in Workers : pc[w] = "run" <=> cur[w] # None

\* Only what is marked as running goes stale.
StaleInv == \A j \in stale : status[j] = "running"

\* A job is in the order once at most.
QueueInv == \A i, k \in DOMAIN dueq : dueq[i] = dueq[k] => i = k

IInv ==
    /\ TypeOK
    /\ HoldInv /\ StaleInv /\ QueueInv
    /\ NoOverlap /\ RunsAreRecorded

-----------------------------------------------------------------------------
(* The order of the due jobs.                                              *)

\* What is due is what stands at some place of the order.
LEMMA DueElements ==
    ASSUME TypeOK, NEW j
    PROVE  j \in Due <=> \E i \in DOMAIN dueq : dueq[i] = j
  BY DEF Due, Range

\* Taking one place out of a sequence moves the later elements up by one.
LEMMA RemoveAtElements ==
    ASSUME NEW S, NEW s \in Seq(S), NEW i \in DOMAIN s
    PROVE  /\ RemoveAt(s, i) \in Seq(S)
           /\ DOMAIN RemoveAt(s, i) = 1..(Len(s) - 1)
           /\ \A k \in 1..(Len(s) - 1) :
                RemoveAt(s, i)[k] = IF k < i THEN s[k] ELSE s[k + 1]
  <1> DEFINE a == SubSeq(s, 1, i - 1)
             b == SubSeq(s, i + 1, Len(s))
  <1>1. /\ a \in Seq(S) /\ Len(a) = i - 1
        /\ \A k \in 1..(i - 1) : a[k] = s[k]
    OBVIOUS
  <1>2. /\ b \in Seq(S) /\ Len(b) = Len(s) - i
        /\ \A k \in 1..(Len(s) - i) : b[k] = s[i + k]
    OBVIOUS
  <1>3. RemoveAt(s, i) = a \o b
    BY DEF RemoveAt
  <1>4. i \in 1..Len(s)
    OBVIOUS
  <1> HIDE DEF a, b
  <1>5. a \o b \in Seq(S) /\ Len(a \o b) = Len(s) - 1
    BY <1>1, <1>2, <1>4
  <1>6. \A k \in 1..(Len(s) - 1) : (a \o b)[k] = IF k < i THEN s[k] ELSE s[k + 1]
    <2> SUFFICES ASSUME NEW k \in 1..(Len(s) - 1)
                 PROVE  (a \o b)[k] = IF k < i THEN s[k] ELSE s[k + 1]
      OBVIOUS
    <2>1. CASE k < i
      BY <1>1, <1>2, <1>4, <2>1
    <2>2. CASE ~(k < i)
      <3>1. k - (i - 1) \in 1..(Len(s) - i)
        BY <1>4, <2>2
      <3>2. (a \o b)[k] = b[k - (i - 1)]
        BY <1>1, <1>2, <1>4, <2>2, SMTT(30)
      <3> QED  BY <1>2, <1>4, <2>2, <3>1, <3>2, SMTT(30)
    <2> QED  BY <2>1, <2>2
  <1> QED  BY <1>3, <1>5, <1>6

\* A job whose next run has been set is not due any more, and every other job is
\* due as it was.
LEMMA PostponedElements ==
    ASSUME TypeOK, QueueInv, NEW j \in Jobs, dueq' = Postponed(j)
    PROVE  /\ dueq' \in Seq(Jobs)
           /\ QueueInv'
           /\ \A k : k \in Due' <=> k \in Due /\ k # j
  <1>1. CASE j \notin Due
    BY <1>1 DEF Postponed, TypeOK, QueueInv, Due
  <1>2. CASE j \in Due
    <2> DEFINE i == CHOOSE x \in DOMAIN dueq : dueq[x] = j
    <2>1. i \in DOMAIN dueq /\ dueq[i] = j
      BY <1>2, DueElements
    <2>2. dueq' = RemoveAt(dueq, i)
      BY <1>2 DEF Postponed
    <2> HIDE DEF i
    <2>3. dueq \in Seq(Jobs)
      BY DEF TypeOK
    <2>4. /\ dueq' \in Seq(Jobs) /\ DOMAIN dueq' = 1..(Len(dueq) - 1)
          /\ \A k \in 1..(Len(dueq) - 1) : dueq'[k] = IF k < i THEN dueq[k] ELSE dueq[k + 1]
      BY <2>1, <2>2, <2>3, RemoveAtElements
    <2>5. DOMAIN dueq = 1..Len(dueq) /\ Len(dueq) \in Nat
      BY <2>3
    <2>6. QueueInv'
      <3> SUFFICES ASSUME NEW x \in 1..(Len(dueq) - 1), NEW y \in 1..(Len(dueq) - 1),
                          dueq'[x] = dueq'[y]
                   PROVE  x = y
        BY <2>4 DEF QueueInv
      <3>1. dueq'[x] = dueq[IF x < i THEN x ELSE x + 1] /\ dueq'[y] = dueq[IF y < i THEN y ELSE y + 1]
        BY <2>4
      <3>2. (IF x < i THEN x ELSE x + 1) \in DOMAIN dueq /\ (IF y < i THEN y ELSE y + 1) \in DOMAIN dueq
        BY <2>1, <2>5
      <3>3. (IF x < i THEN x ELSE x + 1) = (IF y < i THEN y ELSE y + 1)
        BY <3>1, <3>2 DEF QueueInv
      <3> QED  BY <3>3, <2>1, <2>5
    <2>7. ASSUME NEW k \in Due' PROVE k \in Due /\ k # j
      <3>1. PICK x \in 1..(Len(dueq) - 1) : dueq'[x] = k
        BY <2>4 DEF Due, Range
      <3> DEFINE y == IF x < i THEN x ELSE x + 1
      <3>2. y \in DOMAIN dueq /\ y # i /\ dueq[y] = k
        BY <3>1, <2>1, <2>4, <2>5
      <3> HIDE DEF y
      <3> QED  BY <3>2, <2>1, DueElements DEF QueueInv
    <2>8. ASSUME NEW k \in Due, k # j PROVE k \in Due'
      <3>1. PICK y \in DOMAIN dueq : dueq[y] = k
        BY DueElements
      <3>2. y # i
        BY <3>1, <2>1, <2>8
      <3> DEFINE x == IF y < i THEN y ELSE y - 1
      <3>3. x \in 1..(Len(dueq) - 1) /\ dueq'[x] = k
        BY <3>1, <3>2, <2>1, <2>4, <2>5
      <3> HIDE DEF x
      <3> QED  BY <3>3, <2>4 DEF Due, Range
    <2> QED  BY <2>4, <2>6, <2>7, <2>8
  <1> QED  BY <1>1, <1>2
-----------------------------------------------------------------------------
(* Each step keeps the invariant.                                          *)

\* The invariant holds when nothing runs.
LEMMA InitInv == Init => IInv
  BY MaxFaultsAssumption
     DEF Init, IInv, TypeOK, HoldInv, StaleInv, QueueInv, NoOverlap, RunsAreRecorded, Running, Phases

\* The invariant does not depend on the passes that workers make and on the number
\* of faults, types aside, as long as the same workers run the same jobs.
LEMMA SameRunsInvariant ==
    ASSUME IInv, TypeOK', UNCHANGED <<status, stale, late, dueq, cur>>,
           \A w \in Workers : pc'[w] = "run" <=> pc[w] = "run"
    PROVE  IInv'
  BY DEF IInv, HoldInv, StaleInv, QueueInv, NoOverlap, RunsAreRecorded, Running, Due

\* EnsureRecurring adds rows, and no row that is there changes.
LEMMA StartInvariant ==
    ASSUME IInv, NEW w \in Workers, Start(w)
    PROVE  IInv'
  <1>1. TypeOK'
    BY DEF IInv, TypeOK, Start, Goto, Phases
  <1>2. \A j \in Jobs : status[j] = "running" => status'[j] = "running"
    BY DEF IInv, TypeOK, Start
  <1>3. \A v \in Workers : pc'[v] = "run" <=> pc[v] = "run"
    BY DEF IInv, TypeOK, Start, Goto
  <1>4. UNCHANGED <<stale, late, dueq, cur>>
    BY DEF Start
  <1>5. StaleInv'
    BY <1>2, <1>4 DEF IInv, TypeOK, StaleInv
  <1> QED
    BY <1>1, <1>2, <1>3, <1>4, <1>5
    DEF IInv, HoldInv, QueueInv, NoOverlap, RunsAreRecorded, Running, Due

\* The recovery takes only jobs that are stale, which nobody runs unless they are
\* late.
LEMMA ResetInvariant ==
    ASSUME IInv, NEW w \in Workers, ResetStaleRunning(w)
    PROVE  IInv'
  <1>1. TypeOK'
    BY DEF IInv, TypeOK, ResetStaleRunning, Goto, Phases
  <1>2. \A j \in Jobs \ stale : status'[j] = status[j]
    BY DEF IInv, TypeOK, ResetStaleRunning
  <1>3. \A v \in Workers : pc'[v] = "run" <=> pc[v] = "run"
    BY DEF IInv, TypeOK, ResetStaleRunning, Goto
  <1>4. UNCHANGED <<late, dueq, cur>> /\ stale' = {}
    BY DEF ResetStaleRunning
  <1> QED
    BY <1>1, <1>2, <1>3, <1>4
    DEF IInv, HoldInv, StaleInv, QueueInv, NoOverlap, RunsAreRecorded, Running, Due

\* The claim marks the row of a job that is due and that nobody runs, or whose run
\* is late.
LEMMA ClaimInvariant ==
    ASSUME IInv, NEW w \in Workers, NEW i \in DOMAIN dueq, ClaimDue(w, i)
    PROVE  IInv'
  <1> DEFINE j == dueq[i]
  <1>1. j \in Jobs /\ j # None /\ j \in Due /\ status[j] = "pending"
    BY JobsAssumption, DueElements DEF IInv, TypeOK, ClaimDue, Claimable
  <1>2. TypeOK'
    BY <1>1 DEF IInv, TypeOK, ClaimDue, Goto, Phases
  <1>3. /\ status' = [status EXCEPT ![j] = "running"]
        /\ cur' = [cur EXCEPT ![w] = j] /\ pc' = [pc EXCEPT ![w] = "run"] /\ pc[w] = "claim"
        /\ UNCHANGED <<stale, late, dueq>>
    BY DEF ClaimDue, Goto
  <1> HIDE DEF j
  <1>4. j \notin stale
    BY <1>1 DEF IInv, StaleInv
  <1>5. j \in late \/ \A v \in Workers : ~Running(v, j)
    BY <1>1 DEF IInv, RunsAreRecorded
  <1>6. \A v \in Workers, k \in Jobs : Running(v, k)' <=> IF v = w THEN k = j ELSE Running(v, k)
    BY <1>3 DEF IInv, TypeOK, Running
  <1>7. \A k \in Jobs : status'[k] = IF k = j THEN "running" ELSE status[k]
    BY <1>3 DEF IInv, TypeOK
  <1>8. HoldInv' /\ QueueInv'
    BY <1>1, <1>3 DEF IInv, TypeOK, HoldInv, QueueInv
  <1>9. StaleInv'
    BY <1>3, <1>7 DEF IInv, TypeOK, StaleInv
  <1>10. NoOverlap'
    BY <1>3, <1>5, <1>6 DEF IInv, NoOverlap
  <1>11. RunsAreRecorded'
    BY <1>1, <1>3, <1>4, <1>6, <1>7 DEF IInv, RunsAreRecorded, Due
  <1> QED  BY <1>2, <1>8, <1>9, <1>10, <1>11 DEF IInv

\* A claim whose answer is lost marks a row that nobody runs.
LEMMA LostClaimInvariant ==
    ASSUME IInv, NEW w \in Workers, NEW i \in DOMAIN dueq, ClaimUnacknowledged(w, i)
    PROVE  IInv'
  <1>1. dueq[i] \in Jobs
    BY DEF IInv, TypeOK
  <1>2. TypeOK'
    BY <1>1, MaxFaultsAssumption DEF IInv, TypeOK, ClaimUnacknowledged, Faulty, EndPass, Goto, Phases
  <1>3. \A k \in Jobs : status'[k] \in {"running", status[k]}
    BY <1>1 DEF IInv, TypeOK, ClaimUnacknowledged
  <1>4. \A v \in Workers : pc'[v] = "run" <=> pc[v] = "run"
    BY DEF IInv, TypeOK, ClaimUnacknowledged, EndPass, Goto
  <1>5. UNCHANGED <<stale, late, dueq, cur>>
    BY DEF ClaimUnacknowledged
  <1>6. StaleInv'
    BY <1>3, <1>5 DEF IInv, TypeOK, StaleInv
  <1> QED
    BY <1>2, <1>3, <1>4, <1>5, <1>6
    DEF IInv, HoldInv, QueueInv, NoOverlap, RunsAreRecorded, Running, Due

\* A worker that leaves its job leaves the other runs as they are; whatever else
\* still runs that job is late.
LEMMA LeaveRuns ==
    ASSUME IInv, NEW w \in Workers, NEW step, step # "run",
           Leave(w), Goto(w, step)
    PROVE  /\ \A v \in Workers, k \in Jobs : Running(v, k)' <=> v # w /\ Running(v, k)
           /\ \A v \in Workers : pc[w] = "run" /\ v # w /\ Running(v, cur[w]) => cur[w] \in late'
           /\ \A k \in late : k = cur[w] \/ k \in late'
           /\ late' \subseteq late
           /\ HoldInv' /\ NoOverlap'
  <1>1. \A v \in Workers, k \in Jobs : Running(v, k)' <=> v # w /\ Running(v, k)
    BY JobsAssumption DEF IInv, TypeOK, Running, Goto, Leave
  <1>2. \A v \in Workers : pc[w] = "run" /\ v # w /\ Running(v, cur[w]) => cur[w] \in late'
    <2> SUFFICES ASSUME NEW v \in Workers, pc[w] = "run", v # w, Running(v, cur[w])
                 PROVE  cur[w] \in late'
      OBVIOUS
    <2>1. cur[w] \in Jobs
      BY DEF IInv, TypeOK, HoldInv
    <2>2. cur[w] \in late
      BY <2>1 DEF IInv, NoOverlap, Running
    <2> QED  BY <2>2 DEF Leave
  <1>3. late' \subseteq late /\ \A k \in late : k = cur[w] \/ k \in late'
    BY DEF Leave
  <1>4. HoldInv'
    BY DEF IInv, TypeOK, HoldInv, Leave, Goto
  <1>5. NoOverlap'
    <2> SUFFICES ASSUME NEW j \in Jobs \ late', NEW u \in Workers, NEW v \in Workers,
                        Running(u, j)', Running(v, j)', u # v
                 PROVE  FALSE
      BY DEF NoOverlap
    <2>1. u # w /\ v # w /\ Running(u, j) /\ Running(v, j)
      BY <1>1
    <2>2. j \in late
      BY <2>1 DEF IInv, NoOverlap
    <2>3. cur[w] = j
      BY <1>3, <2>2
    <2> QED  BY <2>1, <2>2, <2>3 DEF Leave
  <1> QED  BY <1>1, <1>2, <1>3, <1>4, <1>5

\* A run that ends writes its row, whoever runs the job by then: that one is late.
LEMMA FinishInvariant ==
    ASSUME IInv, NEW w \in Workers, Finish(w)
    PROVE  IInv'
  <1> DEFINE j == cur[w]
  <1>1. j \in Jobs /\ pc[w] = "run"
    BY DEF IInv, TypeOK, HoldInv, Finish
  <1>2. /\ dueq' \in Seq(Jobs) /\ QueueInv'
        /\ \A k : k \in Due' <=> k \in Due /\ k # j
    BY <1>1, PostponedElements DEF IInv, Finish
  <1>3. TypeOK'
    BY <1>1, <1>2 DEF IInv, TypeOK, Finish, Leave, Goto, Phases
  <1>4. Leave(w) /\ Goto(w, "claim")
    BY DEF Finish
  <1>5. /\ \A v \in Workers, k \in Jobs : Running(v, k)' <=> v # w /\ Running(v, k)
        /\ \A v \in Workers : v # w /\ Running(v, j) => j \in late'
        /\ \A k \in late : k = j \/ k \in late'
        /\ HoldInv' /\ NoOverlap'
    BY <1>1, <1>4, LeaveRuns
  <1>6. stale' = stale \ {j} /\ \A k \in Jobs : k # j => status'[k] = status[k]
    BY <1>1 DEF IInv, TypeOK, Finish
  <1> HIDE DEF j
  <1>7. StaleInv'
    BY <1>6 DEF IInv, TypeOK, StaleInv
  <1>8. RunsAreRecorded'
    <2> SUFFICES ASSUME NEW v \in Workers, NEW k \in Jobs \ late', Running(v, k)'
                 PROVE  status'[k] = "running" /\ k \in Due' /\ k \notin stale'
      BY DEF RunsAreRecorded
    <2>1. v # w /\ Running(v, k) /\ k # j
      BY <1>5
    <2>2. k \notin late
      BY <1>5, <2>1
    <2> QED  BY <1>2, <1>6, <2>1, <2>2 DEF IInv, RunsAreRecorded
  <1> QED  BY <1>2, <1>3, <1>5, <1>7, <1>8 DEF IInv

\* So does a run that ends without writing its row.
LEMMA LeaveInvariant ==
    ASSUME IInv, NEW w \in Workers, FinishFails(w) \/ Crash(w)
    PROVE  IInv'
  <1>1. PICK step \in {"claim", "down"} : Goto(w, step)
    BY DEF FinishFails, Crash, EndPass
  <1>2. Leave(w) /\ UNCHANGED <<status, stale, dueq>>
    BY DEF FinishFails, Crash
  <1>3. TypeOK'
    <2>1. faults' \in 0..MaxFaults
      BY MaxFaultsAssumption DEF IInv, TypeOK, FinishFails, Crash, Faulty
    <2>2. done' \in [Workers -> SUBSET Jobs]
      BY DEF IInv, TypeOK, HoldInv, FinishFails, Crash, EndPass
    <2> QED  BY <1>1, <1>2, <2>1, <2>2 DEF IInv, TypeOK, Leave, Goto, Phases
  <1>4. /\ \A v \in Workers, k \in Jobs : Running(v, k)' <=> v # w /\ Running(v, k)
        /\ \A v \in Workers : pc[w] = "run" /\ v # w /\ Running(v, cur[w]) => cur[w] \in late'
        /\ \A k \in late : k = cur[w] \/ k \in late'
        /\ HoldInv' /\ NoOverlap'
    BY <1>1, <1>2, LeaveRuns
  <1>5. StaleInv' /\ QueueInv'
    BY <1>2 DEF IInv, StaleInv, QueueInv
  <1>6. RunsAreRecorded'
    <2> SUFFICES ASSUME NEW v \in Workers, NEW k \in Jobs \ late', Running(v, k)'
                 PROVE  status[k] = "running" /\ k \in Due /\ k \notin stale
      BY <1>2 DEF RunsAreRecorded, Due
    <2>1. v # w /\ Running(v, k)
      BY <1>4
    <2>2. k \notin late
      BY <1>4, <2>1, JobsAssumption DEF IInv, HoldInv
    <2> QED  BY <2>1, <2>2 DEF IInv, RunsAreRecorded
  <1> QED  BY <1>3, <1>4, <1>5, <1>6 DEF IInv

\* A job that comes due joins the order at its end.
LEMMA BecomesDueInvariant ==
    ASSUME IInv, NEW j \in Jobs, BecomesDue(j)
    PROVE  IInv'
  <1>1. dueq \in Seq(Jobs) /\ j \notin Due /\ dueq' = Append(dueq, j)
    BY DEF IInv, TypeOK, BecomesDue
  <1>2. /\ dueq' \in Seq(Jobs) /\ Len(dueq) \in Nat
        /\ DOMAIN dueq = 1..Len(dueq) /\ DOMAIN dueq' = 1..(Len(dueq) + 1)
        /\ \A i \in 1..Len(dueq) : dueq'[i] = dueq[i]
        /\ dueq'[Len(dueq) + 1] = j
    BY <1>1
  <1>3. TypeOK'
    BY <1>2 DEF IInv, TypeOK, BecomesDue
  <1>4. \A i \in DOMAIN dueq : dueq[i] # j
    BY <1>1, DueElements DEF IInv
  <1>5. QueueInv'
    <2> SUFFICES ASSUME NEW x \in 1..(Len(dueq) + 1), NEW y \in 1..(Len(dueq) + 1),
                        dueq'[x] = dueq'[y]
                 PROVE  x = y
      BY <1>2 DEF QueueInv
    <2> QED  BY <1>2, <1>4 DEF IInv, QueueInv
  <1>6. \A k \in Due : k \in Due'
    BY <1>2 DEF Due, Range
  <1> QED
    BY <1>3, <1>5, <1>6
    DEF IInv, BecomesDue, HoldInv, StaleInv, NoOverlap, RunsAreRecorded, Running

\* A run that goes stale is late from then on.
LEMMA GoesStaleInvariant ==
    ASSUME IInv, NEW j \in Jobs, GoesStale(j)
    PROVE  IInv'
  <1>1. TypeOK'
    BY DEF IInv, TypeOK, GoesStale
  <1>2. /\ stale' = stale \cup {j} /\ status[j] = "running"
        /\ UNCHANGED <<status, dueq, pc, cur>>
    BY DEF GoesStale
  <1>3. late \subseteq late' /\ \A w \in Workers : Running(w, j) => j \in late'
    BY DEF GoesStale
  <1> QED
    BY <1>1, <1>2, <1>3
    DEF IInv, HoldInv, StaleInv, QueueInv, NoOverlap, RunsAreRecorded, Running, Due

\* Every step keeps the invariant.
LEMMA NextInv == IInv /\ [Next]_vars => IInv'
  <1> SUFFICES ASSUME IInv, [Next]_vars PROVE IInv'
    OBVIOUS
  <1>1. ASSUME NEW w \in Workers, Tick(w) \/ NoDueJobs(w) \/ StatementFails(w)
        PROVE  IInv'
    <2>1. TypeOK'
      BY <1>1, MaxFaultsAssumption
      DEF IInv, TypeOK, Tick, NoDueJobs, StatementFails, EndPass, Goto, Faulty, Phases
    <2>2. UNCHANGED <<status, stale, late, dueq, cur>>
      BY <1>1 DEF Tick, NoDueJobs, StatementFails
    <2>3. \A v \in Workers : pc'[v] = "run" <=> pc[v] = "run"
      BY <1>1 DEF IInv, TypeOK, Tick, NoDueJobs, StatementFails, EndPass, Goto
    <2> QED  BY <2>1, <2>2, <2>3, SameRunsInvariant
  <1>2. ASSUME NEW w \in Workers, Step(w) PROVE IInv'
    BY <1>1, <1>2, StartInvariant, ResetInvariant, ClaimInvariant, FinishInvariant DEF Step
  <1>3. ASSUME NEW w \in Workers, Fault(w) PROVE IInv'
    BY <1>1, <1>3, LostClaimInvariant, LeaveInvariant DEF Fault
  <1>4. CASE UNCHANGED vars
    <2>1. TypeOK'
      BY <1>4 DEF IInv, TypeOK, vars
    <2> QED  BY <1>4, <2>1, SameRunsInvariant DEF vars
  <1> QED  BY <1>2, <1>3, <1>4, BecomesDueInvariant, GoesStaleInvariant DEF Next

-----------------------------------------------------------------------------
(* What follows for every behaviour.                                       *)

\* The invariant holds in every state, whatever the workers, crashes and lost
\* statements do (package jobs, runDueJobs).
THEOREM Invariance == Spec => []IInv
  BY InitInv, NextInv, PTL DEF Spec

\* ClaimDue and ResetStaleRunning never let two workers run one job, unless a run
\* of it outlasts staleAfter.
THEOREM OneRunPerJob == Spec => []NoOverlap
  <1>1. IInv => NoOverlap
    BY DEF IInv
  <1> QED  BY <1>1, Invariance, PTL

\* A job that is run is marked as running and stays due, so that the recovery finds
\* it when the worker dies, unless the run outlasts staleAfter.
THEOREM RunsAreRecoverable == Spec => []RunsAreRecorded
  <1>1. IInv => RunsAreRecorded
    BY DEF IInv
  <1> QED  BY <1>1, Invariance, PTL

-----------------------------------------------------------------------------
(* Placement: the hypotheses about one node.                               *)

\* Node a is active and stays so, and wherever the operators put the other nodes it
\* is among the first ones: Puts and the rebalance always want a replica there.
AlwaysTarget(a) ==
    LET kept == InitActive \ Changeable IN
    /\ a \in kept
    /\ \A S \in SUBSET Nodes :
          kept \subseteq S => a \in FirstOnes(PutReplicas, S) \cap FirstOnes(Replicas, S)

\* The step is not one in which node a loses a replica by itself.
Keeps(a) == \A o \in Objects : ~LoseReplica(o, a)

-----------------------------------------------------------------------------
(* Placement: the inductive invariant.                                     *)

\* The rest of the job's types.  What a repair has read are nodes of degraded rows, what
\* a rebalance has read are rows.
JobTypes ==
    /\ job \in [kind: {"none", "health", "repair", "rebalance"}, targets: SUBSET Nodes,
                snap: {job.snap}, todo: SUBSET Objects, cur: 0..NumObjects,
                src: 0..NumNodes, del: SUBSET Nodes, copy: SUBSET Nodes, ins: 0..NumNodes]
    /\ job.kind = "repair" => job.snap \in [Objects -> SUBSET Nodes]
    /\ job.kind = "rebalance" => job.snap \in [Objects -> [Nodes -> -1..(NumNodes - 1)]]

\* Only a stored object has placement rows, and the rows of an object differ in
\* their replica_index.
PlacementRows ==
    \A o \in Objects :
        /\ RowNodes(o) # {} => obj[o] = "stored"
        /\ \A n, m \in RowNodes(o) : idx[o][n] = idx[o][m] => n = m

\* The object of a Put under way is nobody else's.
WriteInv ==
    write # NoWrite =>
        write.obj \in Objects /\ obj[write.obj] = "writing" /\ write.written \subseteq write.targets

PlacementInv == PlacementTypes /\ JobTypes /\ PlacementRows /\ WriteInv

\* The nodes that the operators leave alone are active.
KeptInv == \A n \in InitActive \ Changeable : op[n] = "active"

\* Node a has a replica of every stored object; a Put under way is going to write
\* one there and has not been overtaken; no job is going to delete one there.
HolderInv(a) ==
    /\ KeptInv
    /\ \A o \in Objects : obj[o] = "stored" => a \in replicas[o]
    /\ write # NoWrite => a \in write.targets
    /\ write # NoWrite /\ a \in write.written => a \in replicas[write.obj]
    /\ a \notin job.del
    /\ job.kind = "rebalance" => a \in job.targets

-----------------------------------------------------------------------------
(* Placement: positions in a list of nodes.                                *)

\* The position of a node in a list of nodes is less than the number of nodes.
LEMMA PositionType ==
    ASSUME NEW S \in SUBSET Nodes, NEW n \in Nodes
    PROVE  Cardinality(Before(n, S)) \in 0..(NumNodes - 1)
  <1>1. IsFiniteSet(Nodes) /\ Cardinality(Nodes) = NumNodes
    BY NumNodesAssumption, FS_Interval DEF Nodes
  <1>2. IsFiniteSet(Nodes \ {n}) /\ Cardinality(Nodes \ {n}) = NumNodes - 1
    BY <1>1, FS_RemoveElement
  <1>3. Before(n, S) \in SUBSET (Nodes \ {n})
    <2>1. \A m \in Nodes : m \in Int
      BY NumNodesAssumption DEF Nodes
    <2>2. \A m \in Before(n, S) : m \in Nodes /\ m # n
      BY <2>1 DEF Before
    <2> QED  BY <2>2
  <1>4. IsFiniteSet(Before(n, S)) /\ Cardinality(Before(n, S)) <= NumNodes - 1
    BY <1>2, <1>3, FS_Subset
  <1>5. Cardinality(Before(n, S)) \in Nat
    BY <1>4, FS_CardinalityType
  <1> QED  BY <1>4, <1>5, NumNodesAssumption

\* The nodes of a list have different positions.
LEMMA PositionsDiffer ==
    ASSUME NEW S \in SUBSET Nodes, NEW n \in S, NEW m \in S,
           Cardinality(Before(n, S)) = Cardinality(Before(m, S))
    PROVE  n = m
  <1>1. IsFiniteSet(Nodes)
    BY NumNodesAssumption, FS_Interval DEF Nodes
  <1>2. ASSUME NEW i \in S, NEW k \in S, i < k,
               Cardinality(Before(i, S)) = Cardinality(Before(k, S))
        PROVE  FALSE
    <2>1. Before(i, S) \in SUBSET Before(k, S)
      <3>1. i \in Int /\ k \in Int /\ \A j \in S : j \in Int
        BY NumNodesAssumption DEF Nodes
      <3>2. \A j \in Before(i, S) : j \in Before(k, S)
        BY <1>2, <3>1 DEF Before
      <3> QED  BY <3>2
    <2>2. IsFiniteSet(Before(k, S))
      <3>1. Before(k, S) \in SUBSET Nodes
        BY DEF Before
      <3> QED  BY <1>1, <3>1, FS_Subset
    <2>3. Before(i, S) = Before(k, S)
      BY <1>2, <2>1, <2>2, FS_Subset
    <2> QED  BY <1>2, <2>3 DEF Before, Nodes
  <1> QED  BY <1>2 DEF Nodes

\* Some of the nodes with a number have the least one.
LEMMA LeastExists ==
    ASSUME NEW T \in SUBSET Nodes, T # {}, NEW f, \A n \in T : f[n] \in Int
    PROVE  \E n \in T : \A m \in T : f[n] <= f[m]
  <1> DEFINE Least(s) == \E n \in s : \A m \in s : f[n] <= f[m]
             Bad == {s \in SUBSET T : s # {} /\ ~Least(s)}
  <1>1. IsFiniteSet(Nodes)
    BY NumNodesAssumption, FS_Interval DEF Nodes
  <1>2. SUFFICES ASSUME Bad # {} PROVE FALSE
    OBVIOUS
  <1>3. PICK s \in Bad : \A t \in Bad : ~(<<t, s>> \in StrictSubsetOrdering(Nodes))
    <2>1. IsWellFoundedOn(StrictSubsetOrdering(Nodes), SUBSET Nodes)
      BY <1>1, FS_StrictSubsetOrderingWellFounded, FS_FiniteSubsetsOfFinite
    <2>2. Bad \subseteq SUBSET Nodes
      OBVIOUS
    <2> HIDE DEF Bad
    <2> QED  BY <1>2, <2>1, <2>2, WFMin
  <1>4. PICK n \in s : TRUE
    OBVIOUS
  <1>5. CASE s \ {n} = {}
    BY <1>4, <1>5
  <1>6. CASE s \ {n} # {}
    <2>1. s \ {n} \notin Bad
      BY <1>3, <1>4 DEF StrictSubsetOrdering
    <2>2. PICK k \in s \ {n} : \A m \in s \ {n} : f[k] <= f[m]
      BY <1>6, <2>1
    <2>3. f[n] \in Int /\ f[k] \in Int /\ \A m \in s : f[m] \in Int
      OBVIOUS
    <2>4. CASE f[n] <= f[k]
      <3>1. \A m \in s : f[n] <= f[m]
        BY <2>2, <2>3, <2>4
      <3> QED  BY <1>4, <3>1
    <2>5. CASE f[k] <= f[n]
      <3>1. \A m \in s : f[k] <= f[m]
        BY <2>2, <2>3, <2>5
      <3> QED  BY <2>2, <3>1
    <2> QED  BY <2>3, <2>4, <2>5
  <1> QED  BY <1>5, <1>6

-----------------------------------------------------------------------------
(* Placement: the types and the rows.                                      *)

\* The invariant holds before anything is stored.
LEMMA PlacementInitInv == PInit => PlacementInv
  <1> SUFFICES ASSUME PInit PROVE PlacementInv
    OBVIOUS
  <1>1. PlacementTypes
    BY NumNodesAssumption, NumObjectsAssumption, InitActiveAssumption, FailuresAssumption
       DEF PInit, PlacementTypes, NoWrite, NoJob, NoNode, Nodes
  <1>2. JobTypes
    BY NumNodesAssumption, NumObjectsAssumption DEF PInit, JobTypes, NoJob, NoNode
  <1>3. PlacementRows /\ WriteInv
    BY DEF PInit, PlacementRows, WriteInv, RowNodes
  <1> QED  BY <1>1, <1>2, <1>3 DEF PlacementInv

\* What the nodes do and what operators do to them touches no object, row or job.
LEMMA NodesInv ==
    ASSUME PlacementInv,
           \/ \E n \in Nodes : NodeDown(n) \/ NodeUp(n) \/ CertificateChanges(n)
                               \/ RePinNodeTLSIdentity(n)
           \/ \E o \in Objects, n \in Nodes : LoseReplica(o, n)
           \/ \E n \in Changeable, s \in Operations :
                 RegisterNode(n, s) \/ UpdateNodeOperatorState(n, s)
           \/ RefreshConfiguredNodes
    PROVE  PlacementInv'
  <1>1. PlacementTypes'
    <2> USE DEF PlacementInv, PlacementTypes, nodeVars, rowVars
    <2>1. ASSUME NEW n \in Nodes, NodeDown(n) \/ NodeUp(n) \/ CertificateChanges(n)
          PROVE  PlacementTypes'
      BY <2>1, FailuresAssumption DEF NodeDown, NodeUp, CertificateChanges, Failure
    <2>2. ASSUME NEW n \in Nodes, RePinNodeTLSIdentity(n) PROVE PlacementTypes'
      BY <2>2 DEF RePinNodeTLSIdentity
    <2>3. ASSUME NEW o \in Objects, NEW n \in Nodes, LoseReplica(o, n) PROVE PlacementTypes'
      BY <2>3, FailuresAssumption DEF LoseReplica, Failure
    <2>4. ASSUME NEW n \in Changeable, NEW s \in Operations,
                 RegisterNode(n, s) \/ UpdateNodeOperatorState(n, s)
          PROVE  PlacementTypes'
      <3>1. s \in {"active", "draining", "maintenance"}
        BY OperationsAssumption
      <3> QED  BY <2>4, <3>1 DEF RegisterNode, UpdateNodeOperatorState
    <2>5. CASE RefreshConfiguredNodes
      BY <2>5 DEF RefreshConfiguredNodes
    <2> QED  BY <2>1, <2>2, <2>3, <2>4, <2>5
  <1>2. UNCHANGED <<job, write, obj, idx>>
    BY DEF NodeDown, NodeUp, CertificateChanges, RePinNodeTLSIdentity, LoseReplica, RegisterNode,
           UpdateNodeOperatorState, RefreshConfiguredNodes, nodeVars, rowVars
  <1>3. JobTypes' /\ PlacementRows' /\ WriteInv'
    BY <1>2 DEF PlacementInv, JobTypes, PlacementRows, WriteInv, RowNodes
  <1> QED  BY <1>1, <1>3 DEF PlacementInv

\* A Put reserves its object and records its rows at the commit, numbered by their
\* positions; Delete takes all rows of its object.
LEMMA RequestsInv ==
    ASSUME PlacementInv,
           \/ \E o \in Objects : PutStart(o) \/ Delete(o)
           \/ PutStep \/ PutDies
    PROVE  PlacementInv'
  <1>1. JobTypes'
    BY DEF PlacementInv, JobTypes, PutStart, Delete, PutStep, PutOne, PutFails, PutCommit, PutDies
  <1>2. ASSUME NEW o \in Objects, PutStart(o) PROVE PlacementInv'
    <2>1. write' = [obj |-> o, targets |-> FirstOnes(PutReplicas, Active), written |-> {}]
          /\ FirstOnes(PutReplicas, Active) \subseteq Nodes
      BY <1>2 DEF PutStart, FirstOnes, Active
    <2>2. PlacementTypes'
      BY <1>2, <2>1 DEF PlacementInv, PlacementTypes, PutStart, nodeVars, rowVars, Objects
    <2>3. PlacementRows' /\ WriteInv'
      BY <1>2, <2>1 DEF PlacementInv, PlacementTypes, PlacementRows, WriteInv, RowNodes, PutStart,
                        rowVars
    <2> QED  BY <1>1, <2>2, <2>3 DEF PlacementInv
  <1>3. ASSUME NEW o \in Objects, Delete(o) PROVE PlacementInv'
    <2>1. PlacementTypes'
      BY <1>3, NumNodesAssumption DEF PlacementInv, PlacementTypes, Delete, nodeVars
    <2>2. PlacementRows' /\ WriteInv'
      BY <1>3 DEF PlacementInv, PlacementTypes, PlacementRows, WriteInv, RowNodes, Delete
    <2> QED  BY <1>1, <2>1, <2>2 DEF PlacementInv
  <1>4. CASE PutOne
    <2> PICK n \in write.targets \ write.written :
               /\ replicas' = [replicas EXCEPT ![write.obj] = @ \cup {n}]
               /\ write' = [write EXCEPT !.written = @ \cup {n}]
               /\ UNCHANGED <<nodeVars, obj, rowVars, job, failures>>
      BY <1>4 DEF PutOne
    <2>1. PlacementTypes'
      <3>1. n \in Nodes
        BY DEF PlacementInv, PlacementTypes
      <3>2. replicas' \in [Objects -> SUBSET Nodes]
        BY <3>1 DEF PlacementInv, PlacementTypes
      <3>3. write' \in [obj: 0..NumObjects, targets: SUBSET Nodes, written: SUBSET Nodes]
        BY <3>1 DEF PlacementInv, PlacementTypes
      <3> QED  BY <3>2, <3>3 DEF PlacementInv, PlacementTypes, nodeVars, rowVars
    <2>2. PlacementRows' /\ WriteInv'
      BY <1>4 DEF PlacementInv, PlacementTypes, PlacementRows, WriteInv, RowNodes, PutOne, rowVars,
                  NoWrite
    <2> QED  BY <1>1, <2>1, <2>2 DEF PlacementInv
  <1>5. CASE PutFails \/ PutDies
    <2>1. write # NoWrite
      BY <1>5 DEF PutFails, PutDies, NoWrite
    <2>2. /\ obj' = [obj EXCEPT ![write.obj] = "gone"]
          /\ write' = NoWrite
          /\ UNCHANGED <<nodeVars, rowVars, job>>
          /\ \E S : replicas' = [replicas EXCEPT ![write.obj] = @ \ S]
          /\ failures' \in 0..MaxFailures
      <3>1. CASE PutFails
        BY <3>1 DEF PutFails, PlacementInv, PlacementTypes
      <3>2. CASE PutDies
        <4>1. failures' \in 0..MaxFailures
          BY <3>2, FailuresAssumption DEF PutDies, Failure, PlacementInv, PlacementTypes
        <4>2. replicas' = [replicas EXCEPT ![write.obj] = @ \ {}]
          BY <3>2 DEF PutDies, PlacementInv, PlacementTypes
        <4> QED  BY <3>2, <4>1, <4>2 DEF PutDies
      <3> QED  BY <1>5, <3>1, <3>2
    <2>3. PlacementTypes'
      <3>1. replicas' \in [Objects -> SUBSET Nodes]
        <4>1. PICK S : replicas' = [replicas EXCEPT ![write.obj] = @ \ S]
          BY <2>2
        <4> QED  BY <4>1 DEF PlacementInv, PlacementTypes
      <3> QED
        BY <2>2, <3>1, NumObjectsAssumption
           DEF PlacementInv, PlacementTypes, NoWrite, nodeVars, rowVars
    <2>4. PlacementRows'
      BY <2>1, <2>2 DEF PlacementInv, PlacementTypes, PlacementRows, WriteInv, RowNodes, rowVars
    <2> QED  BY <1>1, <2>2, <2>3, <2>4 DEF PlacementInv, WriteInv
  <1>6. CASE PutCommit
    <2>1. /\ write # NoWrite /\ write.obj \in Objects /\ obj[write.obj] = "writing"
          /\ write.targets \in SUBSET Nodes
      BY <1>6 DEF PlacementInv, PlacementTypes, WriteInv, PutCommit, NoWrite
    <2>2. \A n \in Nodes : Cardinality(Before(n, write.targets)) \in 0..(NumNodes - 1)
      BY <2>1, PositionType
    <2>3. \A n, m \in write.targets :
            Cardinality(Before(n, write.targets)) = Cardinality(Before(m, write.targets)) => n = m
      BY <2>1, PositionsDiffer
    <2> DEFINE pos(n) == Cardinality(Before(n, write.targets))
    <2>4. /\ obj' = [obj EXCEPT ![write.obj] = "stored"]
          /\ idx' = [idx EXCEPT ![write.obj] =
                        [n \in Nodes |-> IF n \in write.targets THEN pos(n) ELSE -1]]
          /\ state' = [state EXCEPT ![write.obj] =
                        [n \in Nodes |-> IF n \in write.targets THEN "stored" ELSE "none"]]
          /\ write' = NoWrite
          /\ UNCHANGED <<nodeVars, replicas, job, failures>>
      BY <1>6 DEF PutCommit
    <2>5. \A n \in Nodes : pos(n) \in 0..(NumNodes - 1)
      BY <2>2
    <2>6. \A n, m \in write.targets : pos(n) = pos(m) => n = m
      BY <2>3
    <2> HIDE DEF pos
    <2>7. PlacementTypes'
      <3>1. idx' \in [Objects -> [Nodes -> -1..(NumNodes - 1)]]
        BY <2>1, <2>4, <2>5, NumNodesAssumption DEF PlacementInv, PlacementTypes
      <3>2. state' \in [Objects -> [Nodes -> {"none", "stored", "degraded"}]]
        BY <2>1, <2>4 DEF PlacementInv, PlacementTypes
      <3> QED
        BY <2>1, <2>4, <3>1, <3>2, NumObjectsAssumption
           DEF PlacementInv, PlacementTypes, NoWrite, nodeVars
    <2>8. PlacementRows'
      <3>1. ASSUME NEW o \in Objects
            PROVE  /\ RowNodes(o)' # {} => obj'[o] = "stored"
                   /\ \A n, m \in RowNodes(o)' : idx'[o][n] = idx'[o][m] => n = m
        <4>1. CASE o = write.obj
          BY <2>1, <2>4, <2>6, <4>1 DEF PlacementInv, PlacementTypes, RowNodes
        <4>2. CASE o # write.obj
          BY <2>1, <2>4, <4>2 DEF PlacementInv, PlacementTypes, PlacementRows, RowNodes
        <4> QED  BY <4>1, <4>2
      <3> QED  BY <3>1 DEF PlacementRows
    <2> QED  BY <1>1, <2>4, <2>7, <2>8 DEF PlacementInv, WriteInv
  <1> QED  BY <1>2, <1>3, <1>4, <1>5, <1>6 DEF PutStep

\* The health check changes the states of rows only.
LEMMA HealthInv ==
    ASSUME PlacementInv, HealthRows \/ HealthObjects
    PROVE  PlacementInv'
  <1>1. FirstOnes(Replicas, Active) \subseteq Nodes
    BY DEF FirstOnes, Active
  <1>2. /\ UNCHANGED <<nodeVars, obj, replicas, idx, write, failures>>
        /\ job' = NoJob \/ job' = [NoJob EXCEPT !.kind = "health",
                                                !.targets = FirstOnes(Replicas, Active)]
    BY DEF HealthRows, HealthObjects
  <1>3. JobTypes'
    <2>1. CASE job' = NoJob
      BY <2>1, NumNodesAssumption, NumObjectsAssumption DEF JobTypes, NoJob, NoNode
    <2>2. CASE job' = [NoJob EXCEPT !.kind = "health", !.targets = FirstOnes(Replicas, Active)]
      <3>1. job' = [kind |-> "health", targets |-> FirstOnes(Replicas, Active), snap |-> <<>>,
                    todo |-> {}, cur |-> 0, src |-> 0, del |-> {}, copy |-> {}, ins |-> 0]
        BY <2>2 DEF NoJob, NoNode
      <3> QED  BY <1>1, <3>1, NumNodesAssumption, NumObjectsAssumption DEF JobTypes
    <2> QED  BY <1>2, <2>1, <2>2
  <1>4. state' \in [Objects -> [Nodes -> {"none", "stored", "degraded"}]]
    <2>1. CASE HealthRows
      <3>1. \A o \in Objects, n \in Nodes : state'[o][n] \in {"none", "stored", "degraded"}
        BY <2>1 DEF HealthRows
      <3>2. state' = [o \in Objects |-> [n \in Nodes |-> state'[o][n]]]
        BY <2>1 DEF HealthRows
      <3> QED  BY <3>1, <3>2
    <2>2. CASE HealthObjects
      <3>1. \A o \in Objects, n \in Nodes : state'[o][n] \in {"none", "stored", "degraded"}
        BY <2>2 DEF HealthObjects
      <3>2. state' = [o \in Objects |-> [n \in Nodes |-> state'[o][n]]]
        BY <2>2 DEF HealthObjects
      <3> QED  BY <3>1, <3>2
    <2> QED  BY <2>1, <2>2
  <1>5. /\ job'.kind \in {"none", "health", "repair", "rebalance"}
        /\ job'.cur \in 0..NumObjects /\ {job'.src, job'.ins} \subseteq 0..NumNodes
    BY <1>3 DEF JobTypes
  <1>6. PlacementTypes'
    BY <1>2, <1>4, <1>5 DEF PlacementInv, PlacementTypes, nodeVars
  <1>7. PlacementRows' /\ WriteInv'
    BY <1>2 DEF PlacementInv, PlacementRows, WriteInv, RowNodes
  <1> QED  BY <1>3, <1>6, <1>7 DEF PlacementInv

\* What the job keeps in memory has its types, whatever it reads.
LEMMA JobTypesKept ==
    ASSUME PlacementInv,
           \/ RepairStart \/ RebalanceStart \/ NextObject \/ JobDone \/ JobFails \/ RebalanceInsert
           \/ \E o \in Objects : RepairObject(o) \/ RebalanceObject(o)
           \/ \E n \in Nodes : RepairCopy(n) \/ RebalanceDelete(n) \/ RebalanceCopy(n)
    PROVE  JobTypes'
  <1> USE NumNodesAssumption, NumObjectsAssumption
  <1>1. JobTypes /\ idx \in [Objects -> [Nodes -> -1..(NumNodes - 1)]]
    BY DEF PlacementInv, PlacementTypes
  <1>2. CASE RepairStart
    <2> DEFINE snap == [o \in Objects |-> {n \in Nodes : state[o][n] = "degraded"}]
               todo == {o \in Objects : snap[o] # {}}
    <2>1. job' = [NoJob EXCEPT !.kind = "repair", !.snap = snap, !.todo = todo]
      BY <1>2 DEF RepairStart
    <2>2. snap \in [Objects -> SUBSET Nodes] /\ todo \in SUBSET Objects
      OBVIOUS
    <2> HIDE DEF snap, todo
    <2>3. job' = [kind |-> "repair", targets |-> {}, snap |-> snap, todo |-> todo, cur |-> 0,
                  src |-> 0, del |-> {}, copy |-> {}, ins |-> 0]
      BY <2>1 DEF NoJob, NoNode
    <2> QED  BY <2>2, <2>3 DEF JobTypes
  <1>3. CASE RebalanceStart
    <2> DEFINE todo == {o \in Objects : RowNodes(o) # {}}
    <2>1. job' = [NoJob EXCEPT !.kind = "rebalance", !.targets = Targets, !.snap = idx,
                               !.todo = todo]
      BY <1>3 DEF RebalanceStart
    <2>2. Targets \in SUBSET Nodes /\ todo \in SUBSET Objects
      BY DEF Targets, FirstOnes, Active
    <2> HIDE DEF todo
    <2>3. job' = [kind |-> "rebalance", targets |-> Targets, snap |-> idx, todo |-> todo,
                  cur |-> 0, src |-> 0, del |-> {}, copy |-> {}, ins |-> 0]
      BY <2>1 DEF NoJob, NoNode
    <2> QED  BY <1>1, <2>2, <2>3 DEF JobTypes
  <1>4. CASE JobDone \/ JobFails
    <2>1. job' = NoJob
      BY <1>4 DEF JobDone, JobFails
    <2> QED  BY <2>1 DEF JobTypes, NoJob, NoNode
  <1>5. CASE NextObject
    <2>1. job' = [job EXCEPT !.cur = 0, !.src = 0]
      BY <1>5 DEF NextObject, NoNode
    <2>2. job' = [kind |-> job.kind, targets |-> job.targets, snap |-> job.snap,
                  todo |-> job.todo, cur |-> 0, src |-> 0, del |-> job.del,
                  copy |-> job.copy, ins |-> job.ins]
      BY <1>1, <2>1 DEF JobTypes
    <2> QED  BY <1>1, <2>2 DEF JobTypes
  <1>6. CASE RebalanceInsert
    <2>1. CASE job' = NoJob
      BY <2>1 DEF JobTypes, NoJob, NoNode
    <2>2. CASE job' = [job EXCEPT !.copy = @ \ {job.ins}, !.ins = NoNode]
      <3>1. job' = [kind |-> job.kind, targets |-> job.targets, snap |-> job.snap,
                    todo |-> job.todo, cur |-> job.cur, src |-> job.src, del |-> job.del,
                    copy |-> job.copy \ {job.ins}, ins |-> 0]
        BY <1>1, <2>2 DEF JobTypes, NoNode
      <3> QED  BY <1>1, <3>1 DEF JobTypes
    <2> QED  BY <1>6, <2>1, <2>2 DEF RebalanceInsert
  <1>7. ASSUME NEW o \in Objects, RepairObject(o) PROVE JobTypes'
    <2>1. CASE job' = [job EXCEPT !.todo = @ \ {o}]
      BY <1>1, <2>1 DEF JobTypes
    <2>2. ASSUME NEW n \in job.snap[o], Exists(o, n),
                 job' = [job EXCEPT !.todo = @ \ {o}, !.cur = o, !.src = n,
                                    !.copy = job.snap[o] \ {n}]
          PROVE  JobTypes'
      <3>1. job' = [kind |-> job.kind, targets |-> job.targets, snap |-> job.snap,
                    todo |-> job.todo \ {o}, cur |-> o, src |-> n, del |-> job.del,
                    copy |-> job.snap[o] \ {n}, ins |-> job.ins]
        BY <1>1, <2>2 DEF JobTypes
      <3>2. job.snap \in [Objects -> SUBSET Nodes]
        BY <1>1, <1>7 DEF RepairObject, JobTypes
      <3>3. o \in 0..NumObjects /\ n \in 0..NumNodes /\ job.snap[o] \ {n} \in SUBSET Nodes
        BY <3>2 DEF Objects, Nodes
      <3> QED  BY <1>1, <3>1, <3>3 DEF JobTypes
    <2> QED  BY <1>7, <2>1, <2>2 DEF RepairObject
  <1>8. ASSUME NEW n \in Nodes, RepairCopy(n) PROVE JobTypes'
    <2>1. job' = [job EXCEPT !.copy = @ \ {n}]
      BY <1>8 DEF RepairCopy
    <2> QED  BY <1>1, <2>1 DEF JobTypes
  <1>9. ASSUME NEW n \in Nodes, RebalanceDelete(n) PROVE JobTypes'
    <2>1. job' = [job EXCEPT !.del = @ \ {n}]
      BY <1>9 DEF RebalanceDelete
    <2> QED  BY <1>1, <2>1 DEF JobTypes
  <1>10. ASSUME NEW n \in Nodes, RebalanceCopy(n) PROVE JobTypes'
    <2>1. job' = [job EXCEPT !.ins = n] \/ job' = [job EXCEPT !.copy = @ \ {n}]
      BY <1>10 DEF RebalanceCopy
    <2>2. n \in 0..NumNodes
      BY DEF Nodes
    <2> QED  BY <1>1, <2>1, <2>2 DEF JobTypes
  <1>11. ASSUME NEW o \in Objects, RebalanceObject(o) PROVE JobTypes'
    <2> DEFINE holders == {n \in SnapNodes(o) : Exists(o, n)}
               least == CHOOSE n \in holders :
                            \A m \in holders : job.snap[o][n] <= job.snap[o][m]
               src == IF holders = {} THEN NoNode ELSE least
    <2>1. job' = [job EXCEPT !.todo = @ \ {o}, !.cur = o, !.src = src,
                             !.del = SnapNodes(o) \ job.targets,
                             !.copy = IF src = NoNode THEN {} ELSE job.targets \ SnapNodes(o)]
      BY <1>11 DEF RebalanceObject
    <2>2. job.snap \in [Objects -> [Nodes -> -1..(NumNodes - 1)]]
      BY <1>1, <1>11 DEF RebalanceObject, JobTypes
    <2>3. holders \in SUBSET Nodes /\ \A n \in holders : job.snap[o][n] \in Int
      BY <2>2 DEF SnapNodes
    <2>4. src \in 0..NumNodes
      <3> HIDE DEF holders
      <3>1. ASSUME holders # {} PROVE least \in holders
        <4> DEFINE f == job.snap[o]
        <4>1. \A n \in holders : f[n] \in Int
          BY <2>3
        <4> HIDE DEF f
        <4>2. \E n \in holders : \A m \in holders : f[n] <= f[m]
          BY <2>3, <3>1, <4>1, LeastExists
        <4> QED  BY <4>2 DEF f
      <3> HIDE DEF least
      <3>2. \A n \in Nodes : n \in 0..NumNodes
        BY DEF Nodes
      <3> QED  BY <2>3, <3>1, <3>2 DEF NoNode
    <2>5. SnapNodes(o) \subseteq Nodes
      BY DEF SnapNodes
    <2> DEFINE copy == IF src = NoNode THEN {} ELSE job.targets \ SnapNodes(o)
    <2>6. copy \in SUBSET Nodes /\ SnapNodes(o) \ job.targets \in SUBSET Nodes
      BY <1>1, <2>5 DEF JobTypes
    <2> HIDE DEF src, copy
    <2>7. job' = [kind |-> job.kind, targets |-> job.targets, snap |-> job.snap,
                  todo |-> job.todo \ {o}, cur |-> o, src |-> src,
                  del |-> SnapNodes(o) \ job.targets, copy |-> copy, ins |-> job.ins]
      BY <1>1, <2>1 DEF JobTypes, copy
    <2>8. o \in 0..NumObjects
      BY DEF Objects
    <2> QED  BY <1>1, <2>4, <2>6, <2>7, <2>8 DEF JobTypes
  <1> QED
    BY <1>2, <1>3, <1>4, <1>5, <1>6, <1>7, <1>8, <1>9, <1>10, <1>11

\* A repair or rebalance that reads, goes on to the next object or ends changes
\* nothing but its own state.
LEMMA ReadingInv ==
    ASSUME PlacementInv,
           \/ RepairStart \/ RebalanceStart \/ NextObject \/ JobDone \/ JobFails
           \/ \E o \in Objects : RepairObject(o) \/ RebalanceObject(o)
    PROVE  PlacementInv'
  <1>1. JobTypes'
    BY JobTypesKept
  <1>2. UNCHANGED <<nodeVars, obj, replicas, rowVars, write>>
    BY DEF RepairStart, RebalanceStart, NextObject, JobDone, JobFails, RepairObject, RebalanceObject
  <1>3. failures' \in 0..MaxFailures
    <2>1. failures \in 0..MaxFailures
      BY DEF PlacementInv, PlacementTypes
    <2>2. failures' = failures \/ Failure
      BY DEF RepairStart, RebalanceStart, NextObject, JobDone, JobFails, RepairObject,
             RebalanceObject
    <2> QED  BY <2>1, <2>2, FailuresAssumption DEF Failure
  <1>4. PlacementTypes'
    <2>1. /\ job'.kind \in {"none", "health", "repair", "rebalance"}
          /\ job'.cur \in 0..NumObjects /\ {job'.src, job'.ins} \subseteq 0..NumNodes
      BY <1>1 DEF JobTypes
    <2> QED  BY <1>2, <1>3, <2>1 DEF PlacementInv, PlacementTypes, nodeVars, rowVars
  <1>5. PlacementRows' /\ WriteInv'
    BY <1>2 DEF PlacementInv, PlacementRows, WriteInv, RowNodes, rowVars
  <1> QED  BY <1>1, <1>4, <1>5 DEF PlacementInv

\* A copy adds a replica and, in a repair, may mark its row.
LEMMA CopyInv ==
    ASSUME PlacementInv, NEW n \in Nodes, RepairCopy(n) \/ RebalanceCopy(n)
    PROVE  PlacementInv'
  <1>1. JobTypes'
    BY JobTypesKept
  <1>2. UNCHANGED <<nodeVars, obj, idx, write, failures>>
    BY DEF RepairCopy, RebalanceCopy, rowVars
  <1>3. replicas' = replicas \/ replicas' = [replicas EXCEPT ![job.cur] = @ \cup {n}]
    BY DEF RepairCopy, RebalanceCopy
  <1>4. replicas' \in [Objects -> SUBSET Nodes]
    <2>1. replicas \in [Objects -> SUBSET Nodes]
      BY DEF PlacementInv, PlacementTypes
    <2>2. CASE replicas' = replicas
      BY <2>1, <2>2
    <2>3. CASE replicas' = [replicas EXCEPT ![job.cur] = @ \cup {n}]
      BY <2>1, <2>3
    <2> QED  BY <1>3, <2>2, <2>3
  <1>5. state' \in [Objects -> [Nodes -> {"none", "stored", "degraded"}]]
    <2>1. CASE RepairCopy(n)
      <3>1. state' = state
            \/ state' = [state EXCEPT ![job.cur][n] = IF idx[job.cur][n] = -1 THEN @ ELSE "stored"]
        BY <2>1 DEF RepairCopy
      <3>2. state \in [Objects -> [Nodes -> {"none", "stored", "degraded"}]]
        BY DEF PlacementInv, PlacementTypes
      <3>3. CASE job.cur \in Objects
        BY <3>1, <3>2, <3>3
      <3>4. CASE job.cur \notin Objects
        BY <3>1, <3>2, <3>4
      <3> QED  BY <3>3, <3>4
    <2>2. CASE RebalanceCopy(n)
      BY <2>2 DEF RebalanceCopy, rowVars, PlacementInv, PlacementTypes
    <2> QED  BY <2>1, <2>2
  <1>6. PlacementTypes'
    <2>1. /\ job'.kind \in {"none", "health", "repair", "rebalance"}
          /\ job'.cur \in 0..NumObjects /\ {job'.src, job'.ins} \subseteq 0..NumNodes
      BY <1>1 DEF JobTypes
    <2> QED  BY <1>2, <1>4, <1>5, <2>1 DEF PlacementInv, PlacementTypes, nodeVars
  <1>7. PlacementRows' /\ WriteInv'
    BY <1>2 DEF PlacementInv, PlacementRows, WriteInv, RowNodes
  <1> QED  BY <1>1, <1>6, <1>7 DEF PlacementInv

\* The rebalance takes a row of the object it is at, or inserts one for a stored
\* object with an index that is free.
LEMMA RebalanceRowsInv ==
    ASSUME PlacementInv,
           RebalanceInsert \/ \E n \in Nodes : RebalanceDelete(n)
    PROVE  PlacementInv'
  <1>1. JobTypes'
    BY JobTypesKept
  <1>2. /\ job'.kind \in {"none", "health", "repair", "rebalance"}
        /\ job'.cur \in 0..NumObjects /\ {job'.src, job'.ins} \subseteq 0..NumNodes
    BY <1>1 DEF JobTypes
  <1>3. ASSUME NEW n \in Nodes, RebalanceDelete(n) PROVE PlacementInv'
    <2>1. /\ idx' = [idx EXCEPT ![job.cur][n] = -1]
          /\ state' = [state EXCEPT ![job.cur][n] = "none"]
          /\ UNCHANGED <<nodeVars, obj, write, failures>>
          /\ replicas' = [replicas EXCEPT ![job.cur] = IF n \in up THEN @ \ {n} ELSE @]
      BY <1>3 DEF RebalanceDelete
    <2>2. idx' \in [Objects -> [Nodes -> -1..(NumNodes - 1)]]
      <3> DEFINE I == -1..(NumNodes - 1)
      <3>1. -1 \in I
        BY NumNodesAssumption
      <3>2. idx \in [Objects -> [Nodes -> I]]
        BY DEF PlacementInv, PlacementTypes
      <3> HIDE DEF I
      <3>3. idx' \in [Objects -> [Nodes -> I]]
        BY <2>1, <3>1, <3>2
      <3> QED  BY <3>3 DEF I
    <2>3. state' \in [Objects -> [Nodes -> {"none", "stored", "degraded"}]]
      BY <2>1 DEF PlacementInv, PlacementTypes
    <2>4. replicas' \in [Objects -> SUBSET Nodes]
      BY <2>1 DEF PlacementInv, PlacementTypes
    <2>5. PlacementTypes'
      BY <1>2, <2>1, <2>2, <2>3, <2>4 DEF PlacementInv, PlacementTypes, nodeVars
    <2>6. \A o \in Objects, m \in Nodes : idx'[o][m] = idx[o][m] \/ idx'[o][m] = -1
      BY <2>1 DEF PlacementInv, PlacementTypes
    <2>7. PlacementRows' /\ WriteInv'
      BY <2>1, <2>6 DEF PlacementInv, PlacementRows, WriteInv, RowNodes
    <2> QED  BY <1>1, <2>5, <2>7 DEF PlacementInv
  <1>4. CASE RebalanceInsert /\ rowVars' = rowVars
    <2>1. UNCHANGED <<nodeVars, obj, replicas, idx, state, write, failures>>
      BY <1>4 DEF RebalanceInsert, rowVars
    <2>2. PlacementTypes'
      BY <1>2, <2>1 DEF PlacementInv, PlacementTypes, nodeVars
    <2>3. PlacementRows' /\ WriteInv'
      BY <2>1 DEF PlacementInv, PlacementRows, WriteInv, RowNodes
    <2> QED  BY <1>1, <2>2, <2>3 DEF PlacementInv
  <1>5. CASE RebalanceInsert /\ rowVars' # rowVars
    <2> DEFINE n == job.ins
               i == ReplicaIndex(n)
    <2>1. /\ n # NoNode /\ obj[job.cur] = "stored" /\ ~IndexTaken(job.cur, i)
          /\ idx' = [idx EXCEPT ![job.cur][n] = i]
          /\ state' = [state EXCEPT ![job.cur][n] = "stored"]
          /\ UNCHANGED <<nodeVars, obj, replicas, write, failures>>
      BY <1>5 DEF RebalanceInsert
    <2>2. n \in Nodes /\ job.targets \in SUBSET Nodes
      BY <2>1 DEF PlacementInv, JobTypes, NoNode, Nodes
    <2>3. i \in 0..(NumNodes - 1)
      BY <2>2, PositionType DEF ReplicaIndex
    <2>4. \A m \in Nodes : idx[job.cur][m] # i
      BY <2>1 DEF IndexTaken
    <2> HIDE DEF n, i
    <2>5. idx' \in [Objects -> [Nodes -> -1..(NumNodes - 1)]]
      <3> DEFINE I == -1..(NumNodes - 1)
      <3>1. i \in I
        BY <2>3, NumNodesAssumption
      <3>2. idx \in [Objects -> [Nodes -> I]]
        BY DEF PlacementInv, PlacementTypes
      <3> HIDE DEF I
      <3>3. idx' \in [Objects -> [Nodes -> I]]
        BY <2>1, <3>1, <3>2
      <3> QED  BY <3>3 DEF I
    <2>6. state' \in [Objects -> [Nodes -> {"none", "stored", "degraded"}]]
      BY <2>1 DEF PlacementInv, PlacementTypes
    <2>7. PlacementTypes'
      BY <1>2, <2>1, <2>5, <2>6 DEF PlacementInv, PlacementTypes, nodeVars
    <2>8. PlacementRows'
      <3>1. ASSUME NEW o \in Objects
            PROVE  /\ RowNodes(o)' # {} => obj'[o] = "stored"
                   /\ \A k, m \in RowNodes(o)' : idx'[o][k] = idx'[o][m] => k = m
        <4>1. CASE o = job.cur
          <5>1. \A m \in Nodes : idx'[o][m] = IF m = n THEN i ELSE idx[o][m]
            BY <2>1, <4>1 DEF PlacementInv, PlacementTypes
          <5> QED
            BY <2>1, <2>4, <4>1, <5>1 DEF PlacementInv, PlacementRows, RowNodes
        <4>2. CASE o # job.cur
          <5>1. idx'[o] = idx[o]
            BY <2>1, <4>2 DEF PlacementInv, PlacementTypes
          <5> QED
            BY <2>1, <5>1 DEF PlacementInv, PlacementRows, RowNodes
        <4> QED  BY <4>1, <4>2
      <3> QED  BY <3>1 DEF PlacementRows
    <2>9. WriteInv'
      BY <2>1 DEF PlacementInv, WriteInv
    <2> QED  BY <1>1, <2>7, <2>8, <2>9 DEF PlacementInv
  <1> QED  BY <1>3, <1>4, <1>5

\* Every step keeps the invariant.
LEMMA PlacementNextInv == PlacementInv /\ [PNext]_pvars => PlacementInv'
  <1> SUFFICES ASSUME PlacementInv, [PNext]_pvars PROVE PlacementInv'
    OBVIOUS
  <1>1. CASE UNCHANGED pvars
    BY <1>1 DEF PlacementInv, PlacementTypes, JobTypes, PlacementRows, WriteInv, RowNodes, pvars,
                nodeVars, rowVars
  <1>2. CASE JobStep
    BY <1>2, HealthInv, ReadingInv, CopyInv, RebalanceRowsInv DEF JobStep
  <1>3. CASE PNext
    BY <1>2, <1>3, NodesInv, RequestsInv, HealthInv, ReadingInv DEF PNext
  <1> QED  BY <1>1, <1>3

-----------------------------------------------------------------------------
(* Placement: the node that keeps what it holds.                           *)

\* In particular the first node by name is always a target, while it is active and
\* the operators leave it alone.
LEMMA FirstIsAlwaysTarget == 1 \in InitActive \ Changeable => AlwaysTarget(1)
  <1> SUFFICES ASSUME 1 \in InitActive \ Changeable,
                      NEW S \in SUBSET Nodes, InitActive \ Changeable \subseteq S,
                      NEW k \in Nat
               PROVE  1 \in FirstOnes(k, S)
    BY ReplicasAssumption DEF AlwaysTarget
  <1>1. IsFiniteSet(S) /\ 1 \in S
    <2>1. IsFiniteSet(Nodes)
      BY NumNodesAssumption, FS_Interval DEF Nodes
    <2> QED  BY <2>1, FS_Subset
  <1>2. Cardinality(S) \in Nat /\ Cardinality(S) # 0
    BY <1>1, FS_CardinalityType, FS_EmptySet
  <1>3. Before(1, S) = {}
    <2>1. \A n \in Nodes : n \in Int /\ 1 <= n
      BY NumNodesAssumption DEF Nodes
    <2> QED  BY <2>1 DEF Before
  <1>4. effectiveReplicaCount(k, Cardinality(S)) > 0
    BY <1>2 DEF effectiveReplicaCount
  <1>5. Cardinality(Before(1, S)) = 0
    BY <1>3, FS_EmptySet
  <1> QED  BY <1>1, <1>4, <1>5 DEF FirstOnes

\* With both replica targets 0, which means all, every active node that the operators
\* leave alone is one.
LEMMA AllAreTargets ==
    ASSUME PutReplicas = 0, Replicas = 0, NEW a \in InitActive \ Changeable
    PROVE  AlwaysTarget(a)
  <1> SUFFICES ASSUME NEW S \in SUBSET Nodes, InitActive \ Changeable \subseteq S
               PROVE  a \in FirstOnes(0, S)
    BY DEF AlwaysTarget
  <1>1. IsFiniteSet(S) /\ a \in S
    <2>1. IsFiniteSet(Nodes)
      BY NumNodesAssumption, FS_Interval DEF Nodes
    <2> QED  BY <2>1, FS_Subset
  <1>2. Before(a, S) \in SUBSET (S \ {a})
    <2>1. a \in Int
      BY InitActiveAssumption, NumNodesAssumption
    <2> QED  BY <2>1 DEF Before
  <1>3. /\ IsFiniteSet(S \ {a}) /\ Cardinality(S \ {a}) = Cardinality(S) - 1
        /\ Cardinality(S) \in Nat
    BY <1>1, FS_RemoveElement, FS_CardinalityType
  <1>4. /\ Cardinality(Before(a, S)) <= Cardinality(S) - 1
        /\ Cardinality(Before(a, S)) \in Nat
    BY <1>2, <1>3, FS_Subset, FS_CardinalityType
  <1> QED  BY <1>1, <1>3, <1>4 DEF FirstOnes, effectiveReplicaCount

\* Whatever the operators do, the node is a target of Puts and of the rebalance.
LEMMA HolderIsTarget ==
    ASSUME NEW a \in Nodes, AlwaysTarget(a), PlacementInv, KeptInv
    PROVE  a \in FirstOnes(PutReplicas, Active) /\ a \in Targets
  <1>1. Active \in SUBSET Nodes /\ InitActive \ Changeable \subseteq Active
    BY InitActiveAssumption DEF Active, KeptInv, Nodes
  <1> QED  BY <1>1 DEF AlwaysTarget, Targets

\* What the operators leave alone stays active.
LEMMA KeptStep ==
    ASSUME PlacementInv, KeptInv, [PNext]_pvars
    PROVE  KeptInv'
  <1>1. ASSUME NEW n \in Changeable, NEW s, RegisterNode(n, s) \/ UpdateNodeOperatorState(n, s)
        PROVE  KeptInv'
    <2>1. op' = [op EXCEPT ![n] = s]
      BY <1>1 DEF RegisterNode, UpdateNodeOperatorState
    <2>2. \A m \in InitActive \ Changeable : m # n /\ m \in Nodes
      BY InitActiveAssumption DEF Nodes
    <2> QED  BY <2>1, <2>2 DEF KeptInv, PlacementInv, PlacementTypes
  <1>2. CASE op' = op
    BY <1>2 DEF KeptInv
  <1> QED
    BY <1>1, <1>2
       DEF PNext, pvars, nodeVars, NodeDown, NodeUp, CertificateChanges, RePinNodeTLSIdentity,
           LoseReplica, PutStart, PutStep, PutOne, PutFails, PutCommit, PutDies, Delete,
           RefreshConfiguredNodes, HealthRows, RepairStart, RebalanceStart, JobStep, HealthObjects,
           RepairObject, RepairCopy, RebalanceObject, RebalanceDelete, RebalanceCopy,
           RebalanceInsert, NextObject, JobDone, JobFails

\* Requests: a Put that commits has written all its targets, and one that rolls back or
\* a Delete takes the replicas of an object that is not stored any more.
LEMMA HolderRequests ==
    ASSUME NEW a \in Nodes, AlwaysTarget(a), PlacementInv, HolderInv(a), KeptInv',
           \/ \E o \in Objects : PutStart(o) \/ Delete(o)
           \/ PutStep \/ PutDies
    PROVE  HolderInv(a)'
  <1>1. job' = job
    BY DEF PutStart, Delete, PutStep, PutOne, PutFails, PutCommit, PutDies
  <1>2. ASSUME NEW o \in Objects, PutStart(o) PROVE HolderInv(a)'
    <2>1. a \in FirstOnes(PutReplicas, Active)
      BY HolderIsTarget DEF HolderInv
    <2>2. write'.targets = FirstOnes(PutReplicas, Active) /\ write'.written = {}
          /\ replicas' = replicas /\ obj' = [obj EXCEPT ![o] = "writing"]
      BY <1>2 DEF PutStart
    <2> QED  BY <1>1, <2>1, <2>2 DEF HolderInv, PlacementInv, PlacementTypes
  <1>3. ASSUME NEW o \in Objects, Delete(o) PROVE HolderInv(a)'
    <2>1. /\ obj[o] = "stored" /\ obj' = [obj EXCEPT ![o] = "gone"]
          /\ replicas' = [replicas EXCEPT ![o] = @ \ up] /\ write' = write
      BY <1>3 DEF Delete
    <2>2. write # NoWrite => write.obj # o
      BY <2>1 DEF PlacementInv, WriteInv
    <2> QED  BY <1>1, <2>1, <2>2 DEF HolderInv, PlacementInv, PlacementTypes
  <1>4. CASE PutOne
    <2> PICK n \in write.targets \ write.written :
               /\ replicas' = [replicas EXCEPT ![write.obj] = @ \cup {n}]
               /\ write' = [write EXCEPT !.written = @ \cup {n}]
               /\ obj' = obj
      BY <1>4 DEF PutOne
    <2>1. write # NoWrite
      BY DEF NoWrite
    <2>2. write'.targets = write.targets /\ write'.obj = write.obj
          /\ write'.written = write.written \cup {n}
      BY DEF PlacementInv, PlacementTypes
    <2>3. write.obj \in Objects
      BY <2>1 DEF PlacementInv, WriteInv
    <2> QED  BY <1>1, <2>1, <2>2, <2>3 DEF HolderInv, PlacementInv, PlacementTypes
  <1>5. CASE PutFails \/ PutDies
    <2>1. write # NoWrite
      BY <1>5 DEF PutFails, PutDies, NoWrite
    <2>2. write' = NoWrite /\ obj' = [obj EXCEPT ![write.obj] = "gone"]
      BY <1>5 DEF PutFails, PutDies
    <2>3. write.obj \in Objects
      BY <2>1 DEF PlacementInv, WriteInv
    <2>4. \A o \in Objects \ {write.obj} : replicas'[o] = replicas[o]
      BY <1>5, <2>3 DEF PutFails, PutDies, PlacementInv, PlacementTypes
    <2> QED  BY <1>1, <2>2, <2>3, <2>4 DEF HolderInv, PlacementInv, PlacementTypes
  <1>6. CASE PutCommit
    <2>1. write # NoWrite /\ write.written = write.targets
      BY <1>6 DEF PutCommit, NoWrite
    <2>2. write' = NoWrite /\ obj' = [obj EXCEPT ![write.obj] = "stored"] /\ replicas' = replicas
      BY <1>6 DEF PutCommit
    <2> QED  BY <1>1, <2>1, <2>2 DEF HolderInv, PlacementInv, PlacementTypes
  <1> QED  BY <1>2, <1>3, <1>4, <1>5, <1>6 DEF PutStep

\* Nodes, operators and jobs: a job deletes on nodes that were not targets when it
\* began, and the node has always been one.
LEMMA HolderStep ==
    ASSUME NEW a \in Nodes, AlwaysTarget(a), PlacementInv, HolderInv(a), KeptInv',
           [PNext]_pvars, [Keeps(a)]_pvars
    PROVE  HolderInv(a)'
  <1>1. ASSUME obj' = obj, write' = write, \A o \in Objects : a \in replicas[o] => a \in replicas'[o],
               a \notin job'.del, job'.kind = "rebalance" => a \in job'.targets
        PROVE  HolderInv(a)'
    BY <1>1 DEF HolderInv, PlacementInv, WriteInv
  <1>2. ASSUME replicas' = replicas, job' = job, obj' = obj, write' = write
        PROVE  HolderInv(a)'
    BY <1>1, <1>2 DEF HolderInv
  <1>3. CASE UNCHANGED pvars
    BY <1>2, <1>3 DEF pvars, nodeVars, rowVars
  <1>4. ASSUME NEW n \in Nodes,
               NodeDown(n) \/ NodeUp(n) \/ CertificateChanges(n) \/ RePinNodeTLSIdentity(n)
        PROVE  HolderInv(a)'
    BY <1>2, <1>4 DEF NodeDown, NodeUp, CertificateChanges, RePinNodeTLSIdentity
  <1>5. ASSUME NEW n \in Changeable, NEW s \in Operations,
               RegisterNode(n, s) \/ UpdateNodeOperatorState(n, s)
        PROVE  HolderInv(a)'
    BY <1>2, <1>5 DEF RegisterNode, UpdateNodeOperatorState
  <1>6. CASE RefreshConfiguredNodes
    BY <1>2, <1>6 DEF RefreshConfiguredNodes
  <1>7. ASSUME NEW o \in Objects, NEW n \in Nodes, LoseReplica(o, n) PROVE HolderInv(a)'
    <2>1. n \in replicas[o] /\ replicas' = [replicas EXCEPT ![o] = @ \ {n}]
      BY <1>7 DEF LoseReplica
    <2>2. replicas' # replicas
      BY <2>1 DEF PlacementInv, PlacementTypes
    <2>3. n # a
      BY <1>7, <2>2 DEF Keeps, pvars
    <2>4. UNCHANGED <<job, obj, write>>
      BY <1>7 DEF LoseReplica
    <2> QED  BY <1>1, <2>1, <2>3, <2>4 DEF HolderInv, PlacementInv, PlacementTypes
  <1>8. CASE HealthRows \/ HealthObjects \/ RepairStart \/ JobDone \/ JobFails
    <2>1. UNCHANGED <<obj, write, replicas>>
      BY <1>8 DEF HealthRows, HealthObjects, RepairStart, JobDone, JobFails
    <2>2. job'.del = {} /\ job'.kind # "rebalance"
      <3>1. CASE HealthRows
        BY <3>1 DEF HealthRows, NoJob
      <3>2. CASE RepairStart
        BY <3>2 DEF RepairStart, NoJob
      <3>3. CASE HealthObjects \/ JobDone \/ JobFails
        BY <3>3 DEF HealthObjects, JobDone, JobFails, NoJob
      <3> QED  BY <1>8, <3>1, <3>2, <3>3
    <2> QED  BY <1>1, <2>1, <2>2
  <1>9. CASE RebalanceStart
    <2>1. a \in Targets
      BY HolderIsTarget DEF HolderInv
    <2>2. UNCHANGED <<obj, write, replicas>> /\ job'.del = {} /\ job'.targets = Targets
      BY <1>9 DEF RebalanceStart, NoJob
    <2> QED  BY <1>1, <2>1, <2>2
  <1>10. CASE NextObject \/ RebalanceInsert \/ \E o \in Objects : RepairObject(o)
    <2>1. UNCHANGED <<obj, write, replicas>>
      BY <1>10 DEF NextObject, RebalanceInsert, RepairObject
    <2>2. \/ job' = NoJob
          \/ job'.del = job.del /\ job'.targets = job.targets /\ job'.kind = job.kind
      BY <1>10 DEF NextObject, RebalanceInsert, RepairObject, PlacementInv, JobTypes
    <2> QED  BY <1>1, <2>1, <2>2 DEF HolderInv, NoJob
  <1>11. ASSUME NEW n \in Nodes, RepairCopy(n) \/ RebalanceCopy(n) PROVE HolderInv(a)'
    <2>1. UNCHANGED <<obj, write>>
      BY <1>11 DEF RepairCopy, RebalanceCopy
    <2>2. replicas' = replicas \/ replicas' = [replicas EXCEPT ![job.cur] = @ \cup {n}]
      BY <1>11 DEF RepairCopy, RebalanceCopy
    <2>3. job'.del = job.del /\ job'.targets = job.targets /\ job'.kind = job.kind
      BY <1>11 DEF RepairCopy, RebalanceCopy, PlacementInv, JobTypes
    <2>4. \A o \in Objects : a \in replicas[o] => a \in replicas'[o]
      BY <2>2 DEF PlacementInv, PlacementTypes
    <2> QED  BY <1>1, <2>1, <2>3, <2>4 DEF HolderInv
  <1>12. ASSUME NEW o \in Objects, RebalanceObject(o) PROVE HolderInv(a)'
    <2>1. UNCHANGED <<obj, write, replicas>> /\ job.kind = "rebalance"
      BY <1>12 DEF RebalanceObject
    <2>2. job'.del = SnapNodes(o) \ job.targets /\ job'.targets = job.targets
      BY <1>12 DEF RebalanceObject, PlacementInv, JobTypes
    <2> QED  BY <1>1, <2>1, <2>2 DEF HolderInv
  <1>13. ASSUME NEW n \in Nodes, RebalanceDelete(n) PROVE HolderInv(a)'
    <2>1. /\ UNCHANGED <<obj, write>> /\ n \in job.del
          /\ replicas' = [replicas EXCEPT ![job.cur] = IF n \in up THEN @ \ {n} ELSE @]
      BY <1>13 DEF RebalanceDelete
    <2>2. job'.del = job.del \ {n} /\ job'.targets = job.targets /\ job'.kind = job.kind
      BY <1>13 DEF RebalanceDelete, PlacementInv, JobTypes
    <2>3. n # a
      BY <2>1 DEF HolderInv
    <2>4. \A o \in Objects : a \in replicas[o] => a \in replicas'[o]
      BY <2>1, <2>3 DEF PlacementInv, PlacementTypes
    <2> QED  BY <1>1, <2>1, <2>2, <2>4 DEF HolderInv
  <1>14. CASE JobStep
    BY <1>8, <1>10, <1>11, <1>12, <1>13, <1>14 DEF JobStep
  <1> QED
    BY <1>3, <1>4, <1>5, <1>6, <1>7, <1>8, <1>9, <1>14, HolderRequests DEF PNext

\* The invariant holds before anything is stored.
LEMMA HolderInit == ASSUME NEW a \in Nodes PROVE PInit => HolderInv(a)
  BY InitActiveAssumption DEF PInit, HolderInv, KeptInv, NoWrite, NoJob, Nodes

-----------------------------------------------------------------------------
(* Placement: what follows for every behaviour.                            *)

\* The types of the tables and of the jobs, and the rows of the placements: only a
\* stored object has some, and its replica indexes differ, so that no insert of
\* recordPlacements meets the unique index.
THEOREM PlacementInvariance == PSpec => []PlacementInv
  BY PlacementInitInv, PlacementNextInv, PTL DEF PSpec

\* Every stored object has a replica, whatever Puts, roll-backs, deletions, repairs and
\* rebalances do at once, whatever other nodes and the worker suffer, and wherever the operators
\* put the other nodes, as long as one node that is always a target keeps what it holds.
THEOREM StoredObjectsAreHeld ==
    ASSUME NEW a \in Nodes, AlwaysTarget(a)
    PROVE  PSpec /\ [][Keeps(a)]_pvars => []EveryObjectHasReplica
  <1>1. PInit => HolderInv(a)
    BY HolderInit
  <1>2. PlacementInv /\ HolderInv(a) /\ [PNext]_pvars /\ [Keeps(a)]_pvars => HolderInv(a)'
    <2> SUFFICES ASSUME PlacementInv, HolderInv(a), [PNext]_pvars, [Keeps(a)]_pvars
                 PROVE  HolderInv(a)'
      OBVIOUS
    <2>1. KeptInv'
      BY KeptStep DEF HolderInv
    <2> QED  BY <2>1, HolderStep
  <1>3. HolderInv(a) => EveryObjectHasReplica
    BY DEF HolderInv, EveryObjectHasReplica
  <1> QED
    BY <1>1, <1>2, <1>3, PlacementInvariance, PTL DEF PSpec
=============================================================================
