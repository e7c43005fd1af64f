------------------------------ MODULE JobQueue ------------------------------
(***************************************************************************)
(* The recurring jobs of the table "jobs" (package jobs) and the workers   *)
(* that run them (cmd/worker).                                             *)
(*                                                                         *)
(* Time is what the queries see of it: a job becomes due when next_run_at  *)
(* passes and stale when it has been running for staleAfter.  dueq holds   *)
(* the due jobs in the order they became due, which is the order of their  *)
(* next_run_at.                                                            *)
(***************************************************************************)
EXTENDS Integers, Sequences, SequencesExt

CONSTANTS
    Workers,    \* worker processes
    Jobs,       \* job types that have or may get a row
    Handled,    \* job types this release has a handler for
    None,       \* no job
    Overload,   \* a job may become due again before the pass that ran it ends
    MaxFaults   \* bound: crashes, failed and unacknowledged statements

ASSUME JobsAssumption == Handled \subseteq Jobs /\ None \notin Jobs
ASSUME OverloadAssumption == Overload \in BOOLEAN
ASSUME MaxFaultsAssumption == MaxFaults \in Nat

VARIABLES
    status,  \* status of each row; "absent": no row
    stale,   \* running rows whose updated_at is staleAfter ago
    late,    \* history: jobs that are run by a worker for longer than staleAfter
    dueq,    \* jobs whose next_run_at has passed, oldest first
    pc,      \* where each worker is in runDueJobs
    cur,     \* the job a worker has claimed
    done,    \* jobs a worker has run since its pass over the queue began
    faults   \* faults so far

vars == <<status, stale, late, dueq, pc, cur, done, faults>>

Phases == {"down", "wait", "reset", "claim", "run"}

Due == Range(dueq)

Running(w, j) == pc[w] = "run" /\ cur[w] = j

\* The jobs of an earlier release keep their rows.
Init ==
    /\ status = [j \in Jobs |-> IF j \in Handled THEN "absent" ELSE "pending"]
    /\ stale = {}
    /\ late = {}
    /\ dueq = <<>>
    /\ pc = [w \in Workers |-> "down"]
    /\ cur = [w \in Workers |-> None]
    /\ done = [w \in Workers |-> {}]
    /\ faults = 0

-----------------------------------------------------------------------------
Goto(w, phase) == pc' = [pc EXCEPT ![w] = phase]

\* runDueJobs returns or the process dies.
EndPass(w, phase) == Goto(w, phase) /\ done' = [done EXCEPT ![w] = {}]

\* Worker w runs its job no longer.
Leave(w) ==
    /\ cur' = [cur EXCEPT ![w] = None]
    /\ late' = IF \E v \in Workers \ {w} : Running(v, cur[w]) THEN late ELSE late \ {cur[w]}

Faulty == faults < MaxFaults /\ faults' = faults + 1

\* Mutant: EnsureRecurring is not called.
StartWithoutRows(w) ==
    /\ pc[w] = "down"
    /\ Goto(w, "reset")
    /\ UNCHANGED <<status, stale, late, dueq, cur, done, faults>>

\* EnsureRecurring for every handler: a row that exists keeps its status and
\* its next_run_at.  runDueJobs follows at once.
Start(w) ==
    /\ pc[w] = "down"
    /\ status' = [j \in Jobs |-> IF j \in Handled /\ status[j] = "absent"
                                 THEN "pending" ELSE status[j]]
    /\ Goto(w, "reset")
    /\ UNCHANGED <<stale, late, dueq, cur, done, faults>>

Tick(w) ==
    /\ pc[w] = "wait"
    /\ Goto(w, "reset")
    /\ UNCHANGED <<status, stale, late, dueq, cur, done, faults>>

\* Mutant: the age of the run is not looked at.
ResetStaleRunningAny(w) ==
    /\ pc[w] = "reset"
    /\ status' = [j \in Jobs |-> IF status[j] = "running" THEN "pending" ELSE status[j]]
    /\ stale' = {}
    /\ Goto(w, "claim")
    /\ UNCHANGED <<late, dueq, cur, done, faults>>

\* Mutant: stale jobs are left to their worker.
ResetStaleRunningNone(w) ==
    /\ pc[w] = "reset"
    /\ Goto(w, "claim")
    /\ UNCHANGED <<status, stale, late, dueq, cur, done, faults>>

\* next_run_at stays as it is, so the job is due already.
ResetStaleRunning(w) ==
    /\ pc[w] = "reset"
    /\ status' = [j \in Jobs |-> IF j \in stale THEN "pending" ELSE status[j]]
    /\ stale' = {}
    /\ Goto(w, "claim")
    /\ UNCHANGED <<late, dueq, cur, done, faults>>

\* ClaimDue takes the pending job that became due first.
Claimable(i) ==
    /\ i \in DOMAIN dueq /\ status[dueq[i]] = "pending"
    /\ \A k \in 1..(i - 1) : status[dueq[k]] # "pending"

\* Mutant: the claim does not mark the row.
ClaimDueUnmarked(w, i) ==
    /\ pc[w] = "claim" /\ Claimable(i)
    /\ cur' = [cur EXCEPT ![w] = dueq[i]]
    /\ Goto(w, "run")
    /\ UNCHANGED <<status, stale, late, dueq, done, faults>>

ClaimDue(w, i) ==
    /\ pc[w] = "claim" /\ Claimable(i)
    /\ status' = [status EXCEPT ![dueq[i]] = "running"]
    /\ cur' = [cur EXCEPT ![w] = dueq[i]]
    /\ Goto(w, "run")
    /\ UNCHANGED <<stale, late, dueq, done, faults>>

NoDueJobs(w) ==
    /\ pc[w] = "claim"
    /\ \A i \in DOMAIN dueq : status[dueq[i]] # "pending"
    /\ EndPass(w, "wait")
    /\ UNCHANGED <<status, stale, late, dueq, cur, faults>>

\* The reset or the claim returns an error: runDueJobs ends.
StatementFails(w) ==
    /\ pc[w] \in {"reset", "claim"} /\ Faulty
    /\ EndPass(w, "wait")
    /\ UNCHANGED <<status, stale, late, dueq, cur>>

\* The claim commits but its answer is lost: the job runs nowhere.
ClaimUnacknowledged(w, i) ==
    /\ pc[w] = "claim" /\ Claimable(i) /\ Faulty
    /\ status' = [status EXCEPT ![dueq[i]] = "running"]
    /\ EndPass(w, "wait")
    /\ UNCHANGED <<stale, late, dueq, cur>>

\* next_run_at moves on: a job that is due, once at most, leaves the order.
Postponed(j) ==
    IF j \in Due THEN RemoveAt(dueq, CHOOSE i \in DOMAIN dueq : dueq[i] = j) ELSE dueq

\* The handler returned, well or badly, or there is none.  Complete and Fail
\* write the row by id, whatever its status and whoever runs it by then.
Finish(w) ==
    /\ pc[w] = "run"
    /\ status' = [status EXCEPT ![cur[w]] = "pending"]
    /\ stale' = stale \ {cur[w]}
    /\ dueq' = Postponed(cur[w])
    /\ done' = [done EXCEPT ![w] = @ \cup {cur[w]}]
    /\ Leave(w)
    /\ Goto(w, "claim")
    /\ UNCHANGED faults

\* The error of Complete and Fail is ignored.
FinishFails(w) ==
    /\ pc[w] = "run" /\ Faulty
    /\ done' = [done EXCEPT ![w] = @ \cup {cur[w]}]
    /\ Leave(w)
    /\ Goto(w, "claim")
    /\ UNCHANGED <<status, stale, dueq>>

Crash(w) ==
    /\ pc[w] # "down" /\ Faulty
    /\ Leave(w)
    /\ EndPass(w, "down")
    /\ UNCHANGED <<status, stale, dueq>>

\* next_run_at passes.  A handler that takes longer than another job's interval
\* (15 s and more) lets that job come due again within the same pass: Overload.
BecomesDue(j) ==
    /\ status[j] # "absent" /\ j \notin Due
    /\ ~(Overload /\ \E w \in Workers : pc[w] = "run") => \A w \in Workers : j \notin done[w]
    /\ dueq' = Append(dueq, j)
    /\ UNCHANGED <<status, stale, late, pc, cur, done, faults>>

\* staleAfter (10 s) has passed since the claim; the run may be going on.
GoesStale(j) ==
    /\ status[j] = "running" /\ j \notin stale
    /\ stale' = stale \cup {j}
    /\ late' = IF \E w \in Workers : Running(w, j) THEN late \cup {j} ELSE late
    /\ UNCHANGED <<status, dueq, pc, cur, done, faults>>

-----------------------------------------------------------------------------
Step(w) ==
    \/ Start(w)
    \/ Tick(w)
    \/ ResetStaleRunning(w)
    \/ \E i \in DOMAIN dueq : ClaimDue(w, i)
    \/ NoDueJobs(w)
    \/ Finish(w)

Fault(w) ==
    \/ StatementFails(w)
    \/ \E i \in DOMAIN dueq : ClaimUnacknowledged(w, i)
    \/ FinishFails(w)
    \/ Crash(w)

Next ==
    \/ \E w \in Workers : Step(w)
    \/ \E w \in Workers : Fault(w)
    \/ \E j \in Jobs : BecomesDue(j)
    \/ \E j \in Jobs : GoesStale(j)

\* The process is restarted, the ticker fires, handlers return and time passes.
Fairness ==
    /\ \A w \in Workers : WF_vars(Step(w))
    /\ \A j \in Jobs : WF_vars(BecomesDue(j)) /\ WF_vars(GoesStale(j))

Spec == Init /\ [][Next]_vars

FairSpec == Spec /\ Fairness

-----------------------------------------------------------------------------
\* Types of the table and the workers.  Complete and Fail leave a row pending:
\* no third status exists that ClaimDue and ResetStaleRunning would not select.
TypeOK ==
    /\ status \in [Jobs -> {"absent", "pending", "running"}]
    /\ stale \in SUBSET Jobs /\ late \in SUBSET Jobs
    /\ dueq \in Seq(Jobs)
    /\ pc \in [Workers -> Phases]
    /\ cur \in [Workers -> Jobs \cup {None}]
    /\ done \in [Workers -> SUBSET Jobs]
    /\ faults \in 0..MaxFaults

\* No job runs on two workers at once, whatever crashes and whatever statement
\* fails, unless one of its runs outlasts staleAfter: the row lock and the status
\* keep the claims apart, and the recovery takes only what no one runs.
NoOverlap ==
    \A j \in Jobs \ late, v, w \in Workers : Running(v, j) /\ Running(w, j) => v = w

\* A job that is being run is marked so and stays due until it is finished: the
\* recovery finds it if its worker dies.
RunsAreRecorded ==
    \A w \in Workers, j \in Jobs \ late :
        Running(w, j) => status[j] = "running" /\ j \in Due /\ j \notin stale

\* A job left running by a dead worker or a lost answer becomes pending again
\* ("marks the stale job recoverable, reclaims and reruns it").
StaleJobRecovered == \A j \in Jobs : status[j] = "running" ~> status[j] = "pending"

\* Every recurring job is run again and again: the order of next_run_at starves
\* none, a job without a handler included.
EveryJobRuns == \A j \in Jobs : []<>(\E w \in Workers : Running(w, j))
=============================================================================
