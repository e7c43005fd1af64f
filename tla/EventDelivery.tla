--------------------------- MODULE EventDelivery ---------------------------
(***************************************************************************)
(* Webhook events (package events): Emit writes one delivery row per       *)
(* subscribed target, DeliverPending claims due rows, posts them and       *)
(* records the outcome.                                                    *)
(*                                                                         *)
(* A runner is an invocation of DeliverPending by the worker's job         *)
(* event_delivery_retry; two of them overlap when the job is recovered as  *)
(* stale while it still runs.  dueq orders the claimable rows by           *)
(* next_attempt_at, which is the order in which they become due.           *)
(***************************************************************************)
EXTENDS Integers, Sequences, SequencesExt

CONSTANTS
    Runners,      \* overlapping invocations of DeliverPending
    Events,       \* events the API may emit
    Targets,      \* webhook targets an operator may create
    Types,        \* event types
    None,         \* no delivery
    MaxAttempts,  \* attempts before a delivery is dead (5)
    Limit,        \* deliveries per invocation (10)
    MaxFaults     \* bound: crashes, failed and unacknowledged statements

ASSUME AttemptsAssumption == MaxAttempts \in Nat \ {0}
ASSUME LimitAssumption == Limit \in Nat \ {0}
ASSUME FaultsAssumption == MaxFaults \in Nat
ASSUME TypesAssumption == "*" \notin Types /\ "" \notin Types

Deliveries == Events \X Targets

ASSUME NoDeliveryAssumption == None \notin Deliveries

VARIABLES
    subs,     \* normalized event types of each target; {}: not created
    emitting, \* targets the Emit of an event still has to write rows for
    emitted,  \* events whose Emit has begun
    status,   \* status of each delivery row; "absent": no row
    attempts, \* attempts column
    dueq,     \* claimable rows, oldest next_attempt_at first
    pc,       \* where each runner is
    item,     \* what a runner has claimed, with the attempts it read
    left,     \* deliveries a runner may still claim
    answer,   \* outcome of the post, as the runner sees it
    received, \* history: deliveries the receiver has got
    faults    \* faults so far

rowVars == <<status, attempts, dueq>>
runVars == <<pc, item, left, answer>>
emitVars == <<subs, emitting, emitted>>
vars == <<emitVars, rowVars, runVars, received, faults>>

NoItem == [id |-> None, attempts |-> 0]

Settled == {"delivered", "dead_letter"}

Init ==
    /\ subs = [t \in Targets |-> {}]
    /\ emitting = [e \in Events |-> {}]
    /\ emitted = {}
    /\ status = [d \in Deliveries |-> "absent"]
    /\ attempts = [d \in Deliveries |-> 0]
    /\ dueq = <<>>
    /\ pc = [r \in Runners |-> "idle"]
    /\ item = [r \in Runners |-> NoItem]
    /\ left = [r \in Runners |-> 0]
    /\ answer = [r \in Runners |-> "none"]
    /\ received = {}
    /\ faults = 0

Faulty == faults < MaxFaults /\ faults' = faults + 1

-----------------------------------------------------------------------------
(* Targets and Emit.                                                       *)

\* Blank items are dropped; nothing left means every event.
normalizeEventTypes(items) ==
    LET kept == items \ {""} IN IF kept = {} THEN {"*"} ELSE kept

matchesEventType(items, type) == "*" \in items \/ type \in items

CreateTarget(t, items) ==
    /\ subs[t] = {}
    /\ subs' = [subs EXCEPT ![t] = normalizeEventTypes(items)]
    /\ UNCHANGED <<emitting, emitted, rowVars, runVars, received, faults>>

\* matchingTargets.
EmitStart(e, type) ==
    /\ e \notin emitted
    /\ emitted' = emitted \cup {e}
    /\ emitting' = [emitting EXCEPT ![e] = {t \in Targets : matchesEventType(subs[t], type)}]
    /\ UNCHANGED <<subs, rowVars, runVars, received, faults>>

\* One INSERT; each commits by itself.
EmitInsert(e, t) ==
    /\ t \in emitting[e]
    /\ emitting' = [emitting EXCEPT ![e] = @ \ {t}]
    /\ status' = [status EXCEPT ![<<e, t>>] = "pending"]
    /\ dueq' = Append(dueq, <<e, t>>)
    /\ UNCHANGED <<subs, emitted, attempts, runVars, received, faults>>

\* An INSERT fails or the API dies: the remaining targets get no row, and the
\* callers ignore the error.
EmitFails(e) ==
    /\ emitting[e] # {} /\ Faulty
    /\ emitting' = [emitting EXCEPT ![e] = {}]
    /\ UNCHANGED <<subs, emitted, rowVars, runVars, received>>

-----------------------------------------------------------------------------
(* DeliverPending.                                                         *)

Goto(r, step) == pc' = [pc EXCEPT ![r] = step]

\* The invocation returns or dies.
Return(r) ==
    /\ Goto(r, "idle")
    /\ item' = [item EXCEPT ![r] = NoItem]
    /\ left' = [left EXCEPT ![r] = 0]
    /\ answer' = [answer EXCEPT ![r] = "none"]

DeliverPending(r) ==
    /\ pc[r] = "idle"
    /\ Goto(r, "claim")
    /\ left' = [left EXCEPT ![r] = Limit]
    /\ UNCHANGED <<emitVars, rowVars, item, answer, received, faults>>

\* Mutant: the row is not marked as taken.
claimNextDeliveryUnmarked(r) ==
    /\ pc[r] = "claim" /\ dueq # <<>>
    /\ item' = [item EXCEPT ![r] = [id |-> Head(dueq), attempts |-> attempts[Head(dueq)]]]
    /\ Goto(r, "send")
    /\ UNCHANGED <<emitVars, rowVars, left, answer, received, faults>>

\* The row's status becomes running, so that no query selects it.
claimNextDelivery(r) ==
    /\ pc[r] = "claim" /\ dueq # <<>>
    /\ item' = [item EXCEPT ![r] = [id |-> Head(dueq), attempts |-> attempts[Head(dueq)]]]
    /\ status' = [status EXCEPT ![Head(dueq)] = "running"]
    /\ dueq' = Tail(dueq)
    /\ Goto(r, "send")
    /\ UNCHANGED <<emitVars, attempts, left, answer, received, faults>>

NothingDue(r) ==
    /\ pc[r] = "claim" /\ dueq = <<>>
    /\ Return(r)
    /\ UNCHANGED <<emitVars, rowVars, received, faults>>

\* deliverOne up to the answer: the receiver accepts, refuses or is not
\* reached, or accepts after the client has given up.
Post(r, outcome) ==
    /\ pc[r] = "send"
    /\ answer' = [answer EXCEPT ![r] = IF outcome = "accepted" THEN "ok" ELSE "failed"]
    /\ received' = IF outcome = "refused" THEN received ELSE received \cup {item[r].id}
    /\ Goto(r, "mark")
    /\ UNCHANGED <<emitVars, rowVars, item, left, faults>>

\* Mutant: one attempt too many.
OutcomeOffByOne(r) ==
    CASE answer[r] = "ok" -> "delivered"
      [] answer[r] # "ok" /\ item[r].attempts >= MaxAttempts -> "dead_letter"
      [] OTHER -> "retrying"

\* Mutant: a late answer counts as a delivery.
OutcomeIgnoringAnswer(r) == "delivered"

\* The rest of deliverOne, and markFailure: its limit counts from the attempts
\* read with the claim.
Outcome(r) ==
    CASE answer[r] = "ok" -> "delivered"
      [] answer[r] # "ok" /\ item[r].attempts + 1 >= MaxAttempts -> "dead_letter"
      [] OTHER -> "retrying"

Record(r) ==
    /\ status' = [status EXCEPT ![item[r].id] = Outcome(r)]
    /\ attempts' = [attempts EXCEPT ![item[r].id] = @ + 1]
    /\ UNCHANGED dueq

Mark(r) ==
    /\ pc[r] = "mark"
    /\ Record(r)
    /\ IF left[r] = 1
       THEN Return(r)
       ELSE /\ Goto(r, "claim")
            /\ item' = [item EXCEPT ![r] = NoItem]
            /\ left' = [left EXCEPT ![r] = @ - 1]
            /\ answer' = [answer EXCEPT ![r] = "none"]
    /\ UNCHANGED <<emitVars, received, faults>>

\* Mutant: the query takes pending rows only.
BecomesDuePending(d) ==
    /\ status[d] = "pending" /\ d \notin Range(dueq)
    /\ dueq' = Append(dueq, d)
    /\ UNCHANGED <<emitVars, status, attempts, runVars, received, faults>>

\* next_attempt_at of a failed delivery passes.
BecomesDue(d) ==
    /\ status[d] = "retrying" /\ d \notin Range(dueq)
    /\ dueq' = Append(dueq, d)
    /\ UNCHANGED <<emitVars, status, attempts, runVars, received, faults>>

-----------------------------------------------------------------------------
(* Faults: nothing takes a row out of status running but its runner.       *)

\* The audit record fails after the row was written: the invocation ends.
AuditFails(r) ==
    /\ pc[r] = "mark" /\ Faulty
    /\ Record(r)
    /\ Return(r)
    /\ UNCHANGED <<emitVars, received>>

\* A claim commits and its answer is lost.
ClaimUnacknowledged(r) ==
    /\ pc[r] = "claim" /\ dueq # <<>> /\ Faulty
    /\ status' = [status EXCEPT ![Head(dueq)] = "running"]
    /\ dueq' = Tail(dueq)
    /\ Return(r)
    /\ UNCHANGED <<emitVars, attempts, received>>

\* A statement fails or the worker dies.
Stop(r) ==
    /\ pc[r] # "idle" /\ Faulty
    /\ Return(r)
    /\ UNCHANGED <<emitVars, rowVars, received>>

-----------------------------------------------------------------------------
Step(r) ==
    \/ DeliverPending(r)
    \/ claimNextDelivery(r)
    \/ NothingDue(r)
    \/ \E outcome \in {"accepted", "refused", "late"} : Post(r, outcome)
    \/ Mark(r)

EmitStep(e) == \E t \in Targets : EmitInsert(e, t)

Next ==
    \/ \E t \in Targets, items \in SUBSET (Types \cup {"*", ""}) : CreateTarget(t, items)
    \/ \E e \in Events, type \in Types : EmitStart(e, type)
    \/ \E e \in Events : EmitStep(e)
    \/ \E e \in Events : EmitFails(e)
    \/ \E r \in Runners : Step(r)
    \/ \E d \in Deliveries : BecomesDue(d)
    \/ \E r \in Runners : AuditFails(r) \/ ClaimUnacknowledged(r) \/ Stop(r)

Spec == Init /\ [][Next]_vars

\* The job runs every 15 seconds and each of its steps ends (the HTTP client
\* gives up after 5 seconds); the API process and time go on.
Fairness ==
    /\ \A r \in Runners : WF_vars(Step(r))
    /\ \A e \in Events : WF_vars(EmitStep(e))
    /\ \A d \in Deliveries : WF_vars(BecomesDue(d))

FairSpec == Spec /\ Fairness

-----------------------------------------------------------------------------
\* Types of the tables and the runners.  The event types of a target are what
\* normalizeEventTypes leaves of them, and no row counts more attempts than
\* markFailure allows.
TypeOK ==
    /\ subs \in [Targets -> SUBSET (Types \cup {"*"})]
    /\ emitting \in [Events -> SUBSET Targets]
    /\ emitted \subseteq Events
    /\ status \in [Deliveries -> {"absent", "pending", "running", "retrying"} \cup Settled]
    /\ attempts \in [Deliveries -> 0..MaxAttempts]
    /\ dueq \in Seq(Deliveries)
    /\ pc \in [Runners -> {"idle", "claim", "send", "mark"}]
    /\ item \in [Runners -> [id: Deliveries \cup {None}, attempts: 0..MaxAttempts]]
    /\ left \in [Runners -> 0..Limit]
    /\ answer \in [Runners -> {"none", "ok", "failed"}]
    /\ received \subseteq Deliveries
    /\ faults \in 0..MaxFaults

\* The attempts column and the status tell the same story, though markFailure
\* decides by the attempts it read with the claim and the UPDATE counts in the
\* row: a delivery is retried while attempts remain, and dead after the last.
RetryBudget ==
    \A d \in Deliveries :
        /\ status[d] = "retrying" => attempts[d] \in 1..(MaxAttempts - 1)
        /\ status[d] = "running" => attempts[d] < MaxAttempts
        /\ status[d] = "dead_letter" => attempts[d] = MaxAttempts

\* Overlapping invocations never post the same delivery at the same time.
NoDoubleSend ==
    \A q, r \in Runners : item[q].id = item[r].id /\ item[q].id # None => q = r

\* What is reported as delivered has reached the receiver.
DeliveredWasReceived == \A d \in Deliveries : status[d] = "delivered" => d \in received

\* A claimed row that no runner holds: its worker died, lost the database or
\* never learned of the claim.
Abandoned(d) == status[d] = "running" /\ \A r \in Runners : item[r].id # d

\* Whatever the receiver answers and whatever happens to other deliveries, a
\* delivery is delivered or becomes a dead letter, unless its own claim is
\* abandoned.
HeldDeliveriesSettle ==
    \A d \in Deliveries : status[d] # "absent" ~> status[d] \in Settled \/ Abandoned(d)

=============================================================================
