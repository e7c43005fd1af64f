------------------------ MODULE EventDeliveryProofs ------------------------
(***************************************************************************)
(* Webhook deliveries, for any number of runners, events, targets,         *)
(* attempts and faults: attempts and status agree, no delivery is posted   *)
(* by two runners at once, what is called delivered was received, and a    *)
(* settled delivery stays as it is.                                        *)
(***************************************************************************)
EXTENDS EventDelivery, TLAPS

-----------------------------------------------------------------------------
(* The inductive invariant.                                                *)

\* An event's targets wait for their rows, which are not there yet, and an event
\* has rows only once it has been emitted.
EmitInv ==
    \A e \in Events, t \in Targets :
        /\ t \in emitting[e] => e \in emitted /\ status[<<e, t>>] = "absent"
        /\ status[<<e, t>>] # "absent" => e \in emitted

\* A row is in the queue once at most, and only while a claim may take it.
QueueInv ==
    /\ \A i \in DOMAIN dueq : status[dueq[i]] \in {"pending", "retrying"}
    /\ \A i, j \in DOMAIN dueq : dueq[i] = dueq[j] => i = j

\* A row that was never posted counts no attempts.
FreshInv == \A d \in Deliveries : status[d] \in {"absent", "pending"} => attempts[d] = 0

\* A runner between its claim and its record has a row that is running and the
\* attempts of that row; it saw an answer only if the receiver gave it.
HoldInv ==
    \A r \in Runners :
        /\ pc[r] \in {"send", "mark"} <=> item[r].id # None
        /\ item[r].id # None => /\ status[item[r].id] = "running"
                                /\ item[r].attempts = attempts[item[r].id]
        /\ pc[r] # "idle" => left[r] > 0
        /\ answer[r] = "ok" => pc[r] = "mark" /\ item[r].id \in received

IInv ==
    /\ TypeOK
    /\ EmitInv /\ QueueInv /\ FreshInv /\ HoldInv
    /\ RetryBudget /\ NoDoubleSend /\ DeliveredWasReceived

-----------------------------------------------------------------------------
(* Each step keeps it.                                                     *)

\* Initially there is no delivery.
LEMMA InitInv == Init => IInv
  BY AttemptsAssumption, LimitAssumption, FaultsAssumption, NoDeliveryAssumption
     DEF Init, IInv, TypeOK, EmitInv, QueueInv, FreshInv, HoldInv, RetryBudget,
         NoDoubleSend, DeliveredWasReceived, NoItem, Deliveries

\* The invariant does not depend on the subscriptions and the number of faults,
\* types aside.
LEMMA UnchangedInvariant ==
    ASSUME IInv, TypeOK', UNCHANGED <<emitting, emitted, rowVars, runVars, received>>
    PROVE  IInv'
  BY DEF IInv, EmitInv, QueueInv, FreshInv, HoldInv, RetryBudget, NoDoubleSend,
         DeliveredWasReceived, rowVars, runVars

\* A new target changes no delivery.
LEMMA CreateTargetInvariant ==
    ASSUME IInv, NEW t \in Targets, NEW items \in SUBSET (Types \cup {"*", ""}), CreateTarget(t, items)
    PROVE  IInv'
  <1>1. normalizeEventTypes(items) \in SUBSET (Types \cup {"*"})
    BY DEF normalizeEventTypes
  <1>2. TypeOK'
    BY <1>1 DEF IInv, TypeOK, CreateTarget, rowVars, runVars
  <1>3. UNCHANGED <<emitting, emitted, rowVars, runVars, received>>
    BY DEF CreateTarget
  <1> QED
    BY <1>2, <1>3, UnchangedInvariant

\* Emit begins with the targets of its event type, before any row.
LEMMA EmitStartInvariant ==
    ASSUME IInv, NEW e \in Events, NEW type \in Types, EmitStart(e, type)
    PROVE  IInv'
  <1>2. TypeOK'
    BY DEF IInv, TypeOK, EmitStart, rowVars, runVars
  <1>3. EmitInv'
    BY DEF IInv, TypeOK, EmitInv, EmitStart, rowVars, runVars
  <1> QED
    BY <1>2, <1>3 DEF IInv, QueueInv, FreshInv, HoldInv, RetryBudget,
         NoDoubleSend, DeliveredWasReceived, EmitStart, rowVars, runVars

\* Emit gives up; the rows it has inserted stay.
LEMMA EmitFailsInvariant ==
    ASSUME IInv, NEW e \in Events, EmitFails(e)
    PROVE  IInv'
  <1>2. TypeOK'
    BY FaultsAssumption DEF IInv, TypeOK, EmitFails, Faulty, rowVars, runVars
  <1>3. EmitInv'
    BY DEF IInv, TypeOK, EmitInv, EmitFails, rowVars, runVars
  <1> QED
    BY <1>2, <1>3 DEF IInv, QueueInv, FreshInv, HoldInv, RetryBudget,
         NoDoubleSend, DeliveredWasReceived, EmitFails, rowVars, runVars

\* A new row has had no attempt, and no runner has it.
LEMMA InsertInvariant ==
    ASSUME IInv, NEW e \in Events, NEW t \in Targets, EmitInsert(e, t)
    PROVE  IInv'
  BY DEF IInv, TypeOK, EmitInv, QueueInv, FreshInv, HoldInv, RetryBudget,
         NoDoubleSend, DeliveredWasReceived, rowVars, runVars, EmitInsert, Deliveries

\* A runner returns or goes on without a row: no row changes.
LEMMA IdleInvariant ==
    ASSUME IInv, NEW r \in Runners,
           \/ DeliverPending(r)
           \/ NothingDue(r)
           \/ Stop(r)
    PROVE  IInv'
  <1> USE LimitAssumption, FaultsAssumption, AttemptsAssumption DEF emitVars, rowVars
  <1>1. UNCHANGED <<emitting, emitted, rowVars, received>>
    BY DEF DeliverPending, NothingDue, Stop
  <1>2. TypeOK' /\ HoldInv' /\ NoDoubleSend'
    <2>1. CASE DeliverPending(r)
      BY <2>1 DEF IInv, TypeOK, HoldInv, NoDoubleSend, DeliverPending, Goto
    <2>2. CASE NothingDue(r) \/ Stop(r)
      <3>1. Return(r) /\ faults' \in 0..MaxFaults
        BY <2>2 DEF NothingDue, Stop, Faulty, IInv, TypeOK
      <3>2. UNCHANGED <<emitVars, rowVars, received>>
        BY <2>2 DEF NothingDue, Stop
      <3>3. TypeOK'
        BY <3>1, <3>2 DEF IInv, TypeOK, Return, Goto, NoItem
      <3>4. HoldInv'
        BY <3>1, <3>2 DEF IInv, TypeOK, HoldInv, Return, Goto, NoItem
      <3>5. NoDoubleSend'
        BY <3>1 DEF IInv, TypeOK, NoDoubleSend, Return, NoItem
      <3> QED
        BY <3>3, <3>4, <3>5
    <2> QED
      BY <2>1, <2>2
  <1> QED
    BY <1>1, <1>2
       DEF IInv, EmitInv, QueueInv, FreshInv, RetryBudget, DeliveredWasReceived

\* What a claim does to the table: the first row of the queue is running.
Claimed ==
    /\ dueq # <<>>
    /\ status' = [status EXCEPT ![Head(dueq)] = "running"]
    /\ dueq' = Tail(dueq)
    /\ UNCHANGED <<emitVars, attempts, received>>

\* The first row of the queue is one that no runner has.
LEMMA HeadIsFree ==
    ASSUME IInv, dueq # <<>>
    PROVE  /\ Head(dueq) \in Deliveries
           /\ status[Head(dueq)] \in {"pending", "retrying"}
           /\ \A r \in Runners : item[r].id # Head(dueq)
  <1>1. 1 \in DOMAIN dueq /\ Head(dueq) = dueq[1] /\ dueq[1] \in Deliveries
    BY DEF IInv, TypeOK
  <1>2. status[dueq[1]] \in {"pending", "retrying"}
    BY <1>1 DEF IInv, QueueInv
  <1>3. \A r \in Runners : item[r].id = dueq[1] => status[dueq[1]] = "running"
    BY <1>1, NoDeliveryAssumption DEF IInv, HoldInv
  <1> QED
    BY <1>1, <1>2, <1>3

\* What a claim does to the rows: the first of those due is running now.
LEMMA ClaimedTable ==
    ASSUME IInv, Claimed
    PROVE  /\ status' \in [Deliveries -> {"absent", "pending", "running", "retrying"} \cup Settled]
           /\ dueq' \in Seq(Deliveries)
           /\ EmitInv' /\ QueueInv' /\ FreshInv' /\ RetryBudget' /\ DeliveredWasReceived'
  <1> DEFINE d == Head(dueq)
  <1>0. d \in Deliveries /\ status[d] \in {"pending", "retrying"}
    BY HeadIsFree DEF Claimed
  <1>1. /\ status' \in [Deliveries -> {"absent", "pending", "running", "retrying"} \cup Settled]
        /\ dueq' \in Seq(Deliveries)
    BY <1>0 DEF IInv, TypeOK, Claimed
  <1>2. EmitInv'
    BY <1>0 DEF IInv, TypeOK, EmitInv, Claimed, emitVars, Deliveries
  <1>3. QueueInv'
    <2>1. /\ dueq \in Seq(Deliveries) /\ 1 \in DOMAIN dueq /\ d = dueq[1]
          /\ \A i \in DOMAIN dueq' : i + 1 \in DOMAIN dueq /\ dueq'[i] = dueq[i + 1] /\ i \in Nat \ {0}
      BY DEF IInv, TypeOK, Claimed
    <2>2. \A i \in DOMAIN dueq' : dueq'[i] # d /\ dueq'[i] \in Deliveries
      BY <2>1 DEF IInv, QueueInv
    <2>3. \A i \in DOMAIN dueq' : status'[dueq'[i]] = status[dueq'[i]]
      BY <2>2, <1>0 DEF IInv, TypeOK, Claimed
    <2> QED
      BY <2>1, <2>3 DEF IInv, QueueInv
  <1>4. FreshInv'
    BY <1>0 DEF IInv, TypeOK, FreshInv, Claimed
  <1>5. RetryBudget'
    BY <1>0, AttemptsAssumption DEF IInv, TypeOK, RetryBudget, FreshInv, Claimed
  <1>6. DeliveredWasReceived'
    BY <1>0 DEF IInv, TypeOK, DeliveredWasReceived, Claimed
  <1> QED
    BY <1>1, <1>2, <1>3, <1>4, <1>5, <1>6

\* A runner claims a delivery that no other runner has.
LEMMA ClaimInvariant ==
    ASSUME IInv, NEW r \in Runners, claimNextDelivery(r)
    PROVE  IInv'
  <1>0. Claimed
    BY DEF Claimed, claimNextDelivery
  <1>1. TypeOK'
    BY <1>0, ClaimedTable, HeadIsFree
       DEF IInv, TypeOK, claimNextDelivery, Goto, emitVars, Claimed
  <1>2. HoldInv'
    BY <1>0, HeadIsFree, NoDeliveryAssumption
       DEF IInv, TypeOK, HoldInv, claimNextDelivery, Goto
  <1>3. NoDoubleSend'
    BY <1>0, HeadIsFree DEF IInv, TypeOK, NoDoubleSend, claimNextDelivery, Claimed
  <1> QED
    BY <1>0, <1>1, <1>2, <1>3, ClaimedTable DEF IInv

\* A claim whose answer is lost leaves a row that is running without a runner.
LEMMA ClaimUnacknowledgedInvariant ==
    ASSUME IInv, NEW r \in Runners, ClaimUnacknowledged(r)
    PROVE  IInv'
  <1>0. Claimed
    BY DEF Claimed, ClaimUnacknowledged
  <1>1. TypeOK'
    BY <1>0, ClaimedTable, LimitAssumption, AttemptsAssumption, FaultsAssumption, SMTT(30)
       DEF IInv, TypeOK, ClaimUnacknowledged, Return, Goto, NoItem, Faulty, emitVars
  <1>2. HoldInv'
    BY <1>0, HeadIsFree, NoDeliveryAssumption
       DEF IInv, TypeOK, HoldInv, ClaimUnacknowledged, Return, Goto, NoItem, Claimed
  <1>3. NoDoubleSend'
    BY <1>0, HeadIsFree DEF IInv, TypeOK, NoDoubleSend, ClaimUnacknowledged, Return, NoItem
  <1> QED
    BY <1>0, <1>1, <1>2, <1>3, ClaimedTable DEF IInv

\* The POST: who is told of success was received.
LEMMA PostInvariant ==
    ASSUME IInv, NEW r \in Runners, NEW outcome \in {"accepted", "refused", "late"}, Post(r, outcome)
    PROVE  IInv'
  <1>1. TypeOK'
    BY DEF IInv, TypeOK, HoldInv, Post, Goto, emitVars, rowVars
  <1>2. HoldInv'
    BY DEF IInv, TypeOK, HoldInv, Post, Goto, rowVars
  <1>3. DeliveredWasReceived'
    BY DEF IInv, DeliveredWasReceived, Post, rowVars
  <1> QED
    BY <1>1, <1>2, <1>3
       DEF IInv, EmitInv, QueueInv, FreshInv, RetryBudget, NoDoubleSend, Post, emitVars, rowVars

\* What the record of an outcome does to the table; markFailure and the row count alike.
LEMMA RecordTable ==
    ASSUME IInv, NEW r \in Runners, pc[r] = "mark", Record(r), UNCHANGED <<emitVars, received>>
    PROVE  /\ status' \in [Deliveries -> {"absent", "pending", "running", "retrying"} \cup Settled]
           /\ attempts' \in [Deliveries -> 0..MaxAttempts]
           /\ EmitInv' /\ QueueInv' /\ FreshInv' /\ RetryBudget' /\ DeliveredWasReceived'
  <1> DEFINE d == item[r].id
  <1>0. /\ d \in Deliveries /\ status[d] = "running" /\ item[r].attempts = attempts[d]
        /\ attempts[d] \in Nat /\ attempts[d] < MaxAttempts
        /\ answer[r] = "ok" => d \in received
    BY AttemptsAssumption DEF IInv, TypeOK, HoldInv, RetryBudget
  <1>1. /\ Outcome(r) \in {"retrying"} \cup Settled
        /\ Outcome(r) = "delivered" => d \in received
        /\ Outcome(r) = "retrying" => attempts[d] + 1 < MaxAttempts
        /\ Outcome(r) = "dead_letter" => attempts[d] + 1 = MaxAttempts
    BY <1>0, AttemptsAssumption DEF Outcome, Settled
  <1>2. /\ status' = [status EXCEPT ![d] = Outcome(r)]
        /\ attempts' = [attempts EXCEPT ![d] = @ + 1]
        /\ dueq' = dueq
    BY DEF Record
  <1> HIDE DEF d
  <1>3. /\ status' \in [Deliveries -> {"absent", "pending", "running", "retrying"} \cup Settled]
        /\ attempts' \in [Deliveries -> 0..MaxAttempts]
    BY <1>0, <1>1, <1>2, AttemptsAssumption DEF IInv, TypeOK
  <1>4. EmitInv'
    BY <1>0, <1>1, <1>2 DEF IInv, TypeOK, EmitInv, emitVars, Deliveries, Settled
  <1>5. QueueInv'
    <2>0. \A i \in DOMAIN dueq : status[dueq[i]] # "running"
      BY DEF IInv, QueueInv
    <2>1. \A i \in DOMAIN dueq : dueq[i] \in Deliveries /\ dueq[i] # d
      BY <1>0, <2>0 DEF IInv, TypeOK
    <2>2. \A i \in DOMAIN dueq : status'[dueq[i]] = status[dueq[i]]
      BY <1>0, <1>2, <2>1 DEF IInv, TypeOK
    <2> QED
      BY <1>2, <2>2 DEF IInv, QueueInv
  <1>6. FreshInv'
    BY <1>0, <1>1, <1>2 DEF IInv, TypeOK, FreshInv, Settled
  <1>7. RetryBudget'
    BY <1>0, <1>1, <1>2, AttemptsAssumption DEF IInv, TypeOK, RetryBudget, Settled
  <1>8. DeliveredWasReceived'
    BY <1>0, <1>1, <1>2 DEF IInv, TypeOK, DeliveredWasReceived
  <1> QED
    BY <1>3, <1>4, <1>5, <1>6, <1>7, <1>8

\* markSuccess and markFailure write the row that the runner has claimed.
LEMMA MarkInvariant ==
    ASSUME IInv, NEW r \in Runners, Mark(r) \/ AuditFails(r)
    PROVE  IInv'
  <1>0. /\ pc[r] = "mark" /\ Record(r) /\ UNCHANGED <<emitVars, received>>
        /\ faults' \in 0..MaxFaults
    BY FaultsAssumption DEF Mark, AuditFails, Faulty, IInv, TypeOK
  <1>1. \E l \in 0..Limit, step \in {"idle", "claim"} :
            /\ step = "claim" => l > 0
            /\ left' = [left EXCEPT ![r] = l]
            /\ pc' = [pc EXCEPT ![r] = step]
            /\ item' = [item EXCEPT ![r] = NoItem]
            /\ answer' = [answer EXCEPT ![r] = "none"]
    <2>1. CASE Return(r)
      <3>1. 0 \in 0..Limit
        BY LimitAssumption
      <3> QED
        BY <2>1, <3>1 DEF Return, Goto
    <2>2. CASE /\ left[r] # 1
               /\ Goto(r, "claim")
               /\ item' = [item EXCEPT ![r] = NoItem]
               /\ left' = [left EXCEPT ![r] = @ - 1]
               /\ answer' = [answer EXCEPT ![r] = "none"]
      <3>1. left[r] \in 0..Limit /\ left[r] > 1
        <4>1. left[r] \in 0..Limit
          BY DEF IInv, TypeOK
        <4>2. left[r] > 0
          BY <1>0 DEF IInv, HoldInv
        <4> QED
          BY <2>2, <4>1, <4>2, LimitAssumption
      <3>2. left[r] - 1 \in 0..Limit /\ left[r] - 1 > 0 /\ left' = [left EXCEPT ![r] = left[r] - 1]
        BY <2>2, <3>1, LimitAssumption
      <3> QED
        BY <2>2, <3>2 DEF Goto
    <2> QED
      BY <2>1, <2>2 DEF Mark, AuditFails
  <1>2. PICK l \in 0..Limit, step \in {"idle", "claim"} :
            /\ step = "claim" => l > 0
            /\ left' = [left EXCEPT ![r] = l]
            /\ pc' = [pc EXCEPT ![r] = step]
            /\ item' = [item EXCEPT ![r] = NoItem]
            /\ answer' = [answer EXCEPT ![r] = "none"]
    BY <1>1
  <1>3. dueq' = dueq
    BY <1>0 DEF Record
  <1>4. TypeOK'
    BY <1>0, <1>2, <1>3, RecordTable, AttemptsAssumption DEF IInv, TypeOK, NoItem, emitVars
  <1>5. HoldInv'
    <2> SUFFICES ASSUME NEW q \in Runners
                 PROVE  HoldInv!(q)'
      BY DEF HoldInv
    <2>1. CASE q = r
      BY <1>2, <2>1 DEF IInv, TypeOK, NoItem
    <2>2. CASE q # r
      <3>1. pc'[q] = pc[q] /\ item'[q] = item[q] /\ left'[q] = left[q] /\ answer'[q] = answer[q]
        BY <1>2, <2>2 DEF IInv, TypeOK
      <3>2. item[q].id # None => item[q].id # item[r].id /\ item[q].id \in Deliveries
        BY <1>0, <2>2 DEF IInv, TypeOK, NoDoubleSend
      <3>3. item[q].id # None => /\ status'[item[q].id] = status[item[q].id]
                                 /\ attempts'[item[q].id] = attempts[item[q].id]
        BY <1>0, <3>2 DEF Record, IInv, TypeOK
      <3> QED
        BY <1>0, <3>1, <3>3 DEF IInv, HoldInv, emitVars
    <2> QED
      BY <2>1, <2>2
  <1>6. NoDoubleSend'
    BY <1>2 DEF IInv, TypeOK, NoDoubleSend, NoItem
  <1> QED
    BY <1>0, <1>4, <1>5, <1>6, RecordTable DEF IInv

\* A delivery to be retried becomes due; no runner has it.
LEMMA BecomesDueInvariant ==
    ASSUME IInv, NEW d \in Deliveries, BecomesDue(d)
    PROVE  IInv'
  <1> USE DEF BecomesDue, emitVars, runVars
  <1>1. TypeOK'
    BY DEF IInv, TypeOK
  <1>2. QueueInv'
    <2>1. \A i \in DOMAIN dueq : dueq[i] # d
      BY DEF Range
    <2>2. /\ dueq \in Seq(Deliveries) /\ DOMAIN dueq' = 1..(Len(dueq) + 1) /\ DOMAIN dueq = 1..Len(dueq)
          /\ \A i \in DOMAIN dueq : dueq'[i] = dueq[i]
          /\ dueq'[Len(dueq) + 1] = d /\ Len(dueq) \in Nat
      BY DEF IInv, TypeOK
    <2> QED
      BY <2>1, <2>2 DEF IInv, QueueInv
  <1> QED
    BY <1>1, <1>2 DEF IInv, EmitInv, FreshInv, HoldInv, RetryBudget, NoDoubleSend, DeliveredWasReceived

\* Every step keeps the inductive invariant.
LEMMA StepInv == IInv /\ [Next]_vars => IInv'
  <1> SUFFICES ASSUME IInv, [Next]_vars PROVE IInv'
    OBVIOUS
  <1>1. CASE UNCHANGED vars
    <2>1. TypeOK'
      BY <1>1 DEF IInv, TypeOK, vars, emitVars, rowVars, runVars
    <2> QED
      BY <1>1, <2>1, UnchangedInvariant DEF vars, emitVars
  <1>2. CASE Next
    BY <1>2, CreateTargetInvariant, EmitStartInvariant, InsertInvariant, EmitFailsInvariant,
       IdleInvariant, ClaimInvariant, PostInvariant, MarkInvariant, BecomesDueInvariant,
       ClaimUnacknowledgedInvariant
       DEF Next, Step, EmitStep
  <1> QED
    BY <1>1, <1>2

-----------------------------------------------------------------------------
(* The theorems.                                                           *)

\* The table of deliveries, the queue, the runners and what the receiver got are
\* related as IInv says in every reachable state of DeliverPending and Emit.
THEOREM Invariance == Spec => []IInv
  BY InitInv, StepInv, PTL DEF Spec

\* A delivery is retried while attempts remain and is a dead letter after the last one:
\* markFailure, which decides by what the claim read, and the counter in the row agree.
THEOREM AttemptsAreBounded == Spec => []RetryBudget
  <1>1. IInv => RetryBudget
    BY DEF IInv
  <1> QED
    BY <1>1, Invariance, PTL

\* Invocations of DeliverPending that overlap never have the same delivery.
THEOREM ClaimsExclude == Spec => []NoDoubleSend
  <1>1. IInv => NoDoubleSend
    BY DEF IInv
  <1> QED
    BY <1>1, Invariance, PTL

\* What deliverOne reports as delivered has reached the receiver.
THEOREM DeliveredIsTrue == Spec => []DeliveredWasReceived
  <1>1. IInv => DeliveredWasReceived
    BY DEF IInv
  <1> QED
    BY <1>1, Invariance, PTL

\* A delivery that is delivered or a dead letter stays so, with its attempts: no
\* late answer, second runner or failed statement of DeliverPending touches it again.
THEOREM SettledStays ==
    Spec => [][\A d \in Deliveries : status[d] \in Settled =>
                  status'[d] = status[d] /\ attempts'[d] = attempts[d]]_vars
  <1>1. ASSUME IInv, [Next]_vars, NEW d \in Deliveries, status[d] \in Settled
        PROVE  status'[d] = status[d] /\ attempts'[d] = attempts[d]
    <2> USE <1>1 DEF Settled, rowVars
    <2>1. CASE UNCHANGED vars
      BY <2>1 DEF vars
    <2>2. ASSUME NEW e \in Events, NEW t \in Targets, EmitInsert(e, t)
          PROVE  status'[d] = status[d] /\ attempts'[d] = attempts[d]
      BY <2>2 DEF EmitInsert, IInv, EmitInv, TypeOK
    <2>3. ASSUME Claimed
          PROVE  status'[d] = status[d] /\ attempts'[d] = attempts[d]
      BY <2>3, HeadIsFree DEF Claimed, IInv, TypeOK
    <2>4. ASSUME NEW r \in Runners, pc[r] = "mark", Record(r)
          PROVE  status'[d] = status[d] /\ attempts'[d] = attempts[d]
      <3>1. item[r].id \in Deliveries /\ item[r].id # d
        BY <2>4 DEF IInv, TypeOK, HoldInv
      <3> QED
        BY <2>4, <3>1 DEF Record, IInv, TypeOK
    <2>5. ASSUME UNCHANGED <<status, attempts>>
          PROVE  status'[d] = status[d] /\ attempts'[d] = attempts[d]
      BY <2>5
    <2>6. ASSUME Next
          PROVE  \/ \E e \in Events, t \in Targets : EmitInsert(e, t)
                 \/ Claimed
                 \/ \E r \in Runners : pc[r] = "mark" /\ Record(r)
                 \/ UNCHANGED <<status, attempts>>
      BY <2>6 DEF Next, Step, EmitStep, CreateTarget, EmitStart, EmitFails, DeliverPending,
                  claimNextDelivery, NothingDue, Post, Mark, BecomesDue, AuditFails,
                  ClaimUnacknowledged, Stop, Claimed
    <2> QED
      BY <2>1, <2>2, <2>3, <2>4, <2>5, <2>6
  <1>2. IInv /\ [Next]_vars =>
            [\A d \in Deliveries : status[d] \in Settled =>
                  status'[d] = status[d] /\ attempts'[d] = attempts[d]]_vars
    BY <1>1
  <1> QED
    BY <1>2, Invariance, PTL DEF Spec
=============================================================================
