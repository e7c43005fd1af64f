------------------------------- MODULE Writes -------------------------------
(***************************************************************************)
(* Writes of objects from the request to the answer: the S3 handlers for   *)
(* PutObject, CopyObject and CompleteMultipartUpload, the upload and copy  *)
(* handlers of the admin API, the quota checks that objects.Put makes      *)
(* before it stores anything, and what is told afterwards: the answer, the *)
(* audit entry and the event.  One bucket.  The transaction of Put is one  *)
(* step here (ObjectStore has its statements); the rows are those with     *)
(* deleted_at NULL, numbered in the order of created_at.  WSpec and its    *)
(* parts have a W, as RequestProofs extends this module beside another.    *)
(***************************************************************************)
EXTENDS Integers, FiniteSets, FiniteSetsExt

CONSTANTS
    Requests,      \* requests that may be under way at once
    KindsOf,       \* the kinds of each of them
    Keys,
    Users,         \* users with a quota
    Sizes,         \* sizes of objects
    BucketQuotas,  \* quotas that operators give the bucket
    UserQuotas,    \* quotas that operators give a user
    MaxRows,       \* bound: rows ever inserted
    MaxFaults      \* bound: failed statements and store operations

Kinds == {"upload", "copy", "s3put", "s3copy", "complete"}
ASSUME KindsAssumption == KindsOf \in [Requests -> SUBSET Kinds]
ASSUME SizesAssumption == Sizes # {} /\ Sizes \subseteq Nat /\ IsFiniteSet(Sizes)
ASSUME QuotasAssumption ==
    /\ BucketQuotas # {} /\ BucketQuotas \subseteq [bytes: Nat, objects: Nat]
    /\ UserQuotas # {} /\ UserQuotas \subseteq Nat
    /\ IsFiniteSet(BucketQuotas) /\ IsFiniteSet(UserQuotas)

\* What a write without a user has for one.
NoUser == ""
ASSUME UsersAssumption == NoUser \notin Users
ASSUME RequestsAssumption == IsFiniteSet(Requests)
ASSUME WritesBounds == MaxRows \in Nat /\ MaxFaults \in Nat

Ids == 1..MaxRows

VARIABLES
    rows,    \* live rows of the bucket
    clock,   \* rows inserted so far
    quota,   \* the limits in bucket_quotas and user_quotas
    req,     \* each request
    faults

wvars == <<rows, clock, quota, req, faults>>

Unsent == [kind |-> "none", key |-> "none", user |-> NoUser, size |-> 0, pc |-> "idle",
           existing |-> -1, row |-> FALSE, answer |-> "none", audited |-> FALSE, emitted |-> FALSE]

Faulty == faults < MaxFaults /\ faults' = faults + 1

\* A request whose Put has returned; row: whether its row is in the table.
Returned(q, pc, row) == [Unsent EXCEPT !.kind = q.kind, !.pc = pc, !.row = row]

\* The bound on rows leaves room for the requests under way.
Room == clock + Cardinality({r \in Requests : req[r].pc \in {"sent", "looked", "bucket", "admitted"}}) < MaxRows

-----------------------------------------------------------------------------
(* The queries.                                                            *)

Bytes(set) == MapThenSumSet(LAMBDA v : v.size, set)

\* bucketSnapshot and userSnapshot: every live version counts, delete markers too.
BucketUsage == [bytes |-> Bytes(rows), objects |-> Cardinality(rows)]
UserUsage(u) == Bytes({v \in rows : v.by = u})

\* The object that a key shows.
Current(k) == {v \in rows : v.key = k /\ v.latest /\ ~v.marker}

\* lookupExistingObject: the size of the version a write would replace, -1 if none.
lookupExistingObject(k) ==
    IF Current(k) = {} THEN -1 ELSE (CHOOSE v \in Current(k) : TRUE).size

\* Mutant: the size of the version replaced is counted twice.
DeltaTwice(q) == q.size - 2 * (IF q.existing < 0 THEN 0 ELSE q.existing)

\* What CheckObjectWrite charges: the difference to the version replaced.
Delta(q) == q.size - (IF q.existing < 0 THEN 0 ELSE q.existing)

Allows(bytes, objects, usage, limit) ==
    /\ usage.bytes + bytes <= limit.bytes
    /\ usage.objects + objects <= limit.objects

WInit ==
    /\ rows = {}
    /\ clock = 0
    /\ quota \in [bucket: BucketQuotas, user: [Users -> UserQuotas]]
    /\ req = [r \in Requests |-> Unsent]
    /\ faults = 0

-----------------------------------------------------------------------------
(* The request up to objects.Put.                                          *)

\* A copy reads its source, which must show an object.
HasSource(n) == \E v \in rows : v.size = n /\ ~v.marker

\* A request with its body; ValidatePayload refuses one that is incomplete or has another digest.
Begin(r, kind, k, u, n, valid) ==
    /\ req[r].pc = "idle" /\ kind \in KindsOf[r] /\ Room
    /\ LET q == [Unsent EXCEPT !.kind = kind, !.key = k, !.user = u, !.size = n, !.pc = "sent"]
       IN  req' = [req EXCEPT ![r] = IF valid THEN q ELSE Returned(q, "failed", FALSE)]
    /\ UNCHANGED <<rows, clock, quota, faults>>

\* The handlers: upload and copy of the admin API, PutObject, CopyObject and
\* CompleteMultipartUpload of S3, whose parts are put together.
Upload(r, k, u, n, valid) == Begin(r, "upload", k, u, n, valid)
Copy(r, k, u, n, valid) == (valid => HasSource(n)) /\ Begin(r, "copy", k, u, n, valid)
PutObject(r, k, u, n, valid) == Begin(r, "s3put", k, u, n, valid)
CopyObject(r, k, u, n, valid) == (valid => HasSource(n)) /\ Begin(r, "s3copy", k, u, n, valid)
Complete(r, k, u, n, valid) == Begin(r, "complete", k, u, n, valid)

Lookup(r) ==
    /\ req[r].pc = "sent"
    /\ req' = [req EXCEPT ![r].pc = "looked", ![r].existing = lookupExistingObject(req[r].key)]
    /\ UNCHANGED <<rows, clock, quota, faults>>

\* CheckObjectWrite: the bucket ...
CheckBucket(r) ==
    LET ok == Allows(Delta(req[r]), IF req[r].existing < 0 THEN 1 ELSE 0, BucketUsage, quota.bucket)
    IN  /\ req[r].pc = "looked"
        /\ req' = [req EXCEPT ![r] = IF ~ok THEN Returned(@, "failed", FALSE)
                                     ELSE [@ EXCEPT !.pc = IF req[r].user = NoUser THEN "admitted" ELSE "bucket"]]
        /\ UNCHANGED <<rows, clock, quota, faults>>

\* ... and the user who writes.
CheckUser(r) ==
    LET u == req[r].user IN
    /\ req[r].pc = "bucket"
    /\ req' = [req EXCEPT ![r] = IF UserUsage(u) + Delta(req[r]) <= quota.user[u]
                                 THEN [@ EXCEPT !.pc = "admitted"] ELSE Returned(@, "failed", FALSE)]
    /\ UNCHANGED <<rows, clock, quota, faults>>

\* The rows with a new latest version of a key.
Inserted(v) == {[w EXCEPT !.latest = @ /\ w.key # v.key] : w \in rows} \cup {v}

\* The blob is stored and the transaction committed ...
Stored(r) ==
    LET q == req[r] IN
    /\ q.pc = "admitted"
    /\ clock' = clock + 1
    /\ rows' = Inserted([id |-> clock', key |-> q.key, size |-> q.size, by |-> q.user,
                         latest |-> TRUE, marker |-> FALSE])

Put(r) ==
    /\ Stored(r)
    /\ req' = [req EXCEPT ![r] = Returned(@, "stored", TRUE)]
    /\ UNCHANGED <<quota, faults>>

\* ... unless the store or the database fails, or fails to say so.
PutFails(r) ==
    /\ req[r].pc = "admitted" /\ Faulty
    /\ req' = [req EXCEPT ![r] = Returned(@, "failed", FALSE)]
    /\ UNCHANGED <<rows, clock, quota>>

PutUnacknowledged(r) ==
    /\ Stored(r) /\ Faulty
    /\ req' = [req EXCEPT ![r] = Returned(@, "failed", TRUE)]
    /\ UNCHANGED <<quota>>

\* Complete ends with the removal of the parts, and with its error.
CleanupFails(r) ==
    /\ req[r].kind = "complete" /\ req[r].pc = "stored" /\ Faulty
    /\ req' = [req EXCEPT ![r].pc = "failed"]
    /\ UNCHANGED <<rows, clock, quota>>

-----------------------------------------------------------------------------
(* What is told.                                                           *)

\* A handler that does or does not see an error answers; without one, after the
\* audit entry, if it makes one, and the event.  audited, emitted: whether their
\* inserts succeed, whose errors nobody looks at.
Tell(r, error, audits, audited, emitted) ==
    /\ req[r].pc \in {"stored", "failed"}
    /\ IF error
       THEN /\ audited /\ emitted
            /\ req' = [req EXCEPT ![r].pc = "over", ![r].answer = "error"]
       ELSE req' = [req EXCEPT ![r].pc = "over", ![r].answer = "ok",
                               ![r].audited = audited /\ audits, ![r].emitted = emitted]
    /\ IF audited /\ emitted THEN UNCHANGED faults ELSE Faulty
    /\ UNCHANGED <<rows, clock, quota>>

Failed(r) == req[r].pc = "failed"

\* Mutant: the admin upload makes the mistake that PutObject makes.
AnswerUploadBlind(r, audited, emitted) ==
    req[r].kind = "upload" /\ Tell(r, FALSE, TRUE, audited, emitted)

AnswerUpload(r, audited, emitted) ==
    req[r].kind = "upload" /\ Tell(r, Failed(r), TRUE, audited, emitted)

AnswerCopy(r, audited, emitted) ==
    req[r].kind = "copy" /\ Tell(r, Failed(r), TRUE, audited, emitted)

\* PutObject and CopyObject of S3 assign the error of Put and Copy to a variable of
\* an inner block and then look at the outer one.
AnswerPutObject(r, audited, emitted) ==
    req[r].kind \in {"s3put", "s3copy"} /\ Tell(r, FALSE, TRUE, audited, emitted)

\* Completing an upload makes no audit entry.
AnswerComplete(r, audited, emitted) ==
    req[r].kind = "complete" /\ Tell(r, Failed(r), FALSE, audited, emitted)

Close(r) ==
    /\ req[r].pc = "over"
    /\ req' = [req EXCEPT ![r] = Unsent]
    /\ UNCHANGED <<rows, clock, quota, faults>>

-----------------------------------------------------------------------------
(* Deletions, operators and jobs.                                          *)

\* Delete: a marker, for which no quota is asked.
Delete(k) ==
    /\ Current(k) # {} /\ Room
    /\ clock' = clock + 1
    /\ rows' = Inserted([id |-> clock', key |-> k, size |-> 0, by |-> NoUser, latest |-> TRUE, marker |-> TRUE])
    /\ UNCHANGED <<quota, req, faults>>

\* DeleteVersion: the newest version left becomes the latest.
DeleteVersion(v) ==
    LET left == {w \in rows \ {v} : w.key = v.key} IN
    /\ rows' = {IF v.latest /\ w.key = v.key
                THEN [w EXCEPT !.latest = \A x \in left : x.id <= w.id] ELSE w : w \in rows \ {v}}
    /\ UNCHANGED <<clock, quota, req, faults>>

UpdateBucketQuota(q) ==
    /\ quota.bucket # q
    /\ quota' = [quota EXCEPT !.bucket = q]
    /\ UNCHANGED <<rows, clock, req, faults>>

UpdateUserQuota(u, q) ==
    /\ quota.user[u] # q
    /\ quota' = [quota EXCEPT !.user[u] = q]
    /\ UNCHANGED <<rows, clock, req, faults>>

-----------------------------------------------------------------------------
Writers == Users \cup {NoUser}

WNext ==
    \/ \E r \in Requests :
          \/ \E k \in Keys, u \in Writers, n \in Sizes, valid \in BOOLEAN :
                \/ Upload(r, k, u, n, valid) \/ Copy(r, k, u, n, valid)
                \/ PutObject(r, k, u, n, valid) \/ CopyObject(r, k, u, n, valid)
                \/ Complete(r, k, u, n, valid)
          \/ Lookup(r) \/ CheckBucket(r) \/ CheckUser(r)
          \/ Put(r) \/ PutFails(r) \/ PutUnacknowledged(r) \/ CleanupFails(r)
          \/ \E a, e \in BOOLEAN :
                AnswerUpload(r, a, e) \/ AnswerCopy(r, a, e) \/ AnswerPutObject(r, a, e) \/ AnswerComplete(r, a, e)
          \/ Close(r)
    \/ \E k \in Keys : Delete(k)
    \/ \E v \in rows : DeleteVersion(v)
    \/ \E q \in BucketQuotas : UpdateBucketQuota(q)
    \/ \E u \in Users, q \in UserQuotas : UpdateUserQuota(u, q)

WSpec == WInit /\ [][WNext]_wvars

-----------------------------------------------------------------------------
RowType == [id: Ids, key: Keys, size: Sizes \cup {0}, by: Writers, latest: BOOLEAN, marker: BOOLEAN]

\* Types of the rows, the limits and the requests; a key has at most one latest
\* version, which quota checks and copies rely on.
TypeOK ==
    /\ rows \in SUBSET RowType /\ clock \in 0..MaxRows
    /\ \A v, w \in rows : v.latest /\ w.latest /\ v.key = w.key => v = w
    /\ quota \in [bucket: BucketQuotas, user: [Users -> UserQuotas]]
    /\ req \in [Requests -> [kind: Kinds \cup {"none"}, key: Keys \cup {"none"}, user: Writers,
                             size: Sizes \cup {0},
                             pc: {"idle", "sent", "looked", "bucket", "admitted", "stored", "failed", "over"},
                             existing: Sizes \cup {-1}, row: BOOLEAN,
                             answer: {"none", "ok", "error"}, audited: BOOLEAN, emitted: BOOLEAN]]
    /\ faults \in 0..MaxFaults

Largest == Max(Sizes)
Requesters == Cardinality(Requests)
Admitted == {r \in Requests : req[r].pc = "admitted"}

\* How far the checks without a lock can be overrun: what is stored, with what is
\* admitted and about to be, exceeds the largest quota in force by at most one
\* object of the largest size per request under way, in bytes of the bucket, in
\* bytes of a user and, delete markers aside, in objects.
OvershootBounded ==
    LET inBytes(set) == MapThenSumSet(LAMBDA r : req[r].size, set)
        objects == Cardinality({v \in rows : ~v.marker}) + Cardinality(Admitted)
    IN  /\ Bytes(rows) + inBytes(Admitted) <= Max({q.bytes : q \in BucketQuotas}) + Requesters * Largest
        /\ objects <= Max({q.objects : q \in BucketQuotas}) + Requesters
        /\ \A u \in Users : UserUsage(u) + inBytes({r \in Admitted : req[r].user = u})
                                <= Max(UserQuotas) + Requesters * Largest

\* What a request of the admin API or a completed upload tells is true: success,
\* the audit entry and the event stand for a row that was inserted.
AdminAnswersTrue ==
    \A r \in Requests :
        /\ req[r].kind \in {"upload", "copy", "complete"}
        /\ req[r].answer = "ok" \/ req[r].audited \/ req[r].emitted
        => req[r].row

\* The audit log says of every write whether it succeeded.
AuditTellsOutcome == \A r \in Requests : req[r].audited => req[r].row
=============================================================================
