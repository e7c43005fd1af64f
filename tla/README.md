# HarborShield: TLA+ models and proofs

HarborShield is an S3-compatible object store: an API process (S3 and admin
planes), a worker process for background jobs, blob nodes that hold replicas, and
one PostgreSQL database that everything shares. All coordination goes through
database rows, and almost none of it through long transactions. That is where the
code is hard to test and where these models look.

## 1. Inventory

| Part (`src/backend/...`) | State | Operations | What is hard | Correct when |
|---|---|---|---|---|
| objects (`internal/objects`) | rows of `objects` (versions, `is_latest`, delete markers, hold, retention, `deleted_at`), blobs | Put, Delete, DeleteVersion, RestoreLatest, SetLegalHold, expiry, purge, migration | several statements per operation in READ COMMITTED, blob writes outside the transaction | one latest version per key, every live version readable, nothing deleted returns |
| malware (`internal/malware`) | `scan_status`, `deleted_at` of a version | ProcessPending | verdict written long after the row was read | verdict hits a row that still exists, deletes no blob in use |
| buckets (`internal/buckets`) | rows of `buckets` | Create, Delete, UpdateDurability | count, then cascade | only empty buckets go |
| multipart (`internal/multipart`) | uploads, parts, part blobs | Initiate, PutPart, Complete, Abort, CleanupExpired | no transactions at all, parts overwritten in place, retries by clients, expiry | recorded parts readable, one object per upload, nothing stays |
| jobs and worker (`internal/jobs`, `cmd/worker`) | rows of `jobs` | EnsureRecurring, ResetStaleRunning, ClaimDue, Complete, Fail | worker crashes, two workers, slow handlers | no overlap, recovery, no starvation |
| events (`internal/events`) | targets, deliveries | CreateTarget, Emit, DeliverPending | receiver refuses or answers late, crash after the claim | attempts bounded, settled once, eventually settled |
| placement (`internal/storage/topology.go`, `storage.go`, `objects` 208-324) | nodes, placements, replicas | RegisterNode, UpdateNodeOperatorState, RePin, health, repair, rebalance, Put to endpoints | node failures, jobs working from old lists, operators changing the node set | no object loses its last replica, replicas return, placements follow the node set |
| migration (`objects` 700-790, `storage.go`, admin router 1310-1345) | `storage_backend` of a row, local files, replicas | MigrateLocalObjectsToDistributed, the guard on the last active node | copy, switch and deletion are separate steps beside Put, Get and DeleteVersion | a live version stays readable, the local store drains |
| enrollment (`topology.go` 114-225, 280-440, `cmd/blobnode`) | join tokens, RPC credentials, TLS pins, the endpoints each process keeps in memory | IssueJoinToken, JoinNode, RegisterNode, SyncConfiguredNodes, RefreshConfiguredNodes, RePinNodeTLSIdentity | token read without lock, lost answers, metadata read before a probe and written after it | a used token admits nobody, node and table agree on the credential, the verdict on an identity becomes right |
| quotas (`internal/quotas`) | limits, usage computed from the rows | CheckObjectWrite, updates of the limits | check before write, a replaced version is credited but stays stored | usage overruns the limits by a bounded amount |
| sessions (`internal/auth`, `internal/oidc`, `internal/users`, `internal/adminapi`) | users, refresh tokens, admin API tokens, cached OIDC provider | Login, Refresh, Logout, LogoutAll, ChangePassword, UpdateRole, LoginOIDC, Start, Callback, EnsureBootstrapAdmin | row locks, values read before and used after another request's write | a spent token is refused, no session has a role its account never had |
| policies (`internal/policies`, `internal/authz`) | role statements, bindings, bucket policies | AuthorizeSubject, ExplainSubjectAuthorization, the changes of the tables | several queries per decision, deny overrides, two evaluators | the decision is the one the tables call for |
| S3 and admin routers, audit (`internal/s3`, `internal/admin`, `internal/audit`) | audit log | the write handlers from the request to the answer, authentication | errors of inner calls, entries and events after the write | what is answered, audited and announced is true |
| settings, credentials, dashboard, metrics, frontend, scripts | rows of their own | | thin layers over the above | |

Interactions: the routers call the services; `multipart.Complete` calls
`objects.Put`; `objects.Put` chooses nodes from the table the operators and the
topology service write, and inserts the placements in its own transaction; the
worker runs the expiry, the purge, multipart cleanup, delivery, malware scanning,
health, repair and rebalance as recurring jobs, at any moment beside requests. The
API and the worker each keep endpoints and credentials of the nodes in memory and
learn of changes only through the database.

## 2. Modules

| Module | Models | Composes with |
|---|---|---|
| `ObjectStore` | objects, malware verdicts, bucket deletion, unique index, row locks | purge, expiry and scanner run beside the requests in one module |
| `Multipart` | uploads, parts, cleanup job | `objects.Put` is one step |
| `JobQueue` | the job table and worker loop | its liveness is the fairness the other modules assume of jobs |
| `EventDelivery` | targets, emission, deliveries | runs as a job; several runs may overlap |
| `Placement` | nodes, placements, replicas, health, repair, rebalance, distributed Put | the jobs and the requests in one module |
| `Enrollment` | join tokens, credentials, TLS pins, the node lists of the API and the worker, the start of both | blob node, API and worker in one module |
| `Migration` | the move of objects to the blob nodes beside Put, Get, DeleteVersion and operators | implements `Versions` |
| `Versions` | abstract: what clients may rely on about a version | |
| `Writes` | a write from the request to answer, audit entry and event; quotas | `objects.Put` is one step, with the look at the old version and the quota checks before it |
| `Sessions` | accounts, refresh tokens, admin API tokens, both halves of the OIDC login, start and crash of the API | requests of several people in one module |
| `Authorization` | who asks, bucket policies, bindings, role statements | credentials, both routers' checks and the operators' changes in one module |
| `ObjectStoreRaces` | adds to `ObjectStore` the history `disturbed`: the keys whose requests overlapped or whose latest version a job took | extends `ObjectStore` |
| `<M>Proofs` for `ObjectStore`, `Migration`, `EventDelivery`, `Multipart`, `Enrollment`, `Sessions` | theorems about `<M>` | extends `<M>` |
| `RequestProofs` | theorems about `Authorization` and `Writes` | extends both |
| `WorkerProofs` | theorems about `JobQueue` and `Placement` | extends both |

An `MC*` module adds model values and symmetry sets. Each `.cfg` is one run. Where one
proof module extends two specifications, the second calls its parts `WSpec`, `WNext` ...
(`Writes`) or `PSpec`, `PNext` ... (`Placement`), so that no name means two things.

### ObjectStore

A version is identified by the start time of the transaction that inserts it,
which is also its `created_at` (the column's default is `NOW()`, fixed at the
start of the transaction). A request runs its transaction statement by statement.
An UPDATE has two steps: a *scan* takes the statement's snapshot and fixes its
target rows (`tgt`); the second step waits until no other transaction holds their
row locks and writes those that still match, as READ COMMITTED does. Writes stay
in the overlay `ovl` of their transaction, which is also the lock, until `Commit`
applies them or `Abort` drops them. A write that makes a row the latest one meets
the unique index `objects_latest_unique_idx`: it waits for an undecided rival
(`IndexBusy`) and fails on a decided one (`IndexConflict`). Put writes its blob
before the transaction and DeleteVersion removes one after it. A blob that a
failed request or a cascade leaves behind goes to the history variable `leaked`.
`Abort` is possible at every step: it stands for a failed statement, a deadlock
the database breaks, and the death of the process.

Deadlock checking is off in its runs: once the bucket is gone, or the bound on
transactions is reached, nothing needs to happen any more.

### JobQueue

`dueq` is the order of `next_run_at` among the rows that are due. A claim takes the first
row that is claimable and locks it with SKIP LOCKED, hence the index `i` of
`ClaimDue`. `stale` holds the rows whose `updated_at` is more than ten seconds old.
A handler may take longer than that; the history variable `late` holds the jobs
whose current run has, and `NoOverlap` and `RunsAreRecorded` speak of the
others, since a run that outlasts the limit is taken for dead and started again
beside itself. `Overload` says whether handlers may take longer than other jobs'
intervals, so that a pass of the worker never finds the queue empty; the run assumes
they do not.

### EventDelivery

`DeliverPending` claims up to `Limit` deliveries, one at a time, posts each and
records the outcome. The receiver accepts, refuses, or accepts too late for the
client's timeout. `markFailure` decides by the attempts read with the claim, the
UPDATE counts in the row. `Abandoned(d)` is a claimed row whose runner is gone:
no statement of the code selects it again. `HeldDeliveriesSettle` promises an end for
every other delivery.

### Placement

Nodes are numbers in the order of their names, by which every query sorts them.
`idx[o][n]` is the replica index of the placement of object `o` on node `n`, -1 when
there is none. A job works from the list it read at its start; one blob request or one
statement is a step. `RefreshConfiguredNodes` probes and writes all nodes in
one step: nothing else in the module depends on the order of those. One API process is
modelled, whose endpoint list is current.

### Multipart

The blob of a part is at a path made of upload and number, so a second PutPart
overwrites it in place. The write has a beginning (`PutOpen`) and an end (`PutBlob`, or
`PutFails` when it fails or is cut off): in between a reader finds the old content, at an
endpoint not yet written, or nothing, since the local store truncates the file first; a
failed write may leave either. Complete's list is strictly ascending, so it is a set.
Four variables are histories: `closing` records which uploads somebody has begun to clean
up, `made` how many objects have been made of each, `overlap` on which uploads two requests
overlapped or a call failed, and `torn` on which parts a write failed half way or two writes
overlapped. `Inputs` is the set of parts that clients send.

### Enrollment

A request to join or to register has a number, which is also the credential it makes.
A node that waits for the answer to its join does not listen yet, so a refresh finds it
offline. `store[p]` is what process `p` keeps in memory: the list of endpoints, and the
credentials, which the worker reads again in each refresh. A refresh reads the pins of
all nodes once (`snap`) and then probes and writes one node per step. The history field
`prior` of a request holds the joins that were admitted before it began, `got` tells
whether its answer was received. Token expiry is an action; a join whose node has gone
may be aborted by its cancelled context without counting as a fault.

### Migration and Versions

The row, the local file and the replicas of an object are three variables. A migration
request selects up to `Limit` local objects, then for each one chooses the endpoints
and reads the local file, copies, switches the row and unlinks the file. A copy that
fails is rolled back and ends the request; so does a switch whose row is gone, which
leaves the replicas behind. A Get reads the row in one step and the store in the next.
A PATCH that
takes a node out of service is three steps: the guard on the nodes it has read
(`LeaveCheck`), for the last one the count of pending objects (`LeavePending`), and the
update (`LeaveApply`). PATCHes of different nodes overlap as they like; the field `met`
records which of them have.

`Versions` has one variable: a version is absent, readable, or deleted. The refinement
mapping computes it from the row and from whether the store the row names has the bytes;
a version that nobody could read would be mapped to "lost", which `Versions` does
not have. `VersionsKept` says that every step of `Migration` is a step of `Versions` or
leaves it unchanged.

### Writes

One action per handler at the beginning (`Upload`, `Copy`, `PutObject`, `CopyObject`,
`Complete`) and at the end (`AnswerUpload` ...), and between them what `objects.Put`
does: the look at the version to be replaced, the two quota checks, each with a
snapshot of its own, and the write. `PutObject` and `CopyObject` of S3 look at another
error variable than the one they set, which is how `AnswerPutObject` is written. Limits
are always set: a NULL limit admits everything and is left out. Completing an upload
makes no audit entry.

### Sessions

A request's number names the token it issues. A request refused at its first query
changes nothing and is left out; so is expiry. `held` records the states that the
account of a request has had while it ran, `granted` the roles each account has ever
had; both are history variables. `lock` is the row lock of a Refresh between its DELETE
and its COMMIT. A statement or COMMIT that was applied and never acknowledged ends its
request as `lost`: it has had its effect, and its client was told of an error or of nothing.
`Start` and `Callback` of OIDC both read the settings, or the configuration when that query
fails, before they wait for the mutex of `ensureProvider`, and replace the cached provider by
the one they read; `crossed` marks the requests that were between that reading and their
verification together with one that had read other settings. The OIDC library is an
input: a code is given out by one issuer, its exchange succeeds exactly when the
provider cached by then is of that issuer, and the ID token leads to an account (by issuer
and subject, or by email) and a role.

### Authorization

`q` is one request on its way through the queries; `Changed` records what operators do
meanwhile, so that the properties can ask what the tables said at the time. The
S3 router knows four ways to authenticate. The three with signatures (the header and two
forms of presigned queries, which are one case here) give the name of the access key; a request by the key headers passes the check without a
name ("unnamed"): it has no bindings and the principal `*`, and only the credential's
own role counts. `own` is that role: at the S3 API the one in the credential's row, at the
admin API the one in the token's claims, whose staleness is the subject of `Sessions`. The
evaluation tool is asked with a fallback role that its caller sends, which is an operand of
`Explain`. Whether a signature or secret is right is an input. Names are sequences
of parts, and a pattern is a prefix with or without a star. Conditions of bucket policies
are sets of values; conditions of role statements are stored and never evaluated by the
code, and are not in the model.
The list of bound roles is a function from the scopes that match to their roles; the
scopes are numbered in the order of the query, so that its first role is that of the
earliest scope, and asking a role removes its scope.

### Steps that are coarser than the code

Where no property tells the difference, one step stands for several of the code:
`ObjectStore.ScanVerdict` (the mode, the blob, the scan, the UPDATE),
`Placement.RefreshConfiguredNodes` and the health job's probes and updates (all nodes, all
placements), `Enrollment.RefreshNode` and `RePinNodeTLSIdentity` (the probe of one node
and its UPDATE; the rows a refresh has read before are a step of their own), the look
at the role and the INSERT of an admin token in `Sessions`, and `objects.Put` in `Multipart` and `Writes`.

## 3. Runs

| Run | Bounds | Shows |
|---|---|---|
| `objects_races` | 2 requests on one key, 3 inserting transactions, failures at every statement | `OneLatest`, `BlobsAccountedFor` |
| `objects_background` | 2 requests beside hold, retention, expiry, purge, scanner, bucket deletion; 2 inserting transactions | `TypeOK`, `NoDanglingVersion`, `NoResurrection`; `LiveKeyHasLatest` on keys that are not `disturbed` |
| `jobs` | 2 workers, 3 jobs, one without a handler, 2 faults, slow handlers | `NoOverlap`, `RunsAreRecorded`, `StaleJobRecovered`, `EveryJobRuns` |
| `events` | 2 overlapping runs, 2 targets, 3 attempts, 1 fault | `RetryBudget`, `NoDoubleSend`, `DeliveredWasReceived`, `HeldDeliveriesSettle` |
| `placement` | 3 nodes, every node to hold every object, the last joins, drains and returns, 1 fault | `EveryObjectHasReplica`, `ReplicasRestored`, `PlacementsReachTargets` |
| `multipart` | 2 requests and the job on one upload, 2 parts, one of them with 2 contents, 1 fault, which may fall into a write | `RecordedPartsReadable`, `OneObjectPerUpload`, `CompletedFromRecordedParts`, `EveryUploadRemoved` |
| `enrollment` | 2 nodes, one configured, 1 token, 2 requests, 2 certificates, 1 fault | `CredentialsAgree`, `NoSequentialReuse`, `WorkerLearnsCredential`, `VerdictConverges` |
| `migration` | 2 objects of which clients read and delete one, 2 nodes, 1 replica, one migration at a time that takes one object on, PATCHes of both nodes at once, 1 fault | `VersionsKept` (refinement), `GetFailsOnlyAcrossSwitch`, `LastNodeStays`, `MigrationDrains` |
| `writes` | 2 requests of all five handlers, 1 key, 1 user, 4 rows, quotas smaller than a write and as large as one, 1 fault | `OvershootBounded`, `AdminAnswersTrue` |
| `sessions` | 4 requests, each with its choice of operations, 2 accounts, 2 roles, 2 passwords, 2 issuers, failures, lost acknowledgements and crashes at every statement | `TokensAccountedFor`, `SpentTokenRefused`, `SessionFromHeldAccount`, `AdminRoleWasGranted`, `IssuerVerified`, `EveryRequestEnds` |
| `authorization` | 2 roles, 3 role statements, 2 scopes, 4 bucket policies of which one is refused, 2 objects, 2 changes during a request | `DecisionExact`, `NoGrantFromNowhere`, `ExplainCoversAccess` |
| `writes_audit` (violation) | as `writes` | `AuditTellsOutcome` fails: a failed PutObject is answered 200 and audited as a success |

Why the bounds are enough to be interesting: two concurrent requests are what the
index, the row locks, the claims, the tokens and the quota checks have to tell apart,
and every operation is per key, per job, per node or per object. Three versions are
needed for a successor and a rival. Three nodes are needed for a replica index to move.
Four requests are needed for a session, two that race for it, and one that comes after
them; as many for a callback, the change of the settings under it, and a Start or second
callback that crosses it. The second object of `migration` is the one that a guard must
find pending while the first is moved, read or deleted. Two certificates are what a re-pin has to tell apart, two changes what falls
between two pairs of queries. One fault separates each pair of neighbouring steps, and
the run with two faults (`jobs`) lets the second hit the recovery from the first. For
`ObjectStore` the proofs remove the bounds on requests, keys and transactions.

Every property of a passing run has a mutant in `PROJECT.json`: a definition
changed as a plausible bug would change the code, under which TLC refutes the
property. `TypeOK` of the other modules holds on the same instances, and so do their
inductive invariants.

The two liveness properties of `placement` hold once the operators leave the nodes
alone (`OperatorsRest`); while they drain and activate nodes for ever, the health check
may always count a replica that is about to go. The run drains only the last node by
name, with a target that every node meets; what becomes of the other cases is below.
It allows one fault because of a case the code does not handle,
nor promises to: an insert that fails after a copy leaves a replica without a row, and if
the recorded replica is lost then, the repair job, which looks for sources only
among the rows, does not find the copy.

### Known disagreements

Besides the one that `writes_audit` shows, the models exhibit these behaviours, in
which the code does less than a document says or a reader would expect. The properties
above are stated so as to except exactly these cases; paths are below `src/`.

- A legal hold set while a DeleteVersion is between its check and its DELETE does not
  protect the version (`objects/service.go:554`; `docs/operations.md:43`,
  `docs/s3-compatibility.md:54`).
- An object put between the count of a bucket's objects and the bucket's deletion
  goes with it (`buckets/service.go:99`; `docs/s3-compatibility.md:35`).
- With handlers slower than the intervals of other jobs, a worker never ends its pass
  and never resets stale rows (`cmd/worker/main.go:161`;
  `docs/worker-restart-validation.md:35`). `Overload = TRUE` in `JobQueue` shows it.
- A delivery whose worker died after the claim stays running, and nothing claims it
  again (`events/service.go:261`; `docs/implementation-plan.md:98`,
  `docs/worker-restart-validation.md:52`).
- The rebalance deletes replicas outside the targets before it copies: draining the node
  with the only replica loses the object (`storage/topology.go:698`;
  `docs/operations.md:160`).
- New placements are numbered by today's target list, while older rows keep
  yesterday's numbers: after the first of three nodes is drained, the insert meets a taken
  replica index for ever (`storage/topology.go:731`; `docs/operations.md:176`).
- The worker reads its list of endpoints only when it starts
  (`docs/distributed-storage.md:5`).
- Migrations that overlap: the rollback of one deletes the replicas the other has
  just switched to (`storage/storage.go:248`).
- Two Refreshes of one token, or two joins with one join token, that overlap both
  succeed: both read before either writes, and neither looks at the number of rows
  its write changed.
- Two DeleteVersions of one key that overlap can leave it without a latest version: each
  promotes from its own snapshot. Two Completes of one upload that overlap make two
  versions.
- A PutPart repeated for a part that is recorded destroys the part if it fails half way
  (the local file is truncated before anything else is done, the distributed store deletes
  what it has overwritten), or may do so if it overlaps another
  (`storage/storage.go:173`, `storage/storage.go:247`). The row stays, and Complete fails
  until the part is put once more.
- Two PATCHes that overlap and take the last two serving nodes out of service both pass the
  guard, since each counts the other's node (`admin/router.go:1317`;
  `docs/distributed-operations.md:129`).
- A Refresh whose COMMIT is applied and not acknowledged answers with an error and has
  spent the token: the session is gone, the new one reached nobody (`auth/service.go:153`).
  Logout, LogoutAll and the INSERT of a new session have the same case.
- A Start or Callback that has read other settings, older ones included, replaces the
  cached provider under a Callback that is past `ensureProvider`. That one is then verified by
  one issuer and recorded under the other (`oidc/service.go:114`, `oidc/service.go:144`).
- A query for the bucket policy that fails is taken for "no policy", so that a Deny is
  passed over (`policies/aws_bucket_policy.go:90`).

## 4. Fairness

- `JobQueue`: a worker's next step is weakly fair. The process is restarted
  by its supervisor, the ticker fires every five seconds, handlers return (every
  HTTP client has a timeout) and time passes.
- `Multipart`: uploads expire, the cleanup job finds every expired one again (strong
  fairness, as it works on one at a time), and a run of it goes on. Nothing is assumed of the
  requests, nor of their writes.
- `EventDelivery`, `Placement`: a call or job that is under way goes
  on (weak fairness), and each job is started again and again, which is what
  `EveryJobRuns` shows of the queue. Jobs exclude each other in one worker, so
  a particular job is enabled again and again rather than continuously: strong
  fairness. Nodes come back in the end.
- `Enrollment`: a request at the API goes on, the worker's refresh recurs and goes on.
- `Migration`: a migration under way goes on, operators repeat it until nothing is
  pending (strong fairness, as another may be under way), nodes come back.
- `Sessions`: requests under way go on; each is a goroutine whose queries return, fail,
  or wait for a row lock.

Nothing is assumed of clients or receivers, of operators beyond the above, nor that
faults occur. `Writes` and `Authorization` have safety properties only.

## 5. Proofs

Every theorem is for all values of the constants (any number of requests, workers, nodes,
keys, faults ...). Assumed are the named assumptions of the modules: bounds are
naturals, inputs have their types, and a value that stands for "none" is none of the
others. For each specification one theorem, `Invariance` (`WritesInvariance`,
`PlacementInvariance`), says that its inductive invariant is one; TLC checked it on small
instances before it was proved. The other theorems follow from it. There is one lemma per action (or a group of like ones),
and in it one step per conjunct that the action can disturb.

| Module | Theorem | States |
|---|---|---|
| `ObjectStoreProofs` | `TypeCorrect` | `TypeOK` |
| | `LatestIsUnique` | `OneLatest` |
| | `ReadableVersionsHaveBlobs` | `NoDanglingVersion` |
| | `DeletedStaysDeleted` | `NoResurrection` |
| | `BlobsAreAccountedFor` | `BlobsAccountedFor` |
| | `SuccessorsAreLeft` | `LiveKeyHasLatest`, on keys that are not `disturbed` |
| `MigrationProofs` | `MigrationImplementsVersions` | `VersionsKept`, the refinement, if migrations do not overlap |
| | `GetsFailOnlyAcrossSwitch` | `GetFailsOnlyAcrossSwitch`, if migrations do not overlap |
| | `LastNodeIsKept` | `LastNodeStays` |
| `WorkerProofs` | `OneRunPerJob` | `NoOverlap` |
| | `RunsAreRecoverable` | `RunsAreRecorded` |
| | `PlacementInvariance` | types; only stored objects have rows, with different replica indexes |
| | `StoredObjectsAreHeld` | `EveryObjectHasReplica`, if one node that is always a target keeps what it holds |
| `EventDeliveryProofs` | `AttemptsAreBounded` | `RetryBudget` |
| | `ClaimsExclude` | `NoDoubleSend` |
| | `DeliveredIsTrue` | `DeliveredWasReceived` |
| | `SettledStays` | a settled delivery keeps its status and attempts |
| `MultipartProofs` | `PartsAreReadable` | `RecordedPartsReadable` |
| | `UploadsMakeOneObject` | `OneObjectPerUpload` |
| | `ObjectsMatchTheirParts` | `CompletedFromRecordedParts` |
| `EnrollmentProofs` | `NodeAndTableAgree` | `CredentialsAgree` |
| | `TokensServeOnce` | `NoSequentialReuse` |
| `SessionsProofs` | `NoTokenIsLost` | `TokensAccountedFor` |
| | `ReuseIsRejected` | `SpentTokenRefused` |
| | `SessionsAreHeld` | `SessionFromHeldAccount` |
| | `RolesAreGranted` | `AdminRoleWasGranted` |
| | `IssuerIsVerified` | `IssuerVerified` |
| `RequestProofs` | `DecisionsAreExact` | `DecisionExact` |
| | `GrantsHaveAReason` | `NoGrantFromNowhere` |
| | `ExplanationsCoverAccess` | `ExplainCoversAccess` |
| | `QuotasHold` | `OvershootBounded` |
| | `AnswersAreTrue` | `AdminAnswersTrue` |
| | `TypeCorrectness` | `TypeOK` of `Writes`, which includes one latest version per key |

### Arguments

**ObjectStore.** `OneLatest` is not inductive: it speaks of committed rows and is broken
or kept at `Commit`, which applies what was written several steps before. The
invariant therefore says what every undecided transaction may have written.

- `LockInv`: locks exclude, a row is made latest only in a transaction about
  to commit, and the written rows exist and belong to the request's key.
- `LatestInv`: a row made latest by an undecided transaction has no committed rival
  but those the same transaction demotes or removes, and no rival in another
  transaction. The index check establishes it; the locks keep it, since nobody
  else can change the flag of a row the transaction has written.
- `TsInv`, `RowInv`, `TargetInv`: a slot reserved by a start time is filled by its
  own transaction only, so a snapshot never names a row that is yet to be inserted.

For `NoDanglingVersion`, `PathInv` says that rows and requests do not share paths, and
`DeleterInv` that whoever is going to delete a blob (a DeleteVersion past its
read, the purge with its candidates) has locked or found dead the only row that
names it.

`BlobsAccountedFor` has an invariant of its own beside `IInv`, `TrailInv`: a request that removes
a row is going to delete that row's blob (`VictimInv`), a Put at its commit has its row in
the overlay (`InsertedInv`), and when the purge comes to a row its blob is gone
(`CandidateInv`). So each step that takes a row or ends a request hands the blob over.

`LiveKeyHasLatest` speaks of the keys that are not `disturbed`. On those `KeyInv` says
that at most one request is under way, that what a DeleteVersion saw not to be the latest
row is not, that what it is going to promote is still live unless it removes every live row,
and that a transaction about to commit leaves a live latest version or none that is live.
The proof found that `disturbed` must also hold the keys from which the expiry
or the scanner takes a version that a request may be about to make the latest.

**Migration.** The refinement needs two facts: a Put that has stored its bytes and not
its row finds them in the store it chose (`PutInv`), and a live version is in the
store its row names (`LiveInv`). The second is disturbed by each step of a migration, so
`MigInv` says where a migration is: what it has read is local, what it has copied has a
replica until it is switched, what it unlinks is distributed by then. With that every step
of `Migration` is a step of `Versions` or leaves the mapped state alone. The hypothesis
`Alone` (at most one migration request is under way) is needed: two at once lose a
version, as section 3 says. Nothing in the code enforces it; it is a hypothesis of the
theorems, not an assumption about the code, and the run, which has one migrator, satisfies
it. `LastNodeStays` needs neither. As long as nothing has failed all nodes
are healthy (`GuardInv`), PATCHes under way together have met, and every other one that
activates a node meets those there are. So between guard and update of a PATCH that has
met none nobody else changed the serving nodes, and one that leaves because others serve
leaves one behind.

**JobQueue.** Only the worker that claimed a row works on it, because a row that runs is
out of reach of a claim until it is stale, and what is stale is in `late`.

**Placement.** Only the nodes that no operator touches are known to be active, so the
condition is about one of them: `AlwaysTarget(a)` says that wherever the others are put, `a` is among
the first of both target lists. The first node by name is one (`FirstIsAlwaysTarget`), and with
both targets 0, which means all, each of them is (`AllAreTargets`). `Keeps(a)` says that a step is not the
loss of a replica by `a` itself; all other nodes may lose, leave and return as they like,
and `a` may be unreachable. `HolderInv` is then inductive: a Put under way has `a` among its
targets and what it has written there is there, no job is going to delete on `a`, and a
rebalance works from a target list that has `a`. Without such a node the property is
false (section 3). The run lets the first node lose replicas as well, which its
bounds make harmless and the theorem does not cover. What the rebalance takes for its
source is a node at all because a finite set of numbers has a least one (`LeastExists`).

**EventDelivery.** `HoldInv` is the core: a runner between claim and record has a row
that is running, whose attempts are those it read, and nobody else has it. It makes the
decision of `markFailure` (by the copy) agree with the counter of the UPDATE (in the row).
`QueueInv` keeps a delivery from being claimed twice, `EmitInv` keeps the insertion of a
row from meeting one that exists.

**Multipart.** `RecordedPartsReadable` speaks of parts that are `Whole`: nobody is in the
middle of writing their blob, no write of it failed half way or overlapped another, and
nobody removes their upload. `CallInv` says that whoever deletes a blob has announced the
upload in `closing`, `PutInv` that a PutPart about to record a part that is whole left a
blob there. The other two are about uploads that are not in
`overlap`: on those `AloneInv` gives a call the upload to itself, `OnceInv` says that
who makes the object stays at the upload until its row is gone, `BlobInv` that
a blob that can be read and its row differ only between the two halves of a PutPart, and `ReadInv` that what
Complete has read so far is what the rows tell of.

**Enrollment.** `AdmitInv`: an admitted join has used its token and left a credential.
`PriorInv`: a join that began after that never gets past its look at the token. For
`CredentialsAgree`, `WaitInv` and `FileInv` follow a credential from the commit to the
answer to the file of the node: one that is replaced in the row without the node knowing
belongs to a join whose answer was lost.

**Sessions.** `TokensAccountedFor` relates the rows of the tokens to the requests that
spent them, and a Refresh changes both in two steps under a row lock: `LockInv` and
`TokenInv` say who may be between them. Roles are handled with the histories: whatever a
request carries is in `held` or `granted` of its account, and both grow only.
`CacheInv` says that requests with different settings that may still write or use the
cached provider have crossed, so that from `ensureProvider` to its verification a callback
that has not crossed finds the provider it asked for. A request whose commit was not
acknowledged counts among those that spent a token, and `TokenInv` covers both endings.

**Writes.** The two quota checks of a request have a snapshot each and hold no lock, so the
stored bytes alone are not bounded inductively. `OvershootInv` adds to what is stored the
sizes of the requests in flight, and of the bucket's quota those past the check of the bucket
count before they have passed the check of their user, since nobody looks at the bucket
again. A request that passes a check saw a usage within the quota in force, whatever the
others are about to add, and those are at most all the others with the largest size each.
The totals are sums over sets of rows, defined by a fold. That folds add up (`Adds`, `Total`
and the lemmas from `AddsAgree` on) is proved without induction, which no prover here can
use: of the sets on which an equation failed there would be a smallest one by inclusion
(`SmallestSubset`, from the well-foundedness of inclusion on finite sets), and one
element less is a set on which it holds. Assumed are finite sets of requests,
sizes and quotas (columns of 64 bits), and that the empty user name is no user's.
`AnswersInv` follows a request's `row` flag from the commit to the answer, the audit
entry and the event: an error of Put may come after its commit, a success never without one.

**Authorization.** A decision is spread over up to as many queries as there are bound
roles. `CurrentInv` says that without a change or a failure what was read is
what the tables say, and that the roles asked so far do not allow the request; `HistoryInv`
and `ReadInv` say the same of the histories when there was a change.
The fact that the list of roles has a first one (`EarliestExists`) is a lemma by
the well-foundedness of inclusion on finite sets.

Parts of the models were rewritten because nothing could be proved about them:
the list of roles in `Authorization` and the postponed order in `JobQueue`, both of which
used `SelectSeq`, and the history of overlaps, which is part of a specification now. The proofs also found `CASE` expressions whose arms overlapped, in
`Enrollment`, `Authorization`, `EventDelivery` and `Placement`: TLC takes the first
arm, the semantics of TLA+ leaves the choice open. Their arms are disjoint now.

### Checked by TLC only

- Liveness under fairness: no backend here reasons about `ENABLED`.
- `EveryObjectHasReplica` when no single node keeps what it holds: with every node a
  target of the rebalance and one fault, as in the run, some other node still has a replica. How many
  losses a placement survives then depends on which copies were skipped and in which order
  nodes leave.

Every other invariant and every action property that a run checks is a theorem.

## 6. Not modelled

- Signatures, password hashes, JWTs, encryption of blobs and the RPC nonce guard:
  calls of cryptographic libraries. Their verdict is an input where something depends
  on it.
- HTTP and XML formats, wording and layout of answers.
- Listings, dashboard and metrics, which only read.
- Settings other than the OIDC issuer and the malware mode, creation of buckets, users
  and credentials, tags: single statements that no other operation races with.
- The recalculated usage columns and warning headers of quotas, which no check reads.
- Configuration from the environment; the frontend; scripts and deployment.

## 7. What is left

The components with control of their own are modelled, and the safety properties of the
runs are proved. What could follow:

1. How many losses of replicas a rebalanced object survives, by the number of nodes that are
   always targets.
2. Liveness, once a prover for `ENABLED` is at hand: the leads-to steps of `JobQueue` are
   short, and the other modules assume what they show.
3. The admin router's remaining handlers, should they come to share state with the modelled
   ones: today they are single statements (section 6).
