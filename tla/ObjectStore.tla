---------------------------- MODULE ObjectStore ----------------------------
(***************************************************************************)
(* The versioned object table and its blobs: objects.Service over          *)
(* PostgreSQL (READ COMMITTED) and one blob store.                         *)
(*                                                                         *)
(* One bucket.  A version is a row of the table "objects".  Its identity   *)
(* is the start time of the transaction that inserted it, which is also    *)
(* its created_at (the column defaults to NOW(), the transaction's start). *)
(* Every request runs its transaction statement by statement:              *)
(*   - a statement first takes a snapshot of the committed rows (a "scan"  *)
(*     step, which fixes its target rows), then waits for the row locks of *)
(*     those rows and writes the ones that still match ("exec" step);      *)
(*   - a write stays in the transaction's overlay, invisible to the others *)
(*     and locking the row, until Commit applies it or Abort drops it;     *)
(*   - a write that makes a row the latest of its key first meets the      *)
(*     unique index: it waits for an undecided rival and fails on a        *)
(*     decided one.                                                        *)
(***************************************************************************)
EXTENDS Integers, FiniteSets

CONSTANTS
    Requests,   \* concurrent API requests
    Keys,       \* object keys of the bucket
    Paths,      \* storage paths; a Put draws a fresh one (uuid)
    None,       \* no key, no path
    MaxTx,      \* bound: transactions that may insert a row
    PutModes,   \* inputs of Put: retention and lifecycle headers
    HoldInputs, \* values the operators may pass to SetLegalHold
    Verdicts,   \* what the malware scanner may answer; {}: no scanner is set
    ScanModes   \* the malware scan modes the settings may hold

ASSUME NoneAssumption == None \notin Keys \cup Paths
ASSUME MaxTxAssumption == MaxTx \in Nat
ASSUME PutModesAssumption == PutModes \subseteq [retained: BOOLEAN, expires: BOOLEAN]
ASSUME HoldInputsAssumption == HoldInputs \subseteq BOOLEAN
ASSUME VerdictsAssumption == Verdicts \subseteq {"clean", "infected", "scan-failed"}
ASSUME ScanModesAssumption == ScanModes \subseteq {"advisory", "enforcement"}

VARIABLES
    rows,    \* committed rows of the table objects
    blobs,   \* paths present in the blob store
    used,    \* paths ever drawn: a uuid is never drawn twice
    leaked,  \* history: blobs nothing will ever delete again
    clock,   \* start time of the last inserting transaction
    bucket,  \* the bucket row, and the progress of its deletion
    pc,      \* next step of each request
    req,     \* local variables of each request
    tgt,     \* rows the current statement's snapshot selected
    ovl,     \* uncommitted writes (and row locks) of each transaction
    purge,   \* progress of PurgeDeletedBefore
    scanq    \* candidates ProcessPending still has to scan

vars == <<rows, blobs, used, leaked, clock, bucket, pc, req, tgt, ovl, purge, scanq>>
txVars == <<pc, req, tgt, ovl>>
dbVars == <<rows, clock, bucket>>
blobVars == <<blobs, used, leaked>>
workerVars == <<purge, scanq>>

TxId == 1..MaxTx

Scans == {"pending-scan", "clean", "infected", "scan-failed"}

Row == [st: {"absent", "live", "deleted"}, key: Keys \cup {None}, latest: BOOLEAN,
        marker: BOOLEAN, path: Paths \cup {None}, hold: BOOLEAN,
        retained: BOOLEAN, expires: BOOLEAN, scan: Scans]

NoRow == [st |-> "absent", key |-> None, latest |-> FALSE, marker |-> FALSE,
          path |-> None, hold |-> FALSE, retained |-> FALSE, expires |-> FALSE,
          scan |-> "clean"]

Ops == {"put", "delete", "deleteVersion", "restore"}

Steps == {"idle", "begin", "remove", "demoteScan", "demote",
          "promoteScan", "promote", "insert", "commit", "cleanup"}

Request == [op: Ops \cup {"none"}, key: Keys \cup {None}, path: Paths \cup {None},
            ts: 0..MaxTx, isLatest: BOOLEAN, retained: BOOLEAN, expires: BOOLEAN]

NoMode == [retained |-> FALSE, expires |-> FALSE]

NewRequest(op, k, p, latest, m) ==
    [op |-> op, key |-> k, path |-> p, ts |-> 0, isLatest |-> latest,
     retained |-> m.retained, expires |-> m.expires]

NoRequest == NewRequest("none", None, None, FALSE, NoMode)

Writes == {"none", "demote", "promote", "remove", "insert"}

NoWrites == [x \in TxId |-> "none"]

NoPurge == [cand |-> {}, cur |-> 0]

-----------------------------------------------------------------------------
(* What a statement of request r sees, and what it waits for.              *)

\* The row x exists for r: committed, and not removed by r itself.
Visible(r, x) == rows[x].st # "absent" /\ ovl[r][x] # "remove"

\* is_latest of x as r sees it.
SeenLatest(r, x) ==
    CASE ovl[r][x] \in {"promote", "insert"} -> TRUE
      [] ovl[r][x] \in {"demote", "remove"}  -> FALSE
      [] OTHER                               -> rows[x].latest

\* Another transaction holds the lock of row x.
LockedByOther(r, x) == \E q \in Requests \ {r} : ovl[q][x] # "none"

Locked(x) == \E q \in Requests : ovl[q][x] # "none"

\* Request r has written row x as the latest version of its key.
MakesLatest(r, x) == ovl[r][x] \in {"promote", "insert"}

\* objects_latest_unique_idx: r must wait before it makes x the latest of key
\* k, because an undecided transaction made another row latest or is taking
\* the flag (or the row) away from a committed one.
IndexBusy(r, k, x) ==
    \/ \E q \in Requests \ {r}, y \in TxId \ {x} : req[q].key = k /\ MakesLatest(q, y)
    \/ \E y \in TxId \ {x} : rows[y].latest /\ rows[y].key = k /\ LockedByOther(r, y)

\* Mutant: migration 017 forgets UNIQUE.
IndexConflictNoIndex(r, k, x) == FALSE

\* objects_latest_unique_idx: the write fails, a committed row other than x is
\* the latest of k and r has not demoted or removed it.
IndexConflict(r, k, x) ==
    \E y \in TxId \ {x} : rows[y].latest /\ rows[y].key = k /\ ovl[r][y] = "none"

RowsOf(k) == {x \in TxId : rows[x].st # "absent" /\ rows[x].key = k}

\* The rows a promotion chooses from; RestoreLatest passes over delete markers.
Candidates(r) ==
    {x \in RowsOf(req[r].key) : /\ Visible(r, x) /\ rows[x].st = "live"
                                /\ req[r].op = "restore" => ~rows[x].marker}

Protected(x) == rows[x].hold \/ rows[x].retained

-----------------------------------------------------------------------------
Init ==
    /\ rows = [x \in TxId |-> NoRow]
    /\ blobs = {} /\ used = {} /\ leaked = {}
    /\ clock = 0
    /\ bucket = "present"
    /\ pc = [r \in Requests |-> "idle"]
    /\ req = [r \in Requests |-> NoRequest]
    /\ tgt = [r \in Requests |-> {}]
    /\ ovl = [r \in Requests |-> NoWrites]
    /\ purge = NoPurge
    /\ scanq = {}

Goto(r, step) == pc' = [pc EXCEPT ![r] = step]

\* Put up to the end of the blob write: the payload is stored under a fresh
\* path before the transaction begins.
PutBlob(r, k, p, m) ==
    /\ pc[r] = "idle" /\ bucket # "gone"
    /\ p \notin used
    /\ used' = used \cup {p}
    /\ blobs' = blobs \cup {p}
    /\ req' = [req EXCEPT ![r] = NewRequest("put", k, p, FALSE, m)]
    /\ Goto(r, "begin")
    /\ UNCHANGED <<dbVars, leaked, tgt, ovl, workerVars>>

\* Delete up to its checks: retention and legal hold of the latest row are
\* read in a statement of their own, before the transaction begins.
DeleteCheck(r, k) ==
    /\ pc[r] = "idle" /\ bucket # "gone"
    /\ \E x \in RowsOf(k) : rows[x].latest /\ ~Protected(x)
    /\ req' = [req EXCEPT ![r] = NewRequest("delete", k, None, FALSE, NoMode)]
    /\ Goto(r, "begin")
    /\ UNCHANGED <<dbVars, blobVars, tgt, ovl, workerVars>>

RestoreStart(r, k) ==
    /\ pc[r] = "idle" /\ bucket # "gone"
    /\ req' = [req EXCEPT ![r] = NewRequest("restore", k, None, FALSE, NoMode)]
    /\ Goto(r, "demoteScan")
    /\ UNCHANGED <<dbVars, blobVars, tgt, ovl, workerVars>>

\* tx.Begin of Put and Delete: NOW(), the created_at of the row they insert,
\* is fixed here.
Begin(r) ==
    /\ pc[r] = "begin" /\ clock < MaxTx
    /\ clock' = clock + 1
    /\ req' = [req EXCEPT ![r].ts = clock + 1]
    /\ Goto(r, "demoteScan")
    /\ UNCHANGED <<rows, bucket, blobVars, tgt, ovl, workerVars>>

\* DeleteVersion: the row is read without a lock and its checks are made.
SelectVersion(r, x) ==
    /\ pc[r] = "idle" /\ bucket # "gone"
    /\ rows[x].st = "live" /\ ~Protected(x)
    /\ req' = [req EXCEPT ![r] = 
                   NewRequest("deleteVersion", rows[x].key, rows[x].path, rows[x].latest, NoMode)]
    /\ tgt' = [tgt EXCEPT ![r] = {x}]
    /\ Goto(r, "remove")
    /\ UNCHANGED <<dbVars, blobVars, ovl, workerVars>>

\* Mutant: DeleteVersion never promotes a successor.
RemoveRowOnly(r) ==
    /\ pc[r] = "remove"
    /\ \A x \in tgt[r] : ~LockedByOther(r, x)
    /\ ovl' = [ovl EXCEPT ![r] = [x \in TxId |->
                   IF x \in tgt[r] /\ rows[x].st # "absent" THEN "remove" ELSE @[x]]]
    /\ tgt' = [tgt EXCEPT ![r] = {}]
    /\ Goto(r, "commit")
    /\ UNCHANGED <<dbVars, blobVars, req, workerVars>>

\* DeleteVersion: DELETE ... WHERE id.  It waits for the row lock and deletes
\* whatever is there then, possibly nothing; nothing is checked again.
RemoveRow(r) ==
    /\ pc[r] = "remove"
    /\ \A x \in tgt[r] : ~LockedByOther(r, x)
    /\ ovl' = [ovl EXCEPT ![r] = [x \in TxId |->
                   IF x \in tgt[r] /\ rows[x].st # "absent" THEN "remove" ELSE @[x]]]
    /\ tgt' = [tgt EXCEPT ![r] = {}]
    /\ Goto(r, IF req[r].isLatest THEN "demoteScan" ELSE "commit")
    /\ UNCHANGED <<dbVars, blobVars, req, workerVars>>

\* UPDATE ... SET is_latest = FALSE: the snapshot.  Put, Delete and
\* RestoreLatest select the latest row, DeleteVersion every row of the key.
DemoteScan(r) ==
    /\ pc[r] = "demoteScan"
    /\ tgt' = [tgt EXCEPT ![r] =
                   {x \in RowsOf(req[r].key) :
                       Visible(r, x) /\ (req[r].op = "deleteVersion" \/ SeenLatest(r, x))}]
    /\ Goto(r, "demote")
    /\ UNCHANGED <<dbVars, blobVars, req, ovl, workerVars>>

\* The same statement once it has the locks: the rows that still match.
Demote(r) ==
    /\ pc[r] = "demote"
    /\ \A x \in tgt[r] : ~LockedByOther(r, x)
    /\ ovl' = [ovl EXCEPT ![r] = [x \in TxId |->
                   IF /\ x \in tgt[r] /\ Visible(r, x)
                      /\ req[r].op = "deleteVersion" \/ SeenLatest(r, x)
                   THEN "demote" ELSE @[x]]]
    /\ tgt' = [tgt EXCEPT ![r] = {}]
    /\ Goto(r, IF req[r].op \in {"put", "delete"} THEN "insert" ELSE "promoteScan")
    /\ UNCHANGED <<dbVars, blobVars, req, workerVars>>

\* INSERT of the new latest row.  The foreign key needs the bucket.
Insert(r) ==
    /\ pc[r] = "insert" /\ bucket # "gone"
    /\ ~IndexBusy(r, req[r].key, req[r].ts)
    /\ ~IndexConflict(r, req[r].key, req[r].ts)
    /\ ovl' = [ovl EXCEPT ![r][req[r].ts] = "insert"]
    /\ Goto(r, "commit")
    /\ UNCHANGED <<dbVars, blobVars, req, tgt, workerVars>>

\* UPDATE ... SET is_latest = TRUE WHERE id = (SELECT ... ORDER BY created_at
\* DESC LIMIT 1): the snapshot.  With no candidate left RestoreLatest fails (see
\* Abort) and DeleteVersion promotes nothing.
PromoteScan(r) ==
    /\ pc[r] = "promoteScan"
    /\ \/ /\ Candidates(r) = {} /\ req[r].op = "deleteVersion"
          /\ Goto(r, "commit")
          /\ UNCHANGED tgt
       \/ \E x \in Candidates(r) :
              /\ \A y \in Candidates(r) : y <= x
              /\ tgt' = [tgt EXCEPT ![r] = {x}]
              /\ Goto(r, "promote")
    /\ UNCHANGED <<dbVars, blobVars, req, ovl, workerVars>>

\* The same statement once it has the lock.  The subquery is not evaluated
\* again: a row deleted meanwhile is not updated, a row soft-deleted meanwhile is.
Promote(r) ==
    /\ pc[r] = "promote"
    /\ \A x \in tgt[r] :
           /\ ~LockedByOther(r, x)
           /\ rows[x].st = "absent" => req[r].op = "deleteVersion"
           /\ rows[x].st # "absent" => /\ ~IndexBusy(r, req[r].key, x)
                                       /\ ~IndexConflict(r, req[r].key, x)
    /\ ovl' = [ovl EXCEPT ![r] = [x \in TxId |->
                   IF x \in tgt[r] /\ rows[x].st # "absent" THEN "promote" ELSE @[x]]]
    /\ tgt' = [tgt EXCEPT ![r] = {}]
    /\ Goto(r, "commit")
    /\ UNCHANGED <<dbVars, blobVars, req, workerVars>>

\* The row a transaction inserts: Put's object or Delete's marker.
NewRow(r) ==
    [st |-> "live", key |-> req[r].key, latest |-> TRUE, marker |-> req[r].op = "delete",
     path |-> req[r].path, hold |-> FALSE, retained |-> req[r].retained,
     expires |-> req[r].expires,
     scan |-> IF req[r].op = "delete" THEN "clean" ELSE "pending-scan"]

Applied(r, x) ==
    CASE ovl[r][x] = "demote"  -> [rows[x] EXCEPT !.latest = FALSE]
      [] ovl[r][x] = "promote" -> [rows[x] EXCEPT !.latest = TRUE]
      [] ovl[r][x] = "remove"  -> NoRow
      [] ovl[r][x] = "insert"  -> NewRow(r)
      [] OTHER                 -> rows[x]

\* Mutant: DeleteVersion forgets the blob.
CommitNoCleanup(r) ==
    /\ pc[r] = "commit"
    /\ rows' = [x \in TxId |-> Applied(r, x)]
    /\ ovl' = [ovl EXCEPT ![r] = NoWrites]
    /\ Goto(r, "idle")
    /\ req' = [req EXCEPT ![r] = NoRequest]
    /\ UNCHANGED <<clock, bucket, blobVars, tgt, workerVars>>

\* Mutant: the promotion also clears deleted_at.
CommitUndeleting(r) ==
    /\ pc[r] = "commit"
    /\ rows' = [x \in TxId |-> IF ovl[r][x] = "promote" THEN [Applied(r, x) EXCEPT !.st = "live"]
                               ELSE Applied(r, x)]
    /\ ovl' = [ovl EXCEPT ![r] = NoWrites]
    /\ Goto(r, "idle")
    /\ req' = [req EXCEPT ![r] = NoRequest]
    /\ UNCHANGED <<clock, bucket, blobVars, tgt, workerVars>>

\* tx.Commit.  DeleteVersion goes on to delete the blob of the row it read.
Commit(r) ==
    /\ pc[r] = "commit"
    /\ rows' = [x \in TxId |-> Applied(r, x)]
    /\ ovl' = [ovl EXCEPT ![r] = NoWrites]
    /\ IF req[r].op = "deleteVersion" /\ req[r].path # None
       THEN Goto(r, "cleanup") /\ UNCHANGED req
       ELSE Goto(r, "idle") /\ req' = [req EXCEPT ![r] = NoRequest]
    /\ UNCHANGED <<clock, bucket, blobVars, tgt, workerVars>>

\* DeleteVersion, after the commit.
DeleteBlob(r) ==
    /\ pc[r] = "cleanup"
    /\ blobs' = blobs \ {req[r].path}
    /\ leaked' = leaked \ {req[r].path}
    /\ req' = [req EXCEPT ![r] = NoRequest]
    /\ Goto(r, "idle")
    /\ UNCHANGED <<dbVars, used, tgt, ovl, workerVars>>

\* A statement fails (unique violation, missing bucket, nothing to restore,
\* deadlock, lost connection) or the API process dies: the deferred Rollback
\* drops the writes and nothing else is undone.
Abort(r) ==
    /\ pc[r] # "idle"
    /\ leaked' = IF req[r].op = "put" \/ pc[r] = "cleanup"
                 THEN leaked \cup ({req[r].path} \cap blobs) ELSE leaked
    /\ req' = [req EXCEPT ![r] = NoRequest]
    /\ tgt' = [tgt EXCEPT ![r] = {}]
    /\ ovl' = [ovl EXCEPT ![r] = NoWrites]
    /\ Goto(r, "idle")
    /\ UNCHANGED <<dbVars, blobs, used, workerVars>>

-----------------------------------------------------------------------------
(* Single-statement operations: they wait for the row lock and commit.     *)

SetLegalHold(x, h) ==
    /\ rows[x].st = "live" /\ ~Locked(x)
    /\ rows' = [rows EXCEPT ![x].hold = h]
    /\ UNCHANGED <<clock, bucket, blobVars, txVars, workerVars>>

\* The clock passes retention_until.
RetentionEnds(x) ==
    /\ rows[x].retained
    /\ rows' = [rows EXCEPT ![x].retained = FALSE]
    /\ UNCHANGED <<clock, bucket, blobVars, txVars, workerVars>>

\* S is the set of rows whose lifecycle_delete_at has come.
ApplyLifecycleExpirations(S) ==
    /\ S # {}
    /\ \A x \in S : rows[x].st = "live" /\ rows[x].expires /\ ~Protected(x) /\ ~Locked(x)
    /\ rows' = [x \in TxId |-> IF x \in S THEN [rows[x] EXCEPT !.st = "deleted"] ELSE rows[x]]
    /\ UNCHANGED <<clock, bucket, blobVars, txVars, workerVars>>

\* Mutant: the purge's query forgets deleted_at IS NOT NULL.
PurgeSelectAny(S) ==
    /\ purge = NoPurge
    /\ S # {} /\ \A x \in S : rows[x].st # "absent"
    /\ purge' = [purge EXCEPT !.cand = {<<x, rows[x].path>> : x \in S}]
    /\ UNCHANGED <<dbVars, blobVars, txVars, scanq>>

\* PurgeDeletedBefore: the candidates, each with its path; which soft-deleted
\* rows the cutoff takes is open.
PurgeSelect(S) ==
    /\ purge = NoPurge
    /\ S # {} /\ \A x \in S : rows[x].st = "deleted"
    /\ purge' = [purge EXCEPT !.cand = {<<x, rows[x].path>> : x \in S}]
    /\ UNCHANGED <<dbVars, blobVars, txVars, scanq>>

\* One candidate: the blob goes first.
PurgeBlob(c) ==
    /\ purge.cur = 0 /\ c \in purge.cand
    /\ blobs' = blobs \ {c[2]}
    /\ leaked' = leaked \ {c[2]}
    /\ purge' = [cand |-> purge.cand \ {c}, cur |-> c[1]]
    /\ UNCHANGED <<dbVars, used, txVars, scanq>>

\* Then the row, if it is still there and soft-deleted.
PurgeRow ==
    /\ purge.cur # 0 /\ ~Locked(purge.cur)
    /\ rows' = IF rows[purge.cur].st = "deleted"
               THEN [rows EXCEPT ![purge.cur] = NoRow] ELSE rows
    /\ purge' = [purge EXCEPT !.cur = 0]
    /\ UNCHANGED <<clock, bucket, blobVars, txVars, scanq>>

\* The worker dies, or a blob or row cannot be deleted: the rest is dropped.
PurgeAbort ==
    /\ purge # NoPurge
    /\ purge' = NoPurge
    /\ UNCHANGED <<dbVars, blobVars, txVars, scanq>>

\* ProcessPending: the candidates.
ScanSelect ==
    /\ scanq = {} /\ Verdicts # {}
    /\ scanq' = {x \in TxId : rows[x].st = "live" /\ rows[x].scan = "pending-scan"}
    /\ scanq' # {}
    /\ UNCHANGED <<dbVars, blobVars, txVars, purge>>

\* Mutant: the mode is written in the place of the verdict.
ScanVerdictSwapped(x, v, mode) ==
    /\ x \in scanq /\ ~Locked(x)
    /\ rows' = IF rows[x].st = "absent" THEN rows ELSE [rows EXCEPT ![x].scan = mode]
    /\ scanq' = scanq \ {x}
    /\ UNCHANGED <<clock, bucket, blobVars, txVars, purge>>

\* ProcessPending, one candidate: the verdict is written by id whatever became
\* of the row; enforcement soft-deletes an infected one, held or not.  A blob
\* that cannot be read is a failed scan.
ScanVerdict(x, v, mode) ==
    /\ x \in scanq /\ ~Locked(x)
    /\ LET verdict == IF rows[x].path \in blobs THEN v ELSE "scan-failed"
       IN  rows' = IF rows[x].st = "absent" THEN rows
                   ELSE [rows EXCEPT ![x] = [rows[x] EXCEPT !.scan = verdict,
                            !.st = IF verdict = "infected" /\ mode = "enforcement"
                                   THEN "deleted" ELSE rows[x].st]]
    /\ scanq' = scanq \ {x}
    /\ UNCHANGED <<clock, bucket, blobVars, txVars, purge>>

ScanAbort ==
    /\ scanq # {}
    /\ scanq' = {}
    /\ UNCHANGED <<dbVars, blobVars, txVars, purge>>

\* buckets.Delete: the count of rows that are not soft-deleted.
BucketCount ==
    /\ bucket = "present"
    /\ \A x \in TxId : rows[x].st # "live"
    /\ bucket' = "counted"
    /\ UNCHANGED <<rows, clock, blobVars, txVars, workerVars>>

\* buckets.Delete: DELETE FROM buckets cascades to every row.  It waits for the
\* transactions that hold a row of the bucket.
BucketDelete ==
    /\ bucket = "counted"
    /\ \A x \in TxId : ~Locked(x)
    /\ bucket' = "gone"
    /\ leaked' = leaked \cup (blobs \cap {rows[x].path : x \in TxId})
    /\ rows' = [x \in TxId |-> NoRow]
    /\ UNCHANGED <<clock, blobs, used, txVars, workerVars>>

BucketAbort ==
    /\ bucket = "counted"
    /\ bucket' = "present"
    /\ UNCHANGED <<rows, clock, blobVars, txVars, workerVars>>

-----------------------------------------------------------------------------
RequestStep(r) ==
    \/ \E k \in Keys, p \in Paths, m \in PutModes : PutBlob(r, k, p, m)
    \/ \E k \in Keys : DeleteCheck(r, k)
    \/ \E k \in Keys : RestoreStart(r, k)
    \/ \E x \in TxId : SelectVersion(r, x)
    \/ Begin(r)
    \/ RemoveRow(r)
    \/ DemoteScan(r)
    \/ Demote(r)
    \/ Insert(r)
    \/ PromoteScan(r)
    \/ Promote(r)
    \/ Commit(r)
    \/ DeleteBlob(r)
    \/ Abort(r)

Next ==
    \/ \E r \in Requests : RequestStep(r)
    \/ \E x \in TxId, h \in HoldInputs : SetLegalHold(x, h)
    \/ \E x \in TxId : RetentionEnds(x)
    \/ \E S \in SUBSET TxId : ApplyLifecycleExpirations(S)
    \/ \E S \in SUBSET TxId : PurgeSelect(S)
    \/ \E c \in purge.cand : PurgeBlob(c)
    \/ PurgeRow
    \/ PurgeAbort
    \/ ScanSelect
    \/ \E x \in TxId, v \in Verdicts, mode \in ScanModes : ScanVerdict(x, v, mode)
    \/ ScanAbort
    \/ BucketCount
    \/ BucketDelete
    \/ BucketAbort

Spec == Init /\ [][Next]_vars

-----------------------------------------------------------------------------
(* Properties.                                                             *)

\* Types of the table, the transactions and the workers.  A verdict leaves a
\* row in a scan status of applyVerdict, and PurgeDeletedBefore works on rows.
TypeOK ==
    /\ rows \in [TxId -> Row]
    /\ blobs \subseteq Paths /\ used \subseteq Paths /\ leaked \subseteq Paths
    /\ clock \in 0..MaxTx
    /\ bucket \in {"present", "counted", "gone"}
    /\ pc \in [Requests -> Steps]
    /\ req \in [Requests -> Request]
    /\ tgt \in [Requests -> SUBSET TxId]
    /\ ovl \in [Requests -> [TxId -> Writes]]
    /\ purge \in [cand: SUBSET (TxId \X (Paths \cup {None})), cur: 0..MaxTx]
    /\ scanq \subseteq TxId

\* However Put, Delete, DeleteVersion and RestoreLatest interleave, a key never
\* has two latest versions: what List, Head and GetByKey (which select on
\* is_latest) return is well defined.
OneLatest ==
    \A x, y \in TxId : rows[x].latest /\ rows[y].latest /\ rows[x].key = rows[y].key => x = y

\* A version that can be read or restored has its blob: no interleaving of
\* DeleteVersion, the purge, the scanner and failed requests deletes the blob
\* of a row that is not soft-deleted.
NoDanglingVersion ==
    \A x \in TxId : rows[x].st = "live" /\ ~rows[x].marker => rows[x].path \in blobs

\* Every blob belongs to a row, to a request that will still insert its row or
\* delete it, or was leaked by a failed request or a bucket deletion: Put,
\* DeleteVersion and the purge leak nothing when they run to their end.
BlobsAccountedFor ==
    \A p \in blobs :
        \/ \E x \in TxId : rows[x].path = p
        \/ \E r \in Requests : req[r].path = p /\ (req[r].op = "put" \/ pc[r] = "cleanup")
        \/ p \in leaked

\* What the expiry, the scanner and the deletions took away stays away: a
\* soft-deleted version is never live again (RestoreLatest included) and a
\* version that is gone never returns.
NoResurrection ==
    [][\A x \in TxId :
          /\ rows[x].st = "deleted" => rows'[x].st \in {"deleted", "absent"}
          /\ rows[x].st = "absent" /\ rows'[x].st # "absent" => rows'[x].st = "live" /\ rows'[x].latest
      ]_rows

-----------------------------------------------------------------------------
(* The inductive invariant behind OneLatest and NoDanglingVersion.         *)

\* A start time handed out to a transaction that has not ended yet.
Pending(r) == req[r].op \in {"put", "delete"} /\ pc[r] \notin {"idle", "begin"}

\* A row slot that can still become a row: only its own transaction fills it.
Reserved(x) == x > clock \/ \E r \in Requests : Pending(r) /\ req[r].ts = x

\* A slot without a row is empty; a row has a key and its transaction has ended.
RowInv ==
    \A x \in TxId :
        /\ rows[x].st = "absent" => rows[x] = NoRow
        /\ rows[x].st # "absent" => ~Reserved(x) /\ rows[x].key \in Keys
        /\ rows[x].st = "live" /\ ~rows[x].marker => rows[x].path \in Paths

\* The step of a request fits its operation; start times are not shared.
TsInv ==
    \A r \in Requests :
        /\ pc[r] # "idle" => req[r].op # "none" /\ req[r].key \in Keys
        /\ pc[r] = "idle" => req[r] = NoRequest
        /\ pc[r] \in {"begin", "insert"} => req[r].op \in {"put", "delete"}
        /\ pc[r] \in {"promote", "promoteScan"} => req[r].op \in {"restore", "deleteVersion"}
        /\ pc[r] \in {"remove", "cleanup"} => req[r].op = "deleteVersion"
        /\ Pending(r) => req[r].ts \in 1..clock
        /\ \A q \in Requests : Pending(q) /\ Pending(r) /\ req[q].ts = req[r].ts => q = r

\* What a transaction has written fits the step it is at, and locks exclude.
LockInv ==
    \A r \in Requests, x \in TxId :
        /\ pc[r] \in {"idle", "begin", "remove", "cleanup"} => ovl[r][x] = "none"
        /\ pc[r] # "commit" => ~MakesLatest(r, x)
        /\ ovl[r][x] = "insert" => Pending(r) /\ x = req[r].ts
        /\ ovl[r][x] \in {"demote", "promote", "remove"}
               => rows[x].st # "absent" /\ rows[x].key = req[r].key
        /\ ovl[r][x] = "remove" => req[r].op = "deleteVersion"
        /\ \A q \in Requests : ovl[r][x] # "none" /\ ovl[q][x] # "none" => q = r

\* The rows a statement waits for belong to its key and its step.
TargetInv ==
    \A r \in Requests : \A x \in tgt[r] :
        /\ ~Reserved(x)
        /\ rows[x].st # "absent" => rows[x].key = req[r].key
        /\ pc[r] \in {"remove", "demote", "promote"}
        /\ pc[r] = "promote" => ovl[r][x] # "remove" /\ tgt[r] = {x}

\* A row made latest by an undecided transaction has no rival but the ones its
\* own transaction takes the flag from.
LatestInv ==
    /\ OneLatest
    /\ \A r \in Requests, x, y \in TxId :
           MakesLatest(r, x) /\ x # y /\ rows[y].latest /\ rows[y].key = req[r].key
               => ovl[r][y] \in {"demote", "remove"}
    /\ \A q, r \in Requests, x, y \in TxId :
           MakesLatest(q, x) /\ MakesLatest(r, y) /\ req[q].key = req[r].key
               => q = r /\ x = y

\* Rows do not share paths; the path of a Put under way is nobody else's.
PathInv ==
    /\ \A x \in TxId : rows[x].path # None => rows[x].path \in used
    /\ \A x, y \in TxId : rows[x].path = rows[y].path /\ rows[x].path # None => x = y
    /\ \A r \in Requests : req[r].path # None => req[r].path \in used
    /\ \A r \in Requests : req[r].op = "put" =>
           /\ req[r].path \in blobs
           /\ \A x \in TxId : rows[x].path # req[r].path
           /\ \A q \in Requests : req[q].path = req[r].path => q = r
           /\ \A c \in purge.cand : c[2] # req[r].path
    /\ \A r \in Requests : req[r].op \in {"delete", "restore"} => req[r].path = None

\* Who is about to delete a blob has made sure that no live row needs it.
DeleterInv ==
    /\ \A r \in Requests, x \in TxId :
           req[r].op = "deleteVersion" /\ req[r].path # None /\ rows[x].path = req[r].path
               => (pc[r] = "remove" /\ x \in tgt[r]) \/ ovl[r][x] = "remove"
    /\ \A c \in purge.cand :
           /\ ~Reserved(c[1]) /\ rows[c[1]].st # "live"
           /\ c[2] # None => c[2] \in used
           /\ \A y \in TxId : rows[y].path = c[2] /\ c[2] # None => y = c[1]

\* Inductive: each conjunct needs the others to survive Commit.
IInv ==
    /\ TypeOK /\ RowInv /\ TsInv /\ LockInv /\ TargetInv
    /\ LatestInv /\ PathInv /\ DeleterInv /\ NoDanglingVersion
=============================================================================
