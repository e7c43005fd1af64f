------------------------- MODULE ObjectStoreProofs -------------------------
(***************************************************************************)
(* ObjectStore is type correct and IInv is an inductive invariant of it,   *)
(* for any number of requests, keys, paths and transactions.  OneLatest,   *)
(* NoDanglingVersion and NoResurrection follow.  An invariant about blobs  *)
(* on their way adds BlobsAccountedFor, and one about the keys that are    *)
(* not disturbed adds LiveKeyHasLatest.                                    *)
(***************************************************************************)
EXTENDS ObjectStoreRaces, TLAPS

-----------------------------------------------------------------------------
(* Types.                                                                  *)

\* Changing one column keeps a row a row.
LEMMA RowUpdates ==
    ASSUME NEW w \in Row
    PROVE  /\ \A b \in BOOLEAN : [w EXCEPT !.latest = b] \in Row
           /\ \A b \in BOOLEAN : [w EXCEPT !.hold = b] \in Row
           /\ \A b \in BOOLEAN : [w EXCEPT !.retained = b] \in Row
           /\ [w EXCEPT !.st = "deleted"] \in Row
           /\ \A v \in Scans, s \in {"absent", "live", "deleted"} :
                  [w EXCEPT !.scan = v, !.st = s] \in Row
  BY DEF Row

\* An absent row is a row value.
LEMMA NoRowType == NoRow \in Row
  BY DEF NoRow, Row, Scans

\* The local variables a request starts with.
LEMMA NewRequestType ==
    ASSUME NEW op \in Ops \cup {"none"}, NEW k \in Keys \cup {None},
           NEW p \in Paths \cup {None}, NEW l \in BOOLEAN,
           NEW m \in [retained: BOOLEAN, expires: BOOLEAN]
    PROVE  NewRequest(op, k, p, l, m) \in Request
  <1>1. 0 \in 0..MaxTx
    BY MaxTxAssumption
  <1> QED
    BY <1>1 DEF NewRequest, Request

\* An idle request.
LEMMA NoRequestType == NoRequest \in Request
  <1>1. NoMode \in [retained: BOOLEAN, expires: BOOLEAN]
    BY DEF NoMode
  <1> QED
    BY <1>1, NewRequestType DEF NoRequest

\* The row a committing transaction inserts.
LEMMA NewRowType ==
    ASSUME TypeOK, NEW r \in Requests
    PROVE  NewRow(r) \in Row
  <1>1. req[r] \in Request
    BY DEF TypeOK
  <1> QED
    BY <1>1 DEF NewRow, Row, Request, Scans

\* What a commit leaves in a row slot.
LEMMA AppliedType ==
    ASSUME TypeOK, NEW r \in Requests, NEW x \in TxId
    PROVE  Applied(r, x) \in Row
  <1>1. rows[x] \in Row
    BY DEF TypeOK
  <1> QED
    BY <1>1, NewRowType, NoRowType, RowUpdates DEF Applied

\* Every step of a request keeps the types.
LEMMA RequestStepType ==
    ASSUME TypeOK, NEW r \in Requests, RequestStep(r)
    PROVE  TypeOK'
  <1> USE DEF dbVars, blobVars, workerVars, Goto, Steps
  <1>0. NoMode \in [retained: BOOLEAN, expires: BOOLEAN]
    BY DEF NoMode
  <1>1. ASSUME NEW k \in Keys, NEW p \in Paths, NEW m \in PutModes, PutBlob(r, k, p, m)
        PROVE  TypeOK'
    <2>1. NewRequest("put", k, p, FALSE, m) \in Request
      BY NewRequestType, PutModesAssumption DEF Ops
    <2> QED
      BY <1>1, <2>1 DEF PutBlob, TypeOK
  <1>2. ASSUME NEW k \in Keys, DeleteCheck(r, k)
        PROVE  TypeOK'
    <2>1. NewRequest("delete", k, None, FALSE, NoMode) \in Request
      BY NewRequestType, <1>0 DEF Ops
    <2> QED
      BY <1>2, <2>1 DEF DeleteCheck, TypeOK
  <1>3. ASSUME NEW k \in Keys, RestoreStart(r, k)
        PROVE  TypeOK'
    <2>1. NewRequest("restore", k, None, FALSE, NoMode) \in Request
      BY NewRequestType, <1>0 DEF Ops
    <2> QED
      BY <1>3, <2>1 DEF RestoreStart, TypeOK
  <1>4. ASSUME NEW x \in TxId, SelectVersion(r, x)
        PROVE  TypeOK'
    <2>1. rows[x] \in Row
      BY DEF TypeOK
    <2>2. NewRequest("deleteVersion", rows[x].key, rows[x].path, rows[x].latest, NoMode)
              \in Request
      BY NewRequestType, <1>0, <2>1 DEF Ops, Row
    <2> QED
      BY <1>4, <2>2 DEF SelectVersion, TypeOK
  <1>5. CASE Begin(r)
    <2>1. clock + 1 \in 0..MaxTx
      BY <1>5, MaxTxAssumption DEF Begin, TypeOK
    <2>2. [req[r] EXCEPT !.ts = clock + 1] \in Request
      <3>1. req[r] \in Request
        BY DEF TypeOK
      <3> QED
        BY <2>1, <3>1 DEF Request
    <2> QED
      BY <1>5, <2>1, <2>2 DEF Begin, TypeOK
  <1>6. CASE RemoveRow(r)
    BY <1>6 DEF RemoveRow, TypeOK, Writes
  <1>7. CASE DemoteScan(r)
    BY <1>7 DEF DemoteScan, TypeOK, RowsOf
  <1>8. CASE Demote(r)
    BY <1>8 DEF Demote, TypeOK, Writes
  <1>9. CASE Insert(r)
    BY <1>9 DEF Insert, TypeOK, Writes
  <1>10. CASE PromoteScan(r)
    <2>1. Candidates(r) \subseteq TxId
      BY DEF Candidates, RowsOf
    <2>2. CASE UNCHANGED tgt /\ Goto(r, "commit")
      BY <1>10, <2>2 DEF PromoteScan, TypeOK
    <2>3. ASSUME NEW x \in Candidates(r), tgt' = [tgt EXCEPT ![r] = {x}], Goto(r, "promote")
          PROVE  TypeOK'
      BY <1>10, <2>1, <2>3 DEF PromoteScan, TypeOK
    <2> QED
      BY <1>10, <2>2, <2>3 DEF PromoteScan
  <1>11. CASE Promote(r)
    BY <1>11 DEF Promote, TypeOK, Writes
  <1>12. CASE Commit(r)
    <2>1. rows' \in [TxId -> Row]
      BY <1>12, AppliedType DEF Commit
    <2> QED
      BY <1>12, <2>1, NoRequestType DEF Commit, TypeOK, NoWrites, Writes
  <1>13. CASE DeleteBlob(r)
    BY <1>13, NoRequestType DEF DeleteBlob, TypeOK
  <1>14. CASE Abort(r)
    BY <1>14, NoRequestType DEF Abort, TypeOK, NoWrites, Writes
  <1> QED
    BY <1>1, <1>2, <1>3, <1>4, <1>5, <1>6, <1>7, <1>8, <1>9, <1>10, <1>11, <1>12, <1>13,
       <1>14 DEF RequestStep

\* The background operations keep the types.
LEMMA BackgroundType ==
    ASSUME TypeOK, Next, ~ \E r \in Requests : RequestStep(r)
    PROVE  TypeOK'
  <1> USE DEF dbVars, blobVars, txVars, workerVars
  <1>0. \A y \in TxId : rows[y] \in Row
    BY DEF TypeOK
  <1>1. ASSUME NEW x \in TxId, NEW h \in HoldInputs, SetLegalHold(x, h)
        PROVE  TypeOK'
    <2>1. [rows[x] EXCEPT !.hold = h] \in Row
      BY <1>0, RowUpdates, HoldInputsAssumption
    <2> QED
      BY <1>1, <2>1 DEF SetLegalHold, TypeOK
  <1>2. ASSUME NEW x \in TxId, RetentionEnds(x)
        PROVE  TypeOK'
    <2>1. [rows[x] EXCEPT !.retained = FALSE] \in Row
      BY <1>0, RowUpdates
    <2> QED
      BY <1>2, <2>1 DEF RetentionEnds, TypeOK
  <1>3. ASSUME NEW S \in SUBSET TxId, ApplyLifecycleExpirations(S)
        PROVE  TypeOK'
    <2>1. \A x \in TxId : [rows[x] EXCEPT !.st = "deleted"] \in Row
      BY <1>0, RowUpdates
    <2> QED
      BY <1>0, <1>3, <2>1 DEF ApplyLifecycleExpirations, TypeOK
  <1>4. ASSUME NEW S \in SUBSET TxId, PurgeSelect(S)
        PROVE  TypeOK'
    <2>1. {<<x, rows[x].path>> : x \in S} \in SUBSET (TxId \X (Paths \cup {None}))
      BY <1>0 DEF Row
    <2> QED
      BY <1>4, <2>1 DEF PurgeSelect, TypeOK
  <1>5. ASSUME NEW c \in purge.cand, PurgeBlob(c)
        PROVE  TypeOK'
    <2>1. c \in TxId \X (Paths \cup {None})
      BY DEF TypeOK
    <2>2. c[1] \in 0..MaxTx
      BY <2>1, MaxTxAssumption DEF TxId
    <2> QED
      BY <1>5, <2>2 DEF PurgeBlob, TypeOK
  <1>6. CASE PurgeRow
    <2>1. rows' \in [TxId -> Row]
      BY <1>6, NoRowType DEF PurgeRow, TypeOK
    <2>2. 0 \in 0..MaxTx
      BY MaxTxAssumption
    <2> QED
      BY <1>6, <2>1, <2>2 DEF PurgeRow, TypeOK
  <1>7. CASE PurgeAbort
    BY <1>7, MaxTxAssumption DEF PurgeAbort, NoPurge, TypeOK
  <1>8. CASE ScanSelect
    BY <1>8 DEF ScanSelect, TypeOK
  <1>9. ASSUME NEW x \in TxId, NEW v \in Verdicts, NEW mode \in ScanModes,
               ScanVerdict(x, v, mode)
        PROVE  TypeOK'
    <2> DEFINE verdict == IF rows[x].path \in blobs THEN v ELSE "scan-failed"
               st == IF verdict = "infected" /\ mode = "enforcement"
                     THEN "deleted" ELSE rows[x].st
    <2>1. verdict \in Scans
      BY VerdictsAssumption DEF Scans
    <2>2. st \in {"absent", "live", "deleted"}
      BY <1>0 DEF Row
    <2>3. [rows[x] EXCEPT !.scan = verdict, !.st = st] \in Row
      <3> HIDE DEF verdict, st
      <3> QED
        BY <1>0, <2>1, <2>2, RowUpdates
    <2>4. rows' \in [TxId -> Row]
      <3>1. CASE rows[x].st = "absent"
        BY <1>9, <3>1 DEF ScanVerdict, TypeOK
      <3>2. CASE rows[x].st # "absent"
        BY <1>9, <2>3, <3>2 DEF ScanVerdict, TypeOK
      <3> QED
        BY <3>1, <3>2
    <2> QED
      BY <1>9, <2>4 DEF ScanVerdict, TypeOK
  <1>10. CASE ScanAbort
    BY <1>10 DEF ScanAbort, TypeOK
  <1>11. CASE BucketCount
    BY <1>11 DEF BucketCount, TypeOK
  <1>12. CASE BucketDelete
    BY <1>12, NoRowType DEF BucketDelete, TypeOK
  <1>13. CASE BucketAbort
    BY <1>13 DEF BucketAbort, TypeOK
  <1> QED
    BY <1>1, <1>2, <1>3, <1>4, <1>5, <1>6, <1>7, <1>8, <1>9, <1>10, <1>11, <1>12, <1>13
       DEF Next

\* The empty object store is well typed.
LEMMA InitType == Init => TypeOK
  BY NoRowType, NoRequestType, MaxTxAssumption
     DEF Init, TypeOK, NoWrites, Writes, NoPurge, Steps

\* Every step keeps the types.
LEMMA StepType == TypeOK /\ [Next]_vars => TypeOK'
  <1> SUFFICES ASSUME TypeOK, [Next]_vars PROVE TypeOK'
    OBVIOUS
  <1>1. CASE Next
    BY <1>1, RequestStepType, BackgroundType
  <1>2. CASE UNCHANGED vars
    BY <1>2 DEF vars, TypeOK
  <1> QED
    BY <1>1, <1>2

\* Every variable keeps its type, whatever the requests and the background
\* operations of the object store do.
THEOREM TypeCorrect == Spec => []TypeOK
  BY InitType, StepType, PTL DEF Spec


-----------------------------------------------------------------------------
(* The steps of a request, one lemma per action.                           *)

\* The blob of a Put is written under a path no row, request or purge knows.
LEMMA PutBlobInv ==
    ASSUME IInv, TypeOK', NEW r \in Requests, NEW k \in Keys, NEW p \in Paths, NEW m \in PutModes, PutBlob(r, k, p, m)
    PROVE  IInv'
  <1> USE DEF IInv, PutBlob, Goto, dbVars, blobVars, workerVars
  <1>0. \A y \in TxId : Reserved(y)' => Reserved(y)
    BY MaxTxAssumption DEF Reserved, Pending, TypeOK, NewRequest, NoRequest, TsInv, TxId
  <1>1. RowInv'
    BY <1>0 DEF RowInv, TypeOK
  <1>2. TsInv'
    BY MaxTxAssumption DEF TsInv, Pending, TypeOK, NewRequest, NoRequest
  <1>3. LockInv'
    BY DEF LockInv, MakesLatest, Pending, TypeOK, NewRequest, NoRequest, NoWrites
  <1>4. TargetInv'
    <2>0. TargetInv /\ rows' = rows /\ ovl' = ovl /\ tgt' = tgt
      OBVIOUS
    <2>1. tgt[r] = {}
      BY DEF TargetInv, TypeOK
    <2>2. \A q \in Requests : q # r => req'[q] = req[q] /\ pc'[q] = pc[q]
      BY DEF TypeOK
    <2>3. tgt \in [Requests -> SUBSET TxId]
      BY DEF TypeOK
    <2> HIDE DEF IInv, PutBlob
    <2> QED
      BY <1>0, <2>0, <2>1, <2>2, <2>3 DEF TargetInv
  <1>5. LatestInv'
    <2>0. LatestInv /\ rows' = rows /\ ovl' = ovl
      OBVIOUS
    <2>1. \A y \in TxId : ~MakesLatest(r, y)
      BY DEF LockInv, MakesLatest
    <2>2. \A q \in Requests : q # r => req'[q] = req[q]
      BY DEF TypeOK
    <2> HIDE DEF IInv, PutBlob
    <2> QED
      BY <2>0, <2>1, <2>2 DEF LatestInv, OneLatest, MakesLatest
  <1>6. PathInv'
    BY NoneAssumption DEF PathInv, DeleterInv, TypeOK, NewRequest, NoRequest, TsInv
  <1>7. DeleterInv'
    BY <1>0 DEF DeleterInv, PathInv, TypeOK, LockInv, NewRequest, NoRequest
  <1>8. NoDanglingVersion'
    BY DEF NoDanglingVersion, TypeOK
  <1> QED
    BY <1>1, <1>2, <1>3, <1>4, <1>5, <1>6, <1>7, <1>8

\* Delete's checks touch neither rows nor locks.
LEMMA DeleteCheckInv ==
    ASSUME IInv, TypeOK', NEW r \in Requests, NEW k \in Keys, DeleteCheck(r, k)
    PROVE  IInv'
  <1> USE DEF IInv, DeleteCheck, Goto, dbVars, blobVars, workerVars
  <1>0. \A y \in TxId : Reserved(y)' => Reserved(y)
    BY MaxTxAssumption DEF Reserved, Pending, TypeOK, NewRequest, NoRequest, TsInv, TxId
  <1>1. RowInv'
    BY <1>0 DEF RowInv, TypeOK
  <1>2. TsInv'
    BY MaxTxAssumption DEF TsInv, Pending, TypeOK, NewRequest, NoRequest
  <1>3. LockInv'
    BY DEF LockInv, MakesLatest, Pending, TypeOK, NewRequest, NoRequest, NoWrites
  <1>4. TargetInv'
    <2>0. TargetInv /\ rows' = rows /\ ovl' = ovl /\ tgt' = tgt
      OBVIOUS
    <2>1. tgt[r] = {}
      BY DEF TargetInv, TypeOK
    <2>2. \A q \in Requests : q # r => req'[q] = req[q] /\ pc'[q] = pc[q]
      BY DEF TypeOK
    <2>3. tgt \in [Requests -> SUBSET TxId]
      BY DEF TypeOK
    <2> HIDE DEF IInv, DeleteCheck
    <2> QED
      BY <1>0, <2>0, <2>1, <2>2, <2>3 DEF TargetInv
  <1>5. LatestInv'
    <2>0. LatestInv /\ rows' = rows /\ ovl' = ovl
      OBVIOUS
    <2>1. \A y \in TxId : ~MakesLatest(r, y)
      BY DEF LockInv, MakesLatest
    <2>2. \A q \in Requests : q # r => req'[q] = req[q]
      BY DEF TypeOK
    <2> HIDE DEF IInv, DeleteCheck
    <2> QED
      BY <2>0, <2>1, <2>2 DEF LatestInv, OneLatest, MakesLatest
  <1>6. PathInv'
    BY NoneAssumption DEF PathInv, TypeOK, NewRequest, NoRequest, TsInv
  <1>7. DeleterInv'
    BY <1>0 DEF DeleterInv, PathInv, TypeOK, LockInv, NewRequest, NoRequest
  <1>8. NoDanglingVersion'
    BY DEF NoDanglingVersion, TypeOK
  <1> QED
    BY <1>1, <1>2, <1>3, <1>4, <1>5, <1>6, <1>7, <1>8

\* RestoreLatest starts without writing anything.
LEMMA RestoreStartInv ==
    ASSUME IInv, TypeOK', NEW r \in Requests, NEW k \in Keys, RestoreStart(r, k)
    PROVE  IInv'
  <1> USE DEF IInv, RestoreStart, Goto, dbVars, blobVars, workerVars
  <1>0. \A y \in TxId : Reserved(y)' => Reserved(y)
    BY MaxTxAssumption DEF Reserved, Pending, TypeOK, NewRequest, NoRequest, TsInv, TxId
  <1>1. RowInv'
    BY <1>0 DEF RowInv, TypeOK
  <1>2. TsInv'
    BY MaxTxAssumption DEF TsInv, Pending, TypeOK, NewRequest, NoRequest
  <1>3. LockInv'
    BY DEF LockInv, MakesLatest, Pending, TypeOK, NewRequest, NoRequest, NoWrites
  <1>4. TargetInv'
    <2>0. TargetInv /\ rows' = rows /\ ovl' = ovl /\ tgt' = tgt
      OBVIOUS
    <2>1. tgt[r] = {}
      BY DEF TargetInv, TypeOK
    <2>2. \A q \in Requests : q # r => req'[q] = req[q] /\ pc'[q] = pc[q]
      BY DEF TypeOK
    <2>3. tgt \in [Requests -> SUBSET TxId]
      BY DEF TypeOK
    <2> HIDE DEF IInv, RestoreStart
    <2> QED
      BY <1>0, <2>0, <2>1, <2>2, <2>3 DEF TargetInv
  <1>5. LatestInv'
    <2>0. LatestInv /\ rows' = rows /\ ovl' = ovl
      OBVIOUS
    <2>1. \A y \in TxId : ~MakesLatest(r, y)
      BY DEF LockInv, MakesLatest
    <2>2. \A q \in Requests : q # r => req'[q] = req[q]
      BY DEF TypeOK
    <2> HIDE DEF IInv, RestoreStart
    <2> QED
      BY <2>0, <2>1, <2>2 DEF LatestInv, OneLatest, MakesLatest
  <1>6. PathInv'
    BY NoneAssumption DEF PathInv, TypeOK, NewRequest, NoRequest, TsInv
  <1>7. DeleterInv'
    BY <1>0 DEF DeleterInv, PathInv, TypeOK, LockInv, NewRequest, NoRequest
  <1>8. NoDanglingVersion'
    BY DEF NoDanglingVersion, TypeOK
  <1> QED
    BY <1>1, <1>2, <1>3, <1>4, <1>5, <1>6, <1>7, <1>8

\* DeleteVersion picks the row whose blob it will delete.
LEMMA SelectVersionInv ==
    ASSUME IInv, TypeOK', NEW r \in Requests, NEW x \in TxId, SelectVersion(r, x)
    PROVE  IInv'
  <1> USE DEF IInv, SelectVersion, Goto, dbVars, blobVars, workerVars
  <1>0. \A y \in TxId : Reserved(y)' => Reserved(y)
    BY MaxTxAssumption DEF Reserved, Pending, TypeOK, NewRequest, NoRequest, TsInv, TxId
  <1>1. RowInv'
    BY <1>0 DEF RowInv, TypeOK
  <1>2. TsInv'
    <2>1. rows[x].key \in Keys /\ rows[x].st # "absent"
      BY DEF RowInv
    <2> QED
      BY <2>1 DEF TsInv, Pending, TypeOK, NewRequest
  <1>3. LockInv'
    BY DEF LockInv, MakesLatest, Pending, TypeOK, NewRequest, NoRequest, NoWrites
  <1>4. TargetInv'
    <2>1. tgt'[r] = {x} /\ req'[r].key = rows[x].key /\ pc'[r] = "remove" /\ ~Reserved(x)
      BY DEF TypeOK, NewRequest, RowInv
    <2>2. \A q \in Requests : q # r => req'[q] = req[q] /\ pc'[q] = pc[q] /\ tgt'[q] = tgt[q]
      BY DEF TypeOK
    <2> QED
      BY <1>0, <2>1, <2>2 DEF TargetInv, TypeOK
  <1>5. LatestInv'
    BY DEF LatestInv, OneLatest, MakesLatest, TypeOK, LockInv
  <1>6. PathInv'
    BY NoneAssumption DEF PathInv, TypeOK, NewRequest, NoRequest, TsInv
  <1>7. DeleterInv'
    BY <1>0 DEF DeleterInv, PathInv, TypeOK, LockInv, NewRequest, NoRequest
  <1>8. NoDanglingVersion'
    BY DEF NoDanglingVersion, TypeOK
  <1> QED
    BY <1>1, <1>2, <1>3, <1>4, <1>5, <1>6, <1>7, <1>8

\* A fresh start time reserves a row slot for this request alone.
LEMMA BeginInv ==
    ASSUME IInv, TypeOK', NEW r \in Requests, Begin(r)
    PROVE  IInv'
  <1> USE DEF IInv, Begin, Goto, dbVars, blobVars, workerVars
  <1>0. \A y \in TxId : Reserved(y)' => Reserved(y)
    BY MaxTxAssumption DEF Reserved, Pending, TypeOK, NewRequest, NoRequest, TsInv, TxId
  <1>1. RowInv'
    BY <1>0 DEF RowInv, TypeOK
  <1>2. TsInv'
    BY MaxTxAssumption DEF TsInv, Pending, TypeOK, NewRequest, NoRequest
  <1>3. LockInv'
    BY DEF LockInv, MakesLatest, Pending, TypeOK, NewRequest, NoRequest, NoWrites
  <1>4. TargetInv'
    BY <1>0 DEF TargetInv, TypeOK, RowInv
  <1>5. LatestInv'
    BY DEF LatestInv, OneLatest, MakesLatest, TypeOK, LockInv
  <1>6. PathInv'
    BY NoneAssumption DEF PathInv, TypeOK, NewRequest, NoRequest, TsInv
  <1>7. DeleterInv'
    BY <1>0 DEF DeleterInv, PathInv, TypeOK, LockInv, NewRequest, NoRequest
  <1>8. NoDanglingVersion'
    BY DEF NoDanglingVersion, TypeOK
  <1> QED
    BY <1>1, <1>2, <1>3, <1>4, <1>5, <1>6, <1>7, <1>8

\* Once DeleteVersion has locked the row, no other request can keep it live.
LEMMA RemoveRowInv ==
    ASSUME IInv, TypeOK', NEW r \in Requests, RemoveRow(r)
    PROVE  IInv'
  <1> USE DEF IInv, RemoveRow, Goto, dbVars, blobVars, workerVars
  <1>0. \A y \in TxId : Reserved(y)' => Reserved(y)
    BY MaxTxAssumption DEF Reserved, Pending, TypeOK, NewRequest, NoRequest, TsInv, TxId
  <1>1. RowInv'
    BY <1>0 DEF RowInv, TypeOK
  <1>2. TsInv'
    BY MaxTxAssumption DEF TsInv, Pending, TypeOK, NewRequest, NoRequest
  <1>3. LockInv'
    <2>1. /\ req[r].op = "deleteVersion" /\ pc'[r] \in {"demoteScan", "commit"}
          /\ \A y \in TxId : /\ ovl'[r][y] = "none" \/ (ovl'[r][y] = "remove" /\ y \in tgt[r])
                             /\ ovl'[r][y] # "none" => rows[y].st # "absent"
      BY DEF TypeOK, LockInv, TsInv
    <2>2. \A q \in Requests : q # r => ovl'[q] = ovl[q] /\ pc'[q] = pc[q]
      BY DEF TypeOK
    <2>3. \A y \in tgt[r], q \in Requests : q # r => ovl[q][y] = "none"
      BY DEF LockedByOther
    <2> QED
      BY <2>1, <2>2, <2>3 DEF LockInv, MakesLatest, Pending, TargetInv
  <1>4. TargetInv'
    BY <1>0 DEF TargetInv, TypeOK, RowInv
  <1>5. LatestInv'
    BY DEF LatestInv, OneLatest, MakesLatest, TypeOK, LockInv
  <1>6. PathInv'
    BY NoneAssumption DEF PathInv, TypeOK, NewRequest, NoRequest, TsInv
  <1>7. DeleterInv'
    <2>1. \A y \in TxId : y \in tgt[r] /\ rows[y].st # "absent" => ovl'[r][y] = "remove"
      BY DEF TypeOK
    <2>2. \A y \in TxId : rows[y].path # None => rows[y].st # "absent"
      BY DEF RowInv, NoRow
    <2>3. \A q \in Requests : q # r => ovl'[q] = ovl[q] /\ pc'[q] = pc[q] /\ tgt'[q] = tgt[q]
      BY DEF TypeOK
    <2>4. \A y \in TxId : ovl[r][y] = "none"
      BY DEF LockInv
    <2>5. DeleterInv /\ rows' = rows /\ req' = req /\ purge' = purge /\ used' = used
      OBVIOUS
    <2>6. \A c \in purge.cand : c[1] \in TxId
      BY DEF TypeOK
    <2> HIDE DEF IInv, RemoveRow
    <2> QED
      BY <1>0, <2>1, <2>2, <2>3, <2>4, <2>5, <2>6 DEF DeleterInv
  <1>8. NoDanglingVersion'
    BY DEF NoDanglingVersion, TypeOK
  <1> QED
    BY <1>1, <1>2, <1>3, <1>4, <1>5, <1>6, <1>7, <1>8

\* The snapshot of the demotion fixes rows of the request's own key.
LEMMA DemoteScanInv ==
    ASSUME IInv, TypeOK', NEW r \in Requests, DemoteScan(r)
    PROVE  IInv'
  <1> USE DEF IInv, DemoteScan, Goto, dbVars, blobVars, workerVars
  <1>0. \A y \in TxId : Reserved(y)' => Reserved(y)
    BY MaxTxAssumption DEF Reserved, Pending, TypeOK, NewRequest, NoRequest, TsInv, TxId
  <1>1. RowInv'
    BY <1>0 DEF RowInv, TypeOK
  <1>2. TsInv'
    BY MaxTxAssumption DEF TsInv, Pending, TypeOK, NewRequest, NoRequest
  <1>3. LockInv'
    BY DEF LockInv, MakesLatest, Pending, TypeOK, NewRequest, NoRequest, NoWrites
  <1>4. TargetInv'
    <2>1. /\ pc'[r] = "demote" /\ tgt'[r] \subseteq TxId
          /\ \A y \in tgt'[r] : rows[y].st # "absent" /\ rows[y].key = req[r].key
      BY DEF TypeOK, RowsOf
    <2>2. \A q \in Requests : q # r => pc'[q] = pc[q] /\ tgt'[q] = tgt[q]
      BY DEF TypeOK
    <2>3. TargetInv /\ RowInv /\ tgt \in [Requests -> SUBSET TxId]
      BY DEF TypeOK
    <2>4. rows' = rows /\ req' = req /\ ovl' = ovl
      OBVIOUS
    <2> HIDE DEF IInv, DemoteScan
    <2> QED
      BY <1>0, <2>1, <2>2, <2>3, <2>4 DEF TargetInv, RowInv
  <1>5. LatestInv'
    BY DEF LatestInv, OneLatest, MakesLatest, TypeOK, LockInv
  <1>6. PathInv'
    BY NoneAssumption DEF PathInv, TypeOK, NewRequest, NoRequest, TsInv
  <1>7. DeleterInv'
    BY <1>0 DEF DeleterInv, PathInv, TypeOK, LockInv, NewRequest, NoRequest
  <1>8. NoDanglingVersion'
    BY DEF NoDanglingVersion, TypeOK
  <1> QED
    BY <1>1, <1>2, <1>3, <1>4, <1>5, <1>6, <1>7, <1>8

\* The demotion locks rows no one else has locked.
LEMMA DemoteInv ==
    ASSUME IInv, TypeOK', NEW r \in Requests, Demote(r)
    PROVE  IInv'
  <1> USE DEF IInv, Demote, Goto, dbVars, blobVars, workerVars
  <1>0. \A y \in TxId : Reserved(y)' => Reserved(y)
    BY MaxTxAssumption DEF Reserved, Pending, TypeOK, NewRequest, NoRequest, TsInv, TxId
  <1>1. RowInv'
    BY <1>0 DEF RowInv, TypeOK
  <1>2. TsInv'
    <2>1. pc'[r] = "insert" => req[r].op \in {"put", "delete"}
      BY DEF TypeOK
    <2>2. pc'[r] = "promoteScan" => req[r].op \in {"restore", "deleteVersion"}
      BY DEF TypeOK, TsInv, Request, Ops
    <2>3. pc'[r] \in {"insert", "promoteScan"} /\ \A q \in Requests : q # r => pc'[q] = pc[q]
      BY DEF TypeOK
    <2> QED
      BY <2>1, <2>2, <2>3 DEF TsInv, Pending
  <1>3. LockInv'
    <2>1. /\ pc'[r] \in {"insert", "promoteScan"}
          /\ \A y \in TxId : \/ ovl'[r][y] = ovl[r][y]
                             \/ /\ ovl'[r][y] = "demote" /\ y \in tgt[r]
                                /\ rows[y].st # "absent"
      BY DEF TypeOK, Visible
    <2>2. \A q \in Requests : q # r => ovl'[q] = ovl[q] /\ pc'[q] = pc[q]
      BY DEF TypeOK
    <2>3. \A y \in tgt[r], q \in Requests : q # r => ovl[q][y] = "none"
      BY DEF LockedByOther
    <2>4. Pending(r) => Pending(r)'
      BY <2>1 DEF Pending
    <2> QED
      BY <2>1, <2>2, <2>3, <2>4 DEF LockInv, MakesLatest, Pending, TargetInv
  <1>4. TargetInv'
    BY <1>0 DEF TargetInv, TypeOK, RowInv
  <1>5. LatestInv'
    BY DEF LatestInv, OneLatest, MakesLatest, TypeOK, LockInv
  <1>6. PathInv'
    BY NoneAssumption DEF PathInv, TypeOK, NewRequest, NoRequest, TsInv
  <1>7. DeleterInv'
    <2>1. \A y \in TxId : ovl[r][y] = "remove" => ovl'[r][y] = "remove"
      BY DEF TypeOK, Visible
    <2>2. \A q \in Requests : q # r => ovl'[q] = ovl[q] /\ pc'[q] = pc[q] /\ tgt'[q] = tgt[q]
      BY DEF TypeOK
    <2>5. DeleterInv /\ rows' = rows /\ req' = req /\ purge' = purge /\ used' = used
      OBVIOUS
    <2>6. \A c \in purge.cand : c[1] \in TxId
      BY DEF TypeOK
    <2>7. pc[r] # "remove" /\ pc'[r] # "remove"
      BY DEF TypeOK
    <2> HIDE DEF IInv, Demote
    <2> QED
      BY <1>0, <2>1, <2>2, <2>5, <2>6, <2>7 DEF DeleterInv
  <1>8. NoDanglingVersion'
    BY DEF NoDanglingVersion, TypeOK
  <1> QED
    BY <1>1, <1>2, <1>3, <1>4, <1>5, <1>6, <1>7, <1>8

\* The unique index lets the insert pass only when no rival is left.
LEMMA InsertInv ==
    ASSUME IInv, TypeOK', NEW r \in Requests, Insert(r)
    PROVE  IInv'
  <1> USE DEF IInv, Insert, Goto, dbVars, blobVars, workerVars
  <1>0. \A y \in TxId : Reserved(y)' => Reserved(y)
    BY MaxTxAssumption DEF Reserved, Pending, TypeOK, NewRequest, NoRequest, TsInv, TxId
  <1>1. RowInv'
    BY <1>0 DEF RowInv, TypeOK
  <1>2. TsInv'
    BY MaxTxAssumption DEF TsInv, Pending, TypeOK, NewRequest, NoRequest
  <1>3. LockInv'
    <2>0. Pending(r)' /\ pc'[r] = "commit"
      BY DEF TypeOK, TsInv, Pending
    <2>1. /\ req[r].ts \in TxId /\ Pending(r) /\ rows[req[r].ts].st = "absent"
      BY DEF TypeOK, TsInv, Pending, RowInv, Reserved, TxId
    <2>2. \A y \in TxId : ovl'[r][y] = IF y = req[r].ts THEN "insert" ELSE ovl[r][y]
      BY <2>1 DEF TypeOK
    <2>3. \A q \in Requests : q # r => ovl'[q] = ovl[q] /\ pc'[q] = pc[q]
      BY DEF TypeOK
    <2>4. \A q \in Requests : ovl[q][req[r].ts] = "none"
      BY <2>1, SMTT(30) DEF LockInv, MakesLatest, TsInv, TypeOK, Writes
    <2>5. LockInv /\ rows' = rows /\ req' = req
      OBVIOUS
    <2> HIDE DEF IInv, Insert
    <2> QED
      BY <2>0, <2>1, <2>2, <2>3, <2>4, <2>5 DEF LockInv, MakesLatest, Pending
  <1>4. TargetInv'
    BY <1>0 DEF TargetInv, TypeOK, RowInv
  <1>5. LatestInv'
    <2>1. /\ req[r].ts \in TxId /\ Pending(r) /\ rows[req[r].ts].st = "absent"
      BY DEF TypeOK, TsInv, Pending, RowInv, Reserved, TxId
    <2>2. \A y \in TxId : ovl'[r][y] = IF y = req[r].ts THEN "insert" ELSE ovl[r][y]
      BY <2>1 DEF TypeOK
    <2>3. \A q \in Requests : q # r => ovl'[q] = ovl[q]
      BY DEF TypeOK
    <2>4. \A y \in TxId : ovl[r][y] \in {"none", "demote", "remove"}
      BY DEF LockInv, MakesLatest, TypeOK, Writes
    <2>5. \A q \in Requests : ovl[q][req[r].ts] = "none"
      BY <2>1, SMTT(30) DEF LockInv, MakesLatest, TsInv, TypeOK, Writes
    <2>6. \A y \in TxId : /\ y # req[r].ts /\ rows[y].latest /\ rows[y].key = req[r].key
                                => ovl[r][y] # "none"
      BY DEF IndexConflict
    <2>7. \A q \in Requests, y \in TxId :
              q # r /\ y # req[r].ts /\ req[q].key = req[r].key => ~MakesLatest(q, y)
      BY DEF IndexBusy
    <2>8. LatestInv /\ rows' = rows /\ req' = req
      OBVIOUS
    <2> HIDE DEF IInv, Insert
    <2> QED
      BY <2>1, <2>2, <2>3, <2>4, <2>5, <2>6, <2>7, <2>8 DEF LatestInv, OneLatest, MakesLatest
  <1>6. PathInv'
    BY NoneAssumption DEF PathInv, TypeOK, NewRequest, NoRequest, TsInv
  <1>7. DeleterInv'
    <2>1. /\ req[r].ts \in TxId /\ pc[r] # "remove" /\ pc'[r] # "remove"
          /\ req[r].op # "deleteVersion"
      BY DEF TypeOK, TsInv, Pending, TxId
    <2>2. \A q \in Requests : q # r => ovl'[q] = ovl[q] /\ pc'[q] = pc[q]
      BY DEF TypeOK
    <2>3. DeleterInv /\ rows' = rows /\ req' = req /\ purge' = purge /\ used' = used /\ tgt' = tgt
      OBVIOUS
    <2>4. \A c \in purge.cand : c[1] \in TxId
      BY DEF TypeOK
    <2> HIDE DEF IInv, Insert
    <2> QED
      BY <1>0, <2>1, <2>2, <2>3, <2>4 DEF DeleterInv
  <1>8. NoDanglingVersion'
    BY DEF NoDanglingVersion, TypeOK
  <1> QED
    BY <1>1, <1>2, <1>3, <1>4, <1>5, <1>6, <1>7, <1>8

\* The snapshot of the promotion fixes one row.
LEMMA PromoteScanInv ==
    ASSUME IInv, TypeOK', NEW r \in Requests, PromoteScan(r)
    PROVE  IInv'
  <1> USE DEF IInv, PromoteScan, Goto, dbVars, blobVars, workerVars
  <1>0. \A y \in TxId : Reserved(y)' => Reserved(y)
    BY MaxTxAssumption DEF Reserved, Pending, TypeOK, NewRequest, NoRequest, TsInv, TxId
  <1>1. RowInv'
    BY <1>0 DEF RowInv, TypeOK
  <1>2. TsInv'
    BY MaxTxAssumption DEF TsInv, Pending, TypeOK, NewRequest, NoRequest
  <1>3. LockInv'
    BY DEF LockInv, MakesLatest, Pending, TypeOK, NewRequest, NoRequest, NoWrites
  <1>4. TargetInv'
    <2>1. \A q \in Requests : q # r => pc'[q] = pc[q] /\ tgt'[q] = tgt[q]
      BY DEF TypeOK
    <2>2. TargetInv /\ RowInv /\ tgt \in [Requests -> SUBSET TxId] /\ tgt[r] = {}
      BY DEF TypeOK, TargetInv
    <2>3. rows' = rows /\ req' = req /\ ovl' = ovl
      OBVIOUS
    <2>4. \/ tgt' = tgt
          \/ \E x \in Candidates(r) : tgt'[r] = {x} /\ pc'[r] = "promote"
      BY DEF TypeOK
    <2>5. \A x \in Candidates(r) :
              /\ x \in TxId /\ rows[x].st # "absent"
              /\ rows[x].key = req[r].key /\ ovl[r][x] # "remove"
      BY DEF Candidates, RowsOf, Visible
    <2> HIDE DEF IInv, PromoteScan
    <2> QED
      BY <1>0, <2>1, <2>2, <2>3, <2>4, <2>5 DEF TargetInv, RowInv
  <1>5. LatestInv'
    BY DEF LatestInv, OneLatest, MakesLatest, TypeOK, LockInv
  <1>6. PathInv'
    BY NoneAssumption DEF PathInv, TypeOK, NewRequest, NoRequest, TsInv
  <1>7. DeleterInv'
    BY <1>0 DEF DeleterInv, PathInv, TypeOK, LockInv, NewRequest, NoRequest
  <1>8. NoDanglingVersion'
    BY DEF NoDanglingVersion, TypeOK
  <1> QED
    BY <1>1, <1>2, <1>3, <1>4, <1>5, <1>6, <1>7, <1>8

\* The unique index lets the promotion pass only when no rival is left.
LEMMA PromoteInv ==
    ASSUME IInv, TypeOK', NEW r \in Requests, Promote(r)
    PROVE  IInv'
  <1> USE DEF IInv, Promote, Goto, dbVars, blobVars, workerVars
  <1>0. \A y \in TxId : Reserved(y)' => Reserved(y)
    BY MaxTxAssumption DEF Reserved, Pending, TypeOK, NewRequest, NoRequest, TsInv, TxId
  <1>1. RowInv'
    BY <1>0 DEF RowInv, TypeOK
  <1>2. TsInv'
    BY MaxTxAssumption DEF TsInv, Pending, TypeOK, NewRequest, NoRequest
  <1>3. LockInv'
    <2>0. pc'[r] = "commit" /\ (Pending(r) => Pending(r)')
      BY DEF TypeOK, Pending
    <2>1. \A y \in TxId : \/ ovl'[r][y] = ovl[r][y]
                          \/ ovl'[r][y] = "promote" /\ y \in tgt[r] /\ rows[y].st # "absent"
      BY DEF TypeOK
    <2>2. \A q \in Requests : q # r => ovl'[q] = ovl[q] /\ pc'[q] = pc[q]
      BY DEF TypeOK
    <2>3. \A y \in tgt[r], q \in Requests : q # r => ovl[q][y] = "none"
      BY DEF LockedByOther
    <2>4. LockInv /\ TargetInv /\ rows' = rows /\ req' = req
      OBVIOUS
    <2> HIDE DEF IInv, Promote
    <2> QED
      BY <2>0, <2>1, <2>2, <2>3, <2>4 DEF LockInv, MakesLatest, Pending, TargetInv
  <1>4. TargetInv'
    BY <1>0 DEF TargetInv, TypeOK, RowInv
  <1>5. LatestInv'
    <2>1. \A q \in Requests : q # r => ovl'[q] = ovl[q]
      BY DEF TypeOK
    <2>2. \A y \in TxId : ovl[r][y] \in {"none", "demote", "remove"}
      BY DEF LockInv, MakesLatest, TypeOK, Writes
    <2>3. LatestInv /\ rows' = rows /\ req' = req
      OBVIOUS
    <2>4. CASE \A y \in tgt[r] : rows[y].st = "absent"
      <3>1. ovl' = ovl
        BY <2>4 DEF TypeOK
      <3> HIDE DEF IInv, Promote
      <3> QED
        BY <2>3, <3>1 DEF LatestInv, OneLatest, MakesLatest
    <2>5. ASSUME NEW x \in tgt[r], rows[x].st # "absent"
          PROVE  LatestInv'
      <3>1. x \in TxId /\ tgt[r] = {x}
        BY DEF TypeOK, TargetInv
      <3>2. \A y \in TxId : ovl'[r][y] = IF y = x THEN "promote" ELSE ovl[r][y]
        BY <2>5, <3>1 DEF TypeOK
      <3>3. \A q \in Requests : q # r => ovl[q][x] = "none"
        BY DEF LockedByOther
      <3>4. \A y \in TxId : y # x /\ rows[y].latest /\ rows[y].key = req[r].key
                                => ovl[r][y] # "none"
        BY <2>5 DEF IndexConflict
      <3>5. \A q \in Requests, y \in TxId :
                q # r /\ y # x /\ req[q].key = req[r].key => ~MakesLatest(q, y)
        BY <2>5 DEF IndexBusy
      <3> HIDE DEF IInv, Promote
      <3> QED
        BY <2>1, <2>2, <2>3, <3>1, <3>2, <3>3, <3>4, <3>5 DEF LatestInv, OneLatest, MakesLatest
    <2> QED
      BY <2>4, <2>5
  <1>6. PathInv'
    BY NoneAssumption DEF PathInv, TypeOK, NewRequest, NoRequest, TsInv
  <1>7. DeleterInv'
    <2>1. \A y \in TxId : ovl[r][y] = "remove" => ovl'[r][y] = "remove"
      BY DEF TypeOK, TargetInv
    <2>2. \A q \in Requests : q # r => ovl'[q] = ovl[q] /\ pc'[q] = pc[q] /\ tgt'[q] = tgt[q]
      BY DEF TypeOK
    <2>3. DeleterInv /\ rows' = rows /\ req' = req /\ purge' = purge /\ used' = used
      OBVIOUS
    <2>4. \A c \in purge.cand : c[1] \in TxId
      BY DEF TypeOK
    <2>5. pc[r] # "remove" /\ pc'[r] # "remove"
      BY DEF TypeOK
    <2> HIDE DEF IInv, Promote
    <2> QED
      BY <1>0, <2>1, <2>2, <2>3, <2>4, <2>5 DEF DeleterInv
  <1>8. NoDanglingVersion'
    BY DEF NoDanglingVersion, TypeOK
  <1> QED
    BY <1>1, <1>2, <1>3, <1>4, <1>5, <1>6, <1>7, <1>8

\* What a commit does to a row, by what the transaction wrote to it.
LEMMA CommitRows ==
    ASSUME IInv, NEW r \in Requests, Commit(r)
    PROVE  \A y \in TxId :
           /\ ovl[r][y] = "none" => rows'[y] = rows[y]
           /\ ovl[r][y] \in {"demote", "promote"} =>
                  /\ rows'[y].st = rows[y].st /\ rows'[y].key = rows[y].key
                  /\ rows'[y].marker = rows[y].marker /\ rows'[y].path = rows[y].path
                  /\ rows'[y].latest <=> ovl[r][y] = "promote"
                  /\ rows[y].st # "absent" /\ rows[y].key = req[r].key
           /\ ovl[r][y] = "remove" => /\ rows'[y] = NoRow /\ rows[y].key = req[r].key
                                      /\ rows[y].st # "absent"
           /\ ovl[r][y] = "insert" =>
                  /\ y = req[r].ts /\ Pending(r) /\ rows[y] = NoRow
                  /\ rows'[y].st = "live" /\ rows'[y].key = req[r].key
                  /\ rows'[y].latest /\ rows'[y].path = req[r].path
                  /\ rows'[y].marker = (req[r].op = "delete")
  <1> TAKE y \in TxId
  <1>1. rows'[y] = Applied(r, y)
    BY DEF Commit
  <1>2. ovl[r][y] \in Writes /\ rows[y] \in Row
    BY DEF IInv, TypeOK
  <1>3. ovl[r][y] \in {"demote", "promote", "remove"}
            => rows[y].st # "absent" /\ rows[y].key = req[r].key
    BY DEF IInv, LockInv
  <1>4. ovl[r][y] = "insert" => y = req[r].ts /\ Pending(r) /\ rows[y] = NoRow
    BY DEF IInv, LockInv, RowInv, Reserved
  <1>5. CASE ovl[r][y] = "none"
    BY <1>1, <1>5 DEF Applied
  <1>6. CASE ovl[r][y] = "demote"
    <2>1. rows'[y] = [rows[y] EXCEPT !.latest = FALSE]
      BY <1>1, <1>6 DEF Applied
    <2> QED
      BY <1>2, <1>3, <1>6, <2>1 DEF Row
  <1>7. CASE ovl[r][y] = "promote"
    <2>1. rows'[y] = [rows[y] EXCEPT !.latest = TRUE]
      BY <1>1, <1>7 DEF Applied
    <2> QED
      BY <1>2, <1>3, <1>7, <2>1 DEF Row
  <1>8. CASE ovl[r][y] = "remove"
    BY <1>1, <1>3, <1>8 DEF Applied
  <1>9. CASE ovl[r][y] = "insert"
    <2>1. rows'[y] = NewRow(r)
      BY <1>1, <1>9 DEF Applied
    <2> QED
      BY <1>4, <1>9, <2>1 DEF NewRow
  <1> QED
    BY <1>2, <1>5, <1>6, <1>7, <1>8, <1>9 DEF Writes

\* Commit publishes the overlay: the new latest row replaces the ones the same
\* transaction demoted or removed.
LEMMA CommitInv ==
    ASSUME IInv, TypeOK', NEW r \in Requests, Commit(r)
    PROVE  IInv'
  <1> DEFINE W(y) == ovl[r][y]
  <1>a. /\ \A q \in Requests : q # r => /\ pc'[q] = pc[q] /\ req'[q] = req[q]
                                         /\ ovl'[q] = ovl[q]
        /\ \A y \in TxId : ovl'[r][y] = "none"
        /\ pc'[r] \in {"idle", "cleanup"} /\ ~Pending(r)'
        /\ \/ pc'[r] = "idle" /\ req'[r] = NoRequest
           \/ pc'[r] = "cleanup" /\ req'[r] = req[r] /\ req[r].op = "deleteVersion"
        /\ tgt' = tgt /\ clock' = clock /\ blobs' = blobs /\ used' = used /\ purge' = purge
    BY DEF Commit, Goto, IInv, TypeOK, NoWrites, blobVars, workerVars, Pending
  <1>b. pc[r] = "commit" /\ tgt[r] = {} /\ req[r].op # "none"
    BY DEF Commit, IInv, TargetInv, TypeOK, TsInv
  <1>c. \A y \in TxId : W(y) \in Writes
    BY DEF IInv, TypeOK
  <1>d. \A q \in Requests : Pending(q)' => Pending(q) /\ q # r
    BY <1>a DEF Pending
  <1>e. /\ NoRow.st = "absent" /\ ~NoRow.latest /\ NoRow.path = None
    BY DEF NoRow
  <1>f. ASSUME NEW y \in TxId
        PROVE  \/ W(y) = "none" /\ rows'[y] = rows[y]
               \/ W(y) \in {"demote", "promote"}
               \/ W(y) = "remove" /\ rows'[y] = NoRow
               \/ W(y) = "insert"
    BY <1>c, CommitRows DEF Writes
  <1>0. \A y \in TxId : Reserved(y)' => Reserved(y)
    BY <1>a, <1>d DEF Reserved
  <1>1. RowInv'
    <2> SUFFICES ASSUME NEW x \in TxId
                 PROVE  /\ rows'[x].st = "absent" => rows'[x] = NoRow
                        /\ rows'[x].st # "absent" => ~Reserved(x)' /\ rows'[x].key \in Keys
                        /\ rows'[x].st = "live" /\ ~rows'[x].marker => rows'[x].path \in Paths
      BY DEF RowInv
    <2>1. CASE W(x) # "insert"
      <3>1. \/ rows'[x] = rows[x]
            \/ rows'[x] = NoRow
            \/ /\ rows'[x].st = rows[x].st /\ rows'[x].key = rows[x].key
               /\ rows'[x].marker = rows[x].marker /\ rows'[x].path = rows[x].path
               /\ rows[x].st # "absent"
        BY <1>f, <2>1, CommitRows
      <3>2. RowInv
        BY DEF IInv
      <3> QED
        BY <1>0, <1>e, <3>1, <3>2 DEF RowInv
    <2>2. CASE W(x) = "insert"
      <3>1. req[r].key \in Keys /\ (req[r].op # "delete" => req[r].path \in Paths)
        BY <1>b, <2>2, CommitRows DEF IInv, TsInv, PathInv, TypeOK, Pending
      <3>2. ~Reserved(x)'
        BY <1>a, <1>d, <2>2, CommitRows DEF IInv, TsInv, Reserved, TypeOK, Pending, TxId
      <3> QED
        BY <2>2, <3>1, <3>2, CommitRows
    <2> QED
      BY <2>1, <2>2
  <1>2. TsInv'
    <2>1. TsInv
      BY DEF IInv
    <2>2. NoRequest.op = "none"
      BY DEF NoRequest, NewRequest
    <2> SUFFICES ASSUME NEW q \in Requests
                 PROVE  /\ pc'[q] # "idle" => req'[q].op # "none" /\ req'[q].key \in Keys
                        /\ pc'[q] = "idle" => req'[q] = NoRequest
                        /\ pc'[q] \in {"begin", "insert"} => req'[q].op \in {"put", "delete"}
                        /\ pc'[q] \in {"promote", "promoteScan"}
                               => req'[q].op \in {"restore", "deleteVersion"}
                        /\ pc'[q] \in {"remove", "cleanup"} => req'[q].op = "deleteVersion"
                        /\ Pending(q)' => req'[q].ts \in 1..clock'
                        /\ \A p \in Requests :
                               Pending(p)' /\ Pending(q)' /\ req'[p].ts = req'[q].ts => p = q
      BY DEF TsInv
    <2>3. CASE q = r
      BY <1>a, <1>b, <2>1, <2>2, <2>3 DEF TsInv
    <2>4. CASE q # r
      BY <1>a, <1>d, <2>1, <2>4 DEF TsInv
    <2> QED
      BY <2>3, <2>4
  <1>3. LockInv'
    <2> SUFFICES ASSUME NEW q \in Requests, NEW x \in TxId, ovl'[q][x] # "none"
                 PROVE  /\ pc'[q] \notin {"idle", "begin", "remove", "cleanup"}
                        /\ pc'[q] # "commit" => ~MakesLatest(q, x)'
                        /\ ovl'[q][x] = "insert" => Pending(q)' /\ x = req'[q].ts
                        /\ ovl'[q][x] \in {"demote", "promote", "remove"}
                               => rows'[x].st # "absent" /\ rows'[x].key = req'[q].key
                        /\ ovl'[q][x] = "remove" => req'[q].op = "deleteVersion"
                        /\ \A p \in Requests : ovl'[p][x] # "none" => p = q
      BY DEF LockInv, MakesLatest
    <2>1. q # r /\ W(x) = "none"
      BY <1>a DEF IInv, LockInv
    <2>2. rows'[x] = rows[x]
      BY <2>1, CommitRows
    <2> QED
      BY <1>a, <2>1, <2>2 DEF IInv, LockInv, MakesLatest, Pending
  <1>4. TargetInv'
    <2> SUFFICES ASSUME NEW q \in Requests, NEW x \in tgt[q]
                 PROVE  /\ ~Reserved(x)'
                        /\ rows'[x].st # "absent" => rows'[x].key = req'[q].key
                        /\ pc'[q] \in {"remove", "demote", "promote"}
                        /\ pc'[q] = "promote" => ovl'[q][x] # "remove" /\ tgt'[q] = {x}
      BY <1>a DEF TargetInv
    <2>1. q # r /\ x \in TxId /\ ~Reserved(x)
      BY <1>b DEF IInv, TypeOK, TargetInv
    <2>2. W(x) # "insert"
      BY <2>1, CommitRows DEF Reserved
    <2>3. rows'[x].st # "absent" => rows[x].st # "absent" /\ rows'[x].key = rows[x].key
      BY <1>c, <2>1, <2>2, CommitRows DEF NoRow, Writes
    <2> QED
      BY <1>0, <1>a, <2>1, <2>3 DEF IInv, TargetInv
  <1>5. LatestInv'
    <2>1. \A q \in Requests, y \in TxId : MakesLatest(q, y)' => q # r /\ MakesLatest(q, y)
      BY <1>a DEF MakesLatest
    <2>2. \A y \in TxId : rows'[y].latest =>
              \/ MakesLatest(r, y) /\ rows'[y].key = req[r].key
              \/ W(y) = "none" /\ rows'[y] = rows[y]
      BY <1>e, <1>f, CommitRows DEF MakesLatest
    <2>3. OneLatest'
      BY <2>2 DEF IInv, LatestInv, OneLatest
    <2>4. ASSUME NEW q \in Requests, NEW x \in TxId, NEW y \in TxId, MakesLatest(q, x)',
                 x # y, rows'[y].latest, rows'[y].key = req'[q].key
          PROVE  ovl'[q][y] \in {"demote", "remove"}
      BY <1>a, <2>1, <2>2, <2>4 DEF IInv, LatestInv
    <2>5. ASSUME NEW p \in Requests, NEW q \in Requests, NEW x \in TxId, NEW y \in TxId,
                 MakesLatest(p, x)', MakesLatest(q, y)', req'[p].key = req'[q].key
          PROVE  p = q /\ x = y
      BY <1>a, <2>1, <2>5 DEF IInv, LatestInv
    <2> QED
      BY <2>3, <2>4, <2>5 DEF LatestInv
  <1>6. PathInv'
    <2>1. \A y \in TxId :
              \/ rows'[y].path \in {rows[y].path, None}
              \/ W(y) = "insert" /\ rows'[y].path = req[r].path
      <3> TAKE y \in TxId
      <3>1. W(y) = "none" => rows'[y].path = rows[y].path
        BY CommitRows
      <3>2. W(y) \in {"demote", "promote"} => rows'[y].path = rows[y].path
        BY CommitRows
      <3>3. W(y) = "remove" => rows'[y].path = None
        BY <1>e, CommitRows
      <3>4. W(y) = "insert" => rows'[y].path = req[r].path
        BY CommitRows
      <3> QED
        BY <1>f, <3>1, <3>2, <3>3, <3>4
    <2>2. \A y \in TxId : W(y) = "insert" =>
              /\ y = req[r].ts
              /\ req[r].path # None => req[r].op = "put"
      BY CommitRows DEF IInv, PathInv, Pending
    <2>3. \A q \in Requests : \/ q # r /\ req'[q] = req[q]
                              \/ q = r /\ req'[q] = NoRequest
                              \/ q = r /\ req'[q] = req[q] /\ req[q].op = "deleteVersion"
      BY <1>a
    <2>4. \A q \in Requests : req[q].op = "put" => req[q].path \in Paths
      BY DEF IInv, PathInv, TypeOK
    <2>5. PathInv
      BY DEF IInv
    <2> QED
      BY <1>a, <2>1, <2>2, <2>3, <2>4, <2>5, NoneAssumption DEF PathInv, NoRequest, NewRequest
  <1>7. DeleterInv'
    <2>1. \A y \in TxId :
              \/ rows'[y].path \in {rows[y].path, None} /\ W(y) # "insert"
              \/ W(y) = "insert" /\ rows'[y].path = req[r].path
      <3> TAKE y \in TxId
      <3>1. W(y) = "none" => rows'[y].path = rows[y].path
        BY CommitRows
      <3>2. W(y) \in {"demote", "promote"} => rows'[y].path = rows[y].path
        BY CommitRows
      <3>3. W(y) = "remove" => rows'[y].path = None
        BY <1>e, CommitRows
      <3>4. W(y) = "insert" => rows'[y].path = req[r].path
        BY CommitRows
      <3> QED
        BY <1>f, <3>1, <3>2, <3>3, <3>4
    <2>2. ASSUME NEW q \in Requests, NEW x \in TxId, req'[q].op = "deleteVersion",
                 req'[q].path # None, rows'[x].path = req'[q].path
          PROVE  (pc'[q] = "remove" /\ x \in tgt'[q]) \/ ovl'[q][x] = "remove"
      <3>1. req'[q] = req[q]
        BY <1>a, <2>2 DEF NoRequest, NewRequest
      <3>2. W(x) # "insert"
        BY <2>1, <2>2, <3>1, CommitRows DEF IInv, PathInv, Pending
      <3>3. rows[x].path = req[q].path
        BY <2>1, <2>2, <3>1, <3>2
      <3>4. (pc[q] = "remove" /\ x \in tgt[q]) \/ ovl[q][x] = "remove"
        BY <2>2, <3>1, <3>3 DEF IInv, DeleterInv
      <3>5. q # r
        BY <1>b, <2>2, <3>4, CommitRows DEF NoRow
      <3> QED
        BY <1>a, <3>4, <3>5
    <2>3. ASSUME NEW c \in purge.cand
          PROVE  /\ ~Reserved(c[1])' /\ rows'[c[1]].st # "live"
                 /\ c[2] # None => c[2] \in used
                 /\ \A y \in TxId : rows'[y].path = c[2] /\ c[2] # None => y = c[1]
      <3>1. c[1] \in TxId /\ ~Reserved(c[1]) /\ rows[c[1]].st # "live"
        BY DEF IInv, TypeOK, DeleterInv
      <3>2. W(c[1]) # "insert"
        BY <3>1, CommitRows DEF Reserved
      <3>3. rows'[c[1]].st # "live"
        BY <1>c, <3>1, <3>2, CommitRows DEF NoRow, Writes
      <3>4. ASSUME NEW y \in TxId, rows'[y].path = c[2], c[2] # None
            PROVE  y = c[1]
        <4>1. CASE W(y) = "insert"
          BY <2>1, <3>4, <4>1, CommitRows DEF IInv, PathInv, Pending
        <4>2. CASE W(y) # "insert"
          BY <2>1, <3>4, <4>2 DEF IInv, DeleterInv
        <4> QED
          BY <4>1, <4>2
      <3> QED
        BY <1>0, <3>1, <3>3, <3>4 DEF IInv, DeleterInv
    <2> QED
      BY <1>a, <2>2, <2>3 DEF DeleterInv
  <1>8. NoDanglingVersion'
    <2> SUFFICES ASSUME NEW x \in TxId, rows'[x].st = "live", ~rows'[x].marker
                 PROVE  rows'[x].path \in blobs
      BY <1>a DEF NoDanglingVersion
    <2>1. CASE W(x) = "insert"
      BY <2>1, CommitRows DEF IInv, PathInv, Pending
    <2>2. CASE W(x) # "insert"
      BY <1>c, <2>2, CommitRows DEF IInv, NoDanglingVersion, NoRow, Writes
    <2> QED
      BY <2>1, <2>2
  <1> QED
    BY <1>1, <1>2, <1>3, <1>4, <1>5, <1>6, <1>7, <1>8 DEF IInv

\* DeleteVersion deletes a blob no row refers to any more.
LEMMA DeleteBlobInv ==
    ASSUME IInv, TypeOK', NEW r \in Requests, DeleteBlob(r)
    PROVE  IInv'
  <1> USE DEF IInv, DeleteBlob, Goto, dbVars, blobVars, workerVars
  <1>0. \A y \in TxId : Reserved(y)' => Reserved(y)
    BY MaxTxAssumption DEF Reserved, Pending, TypeOK, NewRequest, NoRequest, TsInv, TxId
  <1>1. RowInv'
    BY <1>0 DEF RowInv, TypeOK
  <1>2. TsInv'
    BY MaxTxAssumption DEF TsInv, Pending, TypeOK, NewRequest, NoRequest
  <1>3. LockInv'
    BY DEF LockInv, MakesLatest, Pending, TypeOK, NewRequest, NoRequest, NoWrites
  <1>4. TargetInv'
    BY <1>0 DEF TargetInv, TypeOK, RowInv
  <1>5. LatestInv'
    BY DEF LatestInv, OneLatest, MakesLatest, TypeOK, LockInv
  <1>6. PathInv'
    BY NoneAssumption DEF PathInv, TypeOK, NewRequest, NoRequest, TsInv
  <1>7. DeleterInv'
    BY <1>0 DEF DeleterInv, PathInv, TypeOK, LockInv, NewRequest, NoRequest
  <1>8. NoDanglingVersion'
    <2>1. \A x \in TxId : rows[x].path = req[r].path => req[r].path = None
      BY DEF DeleterInv, LockInv, TsInv
    <2> QED
      BY <2>1, NoneAssumption DEF NoDanglingVersion, TypeOK, RowInv
  <1> QED
    BY <1>1, <1>2, <1>3, <1>4, <1>5, <1>6, <1>7, <1>8

\* A rollback gives up locks and start time and writes nothing.
LEMMA AbortInv ==
    ASSUME IInv, TypeOK', NEW r \in Requests, Abort(r)
    PROVE  IInv'
  <1> USE DEF IInv, Abort, Goto, dbVars, blobVars, workerVars
  <1>0. \A y \in TxId : Reserved(y)' => Reserved(y)
    BY MaxTxAssumption DEF Reserved, Pending, TypeOK, NewRequest, NoRequest, TsInv, TxId
  <1>1. RowInv'
    BY <1>0 DEF RowInv, TypeOK
  <1>2. TsInv'
    BY MaxTxAssumption DEF TsInv, Pending, TypeOK, NewRequest, NoRequest
  <1>3. LockInv'
    BY DEF LockInv, MakesLatest, Pending, TypeOK, NewRequest, NoRequest, NoWrites
  <1>4. TargetInv'
    BY <1>0 DEF TargetInv, TypeOK, RowInv
  <1>5. LatestInv'
    <2>1. \A q \in Requests : q # r => ovl'[q] = ovl[q] /\ req'[q] = req[q]
      BY DEF TypeOK
    <2>2. \A y \in TxId : ovl'[r][y] = "none"
      BY DEF TypeOK, NoWrites
    <2>3. LatestInv /\ rows' = rows
      OBVIOUS
    <2> HIDE DEF IInv, Abort
    <2> QED
      BY <2>1, <2>2, <2>3 DEF LatestInv, OneLatest, MakesLatest
  <1>6. PathInv'
    BY NoneAssumption DEF PathInv, TypeOK, NewRequest, NoRequest, TsInv
  <1>7. DeleterInv'
    BY <1>0 DEF DeleterInv, PathInv, TypeOK, LockInv, NewRequest, NoRequest
  <1>8. NoDanglingVersion'
    BY DEF NoDanglingVersion, TypeOK
  <1> QED
    BY <1>1, <1>2, <1>3, <1>4, <1>5, <1>6, <1>7, <1>8

-----------------------------------------------------------------------------
(* The other operations.                                                   *)

\* What the single-statement operations, the workers and the bucket deletion
\* may do to the rows, the requests standing still.
Background ==
    /\ \A y \in TxId :
           \/ rows'[y] = rows[y]
           \/ /\ rows[y].st # "absent" /\ rows'[y].st \in {rows[y].st, "deleted"}
              /\ rows'[y].key = rows[y].key /\ rows'[y].latest = rows[y].latest
              /\ rows'[y].marker = rows[y].marker /\ rows'[y].path = rows[y].path
           \/ rows'[y] = NoRow /\ ~Locked(y)
    /\ UNCHANGED <<blobs, used, clock, pc, req, tgt, ovl>>
    /\ purge'.cand \subseteq purge.cand

\* Such a step preserves the invariant: it never makes a row latest or live and
\* removes no row a request has locked.
LEMMA BackgroundInv ==
    ASSUME IInv, TypeOK', Background
    PROVE  IInv'
  <1>a. blobs' = blobs /\ used' = used /\ clock' = clock /\ pc' = pc /\ req' = req
          /\ tgt' = tgt /\ ovl' = ovl /\ purge'.cand \subseteq purge.cand
    BY DEF Background
  <1>b. NoRow.st = "absent" /\ ~NoRow.latest /\ NoRow.path = None
    BY DEF NoRow
  <1>c. ASSUME NEW y \in TxId
        PROVE  \/ rows'[y] = rows[y]
               \/ /\ rows[y].st # "absent" /\ rows'[y].st \in {rows[y].st, "deleted"}
                  /\ rows'[y].key = rows[y].key /\ rows'[y].latest = rows[y].latest
                  /\ rows'[y].marker = rows[y].marker /\ rows'[y].path = rows[y].path
               \/ rows'[y] = NoRow /\ ~Locked(y)
    BY DEF Background
  <1>d. \A y \in TxId : Reserved(y)' = Reserved(y)
    BY <1>a DEF Reserved, Pending
  <1>e. \A y \in TxId : rows'[y].latest => rows[y].latest /\ rows'[y].key = rows[y].key
    BY <1>b, <1>c
  <1>f. \A y \in TxId : rows'[y].path # None => rows'[y].path = rows[y].path
    BY <1>b, <1>c
  <1>g. \A y \in TxId : rows'[y].st = "live" =>
            rows[y].st = "live" /\ rows'[y].marker = rows[y].marker /\ rows'[y].path = rows[y].path
    BY <1>b, <1>c
  <1>1. RowInv'
    <2>1. RowInv
      BY DEF IInv
    <2> QED
      BY <1>b, <1>c, <1>d, <2>1 DEF RowInv
  <1>2. TsInv'
    BY <1>a DEF IInv, TsInv, Pending
  <1>3. LockInv'
    <2>1. \A q \in Requests, y \in TxId : ovl[q][y] # "none" /\ rows[y].st # "absent" =>
              rows'[y].st # "absent" /\ rows'[y].key = rows[y].key
      BY <1>c DEF Locked
    <2>2. LockInv
      BY DEF IInv
    <2> QED
      BY <1>a, <2>1, <2>2 DEF LockInv, MakesLatest, Pending
  <1>4. TargetInv'
    <2>1. \A y \in TxId : rows'[y].st # "absent" => rows[y].st # "absent" /\ rows'[y].key = rows[y].key
      BY <1>b, <1>c
    <2>2. TargetInv /\ tgt \in [Requests -> SUBSET TxId]
      BY DEF IInv, TypeOK
    <2> QED
      BY <1>a, <1>d, <2>1, <2>2 DEF TargetInv
  <1>5. LatestInv'
    <2>1. LatestInv
      BY DEF IInv
    <2> QED
      BY <1>a, <1>e, <2>1 DEF LatestInv, OneLatest, MakesLatest
  <1>6. PathInv'
    <2>1. PathInv
      BY DEF IInv
    <2> QED
      BY <1>a, <1>f, <2>1, NoneAssumption, ZenonT(60) DEF PathInv, IInv, TypeOK
  <1>7. DeleterInv'
    <2>1. DeleterInv /\ \A c \in purge.cand : c[1] \in TxId
      BY DEF IInv, TypeOK
    <2> QED
      BY <1>a, <1>d, <1>f, <1>g, <2>1 DEF DeleterInv
  <1>8. NoDanglingVersion'
    BY <1>a, <1>g DEF IInv, NoDanglingVersion
  <1> QED
    BY <1>1, <1>2, <1>3, <1>4, <1>5, <1>6, <1>7, <1>8 DEF IInv

\* The purge selects soft-deleted rows, whose blobs no live row shares.
LEMMA PurgeSelectInv ==
    ASSUME IInv, TypeOK', NEW S \in SUBSET TxId, PurgeSelect(S)
    PROVE  IInv'
  <1>a. rows' = rows /\ blobs' = blobs /\ used' = used /\ clock' = clock /\ pc' = pc
          /\ req' = req /\ tgt' = tgt /\ ovl' = ovl
    BY DEF PurgeSelect, dbVars, blobVars, txVars
  <1>b. \A c \in purge'.cand :
            /\ c[1] \in TxId /\ c[2] = rows[c[1]].path /\ rows[c[1]].st = "deleted"
            /\ ~Reserved(c[1])'
    <2>1. purge'.cand = {<<x, rows[x].path>> : x \in S}
      BY DEF PurgeSelect, IInv, TypeOK
    <2>2. \A x \in S : rows[x].st = "deleted" /\ ~Reserved(x)'
      BY <1>a DEF PurgeSelect, IInv, RowInv, Reserved, Pending
    <2> QED
      BY <2>1, <2>2
  <1>1. RowInv' /\ TsInv' /\ LockInv' /\ TargetInv' /\ LatestInv' /\ NoDanglingVersion'
    BY <1>a DEF IInv, RowInv, TsInv, LockInv, TargetInv, LatestInv, OneLatest, NoDanglingVersion,
        Reserved, Pending, MakesLatest
  <1>2. PathInv'
    BY <1>a, <1>b DEF IInv, PathInv
  <1>3. DeleterInv'
    <2>1. DeleterInv /\ PathInv
      BY DEF IInv
    <2> QED
      BY <1>a, <1>b, <2>1 DEF DeleterInv, PathInv
  <1> QED
    BY <1>1, <1>2, <1>3 DEF IInv

\* The blob the purge deletes belongs to a row that is not live.
LEMMA PurgeBlobInv ==
    ASSUME IInv, TypeOK', NEW c \in purge.cand, PurgeBlob(c)
    PROVE  IInv'
  <1>a. rows' = rows /\ blobs' = blobs \ {c[2]} /\ used' = used /\ clock' = clock /\ pc' = pc
          /\ req' = req /\ tgt' = tgt /\ ovl' = ovl /\ purge'.cand \subseteq purge.cand
    BY DEF PurgeBlob, dbVars, txVars
  <1>1. RowInv' /\ TsInv' /\ LockInv' /\ TargetInv' /\ LatestInv'
    BY <1>a DEF IInv, RowInv, TsInv, LockInv, TargetInv, LatestInv, OneLatest,
        Reserved, Pending, MakesLatest
  <1>2. PathInv'
    <2>1. PathInv
      BY DEF IInv
    <2> QED
      BY <1>a, <2>1 DEF PathInv
  <1>3. DeleterInv'
    <2>1. DeleterInv
      BY DEF IInv
    <2> QED
      BY <1>a, <2>1 DEF DeleterInv, Reserved, Pending
  <1>4. NoDanglingVersion'
    <2> SUFFICES ASSUME NEW x \in TxId, rows[x].st = "live", ~rows[x].marker
                 PROVE  rows[x].path \in blobs \ {c[2]}
      BY <1>a DEF NoDanglingVersion
    <2>1. rows[x].path \in blobs /\ rows[x].path # None
      BY NoneAssumption DEF IInv, NoDanglingVersion, TypeOK
    <2>2. rows[x].path # c[2]
      BY <2>1 DEF IInv, DeleterInv
    <2> QED
      BY <2>1, <2>2
  <1> QED
    BY <1>1, <1>2, <1>3, <1>4 DEF IInv

\* All other background operations are Background steps.
LEMMA WorkerStep ==
    ASSUME IInv,
           \/ \E x \in TxId, h \in HoldInputs : SetLegalHold(x, h)
           \/ \E x \in TxId : RetentionEnds(x)
           \/ \E S \in SUBSET TxId : ApplyLifecycleExpirations(S)
           \/ PurgeRow
           \/ PurgeAbort
           \/ ScanSelect
           \/ \E x \in TxId, v \in Verdicts, mode \in ScanModes : ScanVerdict(x, v, mode)
           \/ ScanAbort
           \/ BucketCount
           \/ BucketDelete
           \/ BucketAbort
    PROVE  Background
  <1> USE DEF dbVars, blobVars, txVars, workerVars
  <1>a. rows \in [TxId -> Row] /\ purge.cand \subseteq purge.cand
    BY DEF IInv, TypeOK
  <1>b. \A y \in TxId : rows[y] \in Row
    BY <1>a
  <1>1. ASSUME NEW x \in TxId, NEW h \in HoldInputs, SetLegalHold(x, h)
        PROVE  Background
    <2>1. rows'[x] = [rows[x] EXCEPT !.hold = h] /\ \A y \in TxId : y # x => rows'[y] = rows[y]
      BY <1>1, <1>a DEF SetLegalHold
    <2> QED
      BY <1>1, <1>b, <2>1 DEF SetLegalHold, Background, Row
  <1>2. ASSUME NEW x \in TxId, RetentionEnds(x)
        PROVE  Background
    <2>1. rows'[x] = [rows[x] EXCEPT !.retained = FALSE] /\ \A y \in TxId : y # x => rows'[y] = rows[y]
      BY <1>2, <1>a DEF RetentionEnds
    <2>2. rows[x].st # "absent"
      BY <1>2 DEF RetentionEnds, IInv, RowInv, NoRow
    <2> QED
      BY <1>2, <1>b, <2>1, <2>2 DEF RetentionEnds, Background, Row
  <1>3. ASSUME NEW S \in SUBSET TxId, ApplyLifecycleExpirations(S)
        PROVE  Background
    <2>1. \A y \in TxId : rows'[y] = IF y \in S THEN [rows[y] EXCEPT !.st = "deleted"] ELSE rows[y]
      BY <1>3, <1>a DEF ApplyLifecycleExpirations
    <2> QED
      BY <1>3, <1>b, <2>1 DEF ApplyLifecycleExpirations, Background, Row
  <1>4. ASSUME PurgeRow
        PROVE  Background
    <2>1. purge.cur \in TxId /\ purge'.cand = purge.cand
      BY <1>4, MaxTxAssumption DEF PurgeRow, IInv, TypeOK, TxId
    <2> QED
      BY <1>4, <1>a, <2>1 DEF PurgeRow, Background
  <1>5. ASSUME PurgeAbort \/ ScanSelect \/ ScanAbort \/ BucketCount \/ BucketAbort
        PROVE  Background
    BY <1>5 DEF PurgeAbort, ScanSelect, ScanAbort, BucketCount, BucketAbort, Background, NoPurge
  <1>6. ASSUME NEW x \in TxId, NEW v \in Verdicts, NEW mode \in ScanModes, ScanVerdict(x, v, mode)
        PROVE  Background
    <2>1. CASE rows[x].st = "absent"
      BY <1>6, <2>1 DEF ScanVerdict, Background
    <2>2. CASE rows[x].st # "absent"
      <3>1. PICK w, s : /\ s \in {rows[x].st, "deleted"}
                        /\ rows' = [rows EXCEPT ![x] = [rows[x] EXCEPT !.scan = w, !.st = s]]
        BY <1>6, <2>2 DEF ScanVerdict
      <3>2. \A y \in TxId : y # x => rows'[y] = rows[y]
        BY <1>a, <3>1
      <3>3. rows'[x] = [rows[x] EXCEPT !.scan = w, !.st = s]
        BY <1>a, <3>1
      <3>4. /\ rows'[x].st = s /\ rows'[x].key = rows[x].key /\ rows'[x].latest = rows[x].latest
            /\ rows'[x].marker = rows[x].marker /\ rows'[x].path = rows[x].path
        BY <1>b, <3>3 DEF Row
      <3> QED
        BY <1>6, <2>2, <3>1, <3>2, <3>4 DEF ScanVerdict, Background
    <2> QED
      BY <2>1, <2>2
  <1>7. ASSUME BucketDelete
        PROVE  Background
    BY <1>7 DEF BucketDelete, Background
  <1> QED
    BY <1>1, <1>2, <1>3, <1>4, <1>5, <1>6, <1>7

-----------------------------------------------------------------------------
(* What becomes of the blobs.                                              *)

\* The row that DeleteVersion removes is the one whose blob it will delete.
Victim(r, x) == (pc[r] = "remove" /\ x \in tgt[r]) \/ ovl[r][x] = "remove"

VictimInv ==
    \A r \in Requests, x \in TxId :
        req[r].op = "deleteVersion" /\ rows[x].st # "absent" /\ Victim(r, x)
            => rows[x].path = req[r].path

\* A Put that is about to commit has its row in the overlay.
InsertedInv ==
    \A r \in Requests : pc[r] = "commit" /\ req[r].op = "put" =>
        req[r].ts \in TxId /\ ovl[r][req[r].ts] = "insert"

\* A candidate of the purge goes with the path of its row; when it comes to
\* the row, the blob is gone.
CandidateInv ==
    /\ \A c \in purge.cand : rows[c[1]].st # "absent" => rows[c[1]].path = c[2]
    /\ purge.cur # 0 => ~Reserved(purge.cur) /\ rows[purge.cur].path \notin blobs

TrailInv == VictimInv /\ InsertedInv /\ CandidateInv /\ BlobsAccountedFor

\* Initially there is neither blob nor request.
LEMMA InitTrail == Init => TrailInv
  <1> SUFFICES ASSUME Init PROVE TrailInv
    OBVIOUS
  <1>1. NoRequest.op = "none"
    BY DEF NoRequest, NewRequest
  <1>2. VictimInv /\ InsertedInv
    BY <1>1 DEF Init, VictimInv, InsertedInv
  <1>3. CandidateInv /\ BlobsAccountedFor
    BY DEF Init, CandidateInv, BlobsAccountedFor, NoPurge
  <1> QED
    BY <1>2, <1>3 DEF TrailInv

\* No step reserves a slot anew.
LEMMA ReservedShrinks ==
    ASSUME IInv, NEW r \in Requests, RequestStep(r), NEW y \in TxId, Reserved(y)'
    PROVE  Reserved(y)
  <1> USE MaxTxAssumption DEF IInv, TypeOK, TsInv, Reserved, Pending, NewRequest, NoRequest, TxId, Goto,
                              dbVars, blobVars, workerVars
  <1>1. CASE \E k \in Keys, p \in Paths, m \in PutModes : PutBlob(r, k, p, m)
    BY <1>1 DEF PutBlob
  <1>2. ASSUME NEW k \in Keys, DeleteCheck(r, k)
        PROVE  Reserved(y)
    BY <1>2 DEF DeleteCheck
  <1>9. ASSUME NEW k \in Keys, RestoreStart(r, k)
        PROVE  Reserved(y)
    BY <1>9 DEF RestoreStart
  <1>3. CASE \E x \in TxId : SelectVersion(r, x)
    BY <1>3 DEF SelectVersion
  <1>4. CASE Begin(r)
    BY <1>4 DEF Begin
  <1>5. CASE RemoveRow(r) \/ DemoteScan(r) \/ Demote(r)
    BY <1>5 DEF RemoveRow, DemoteScan, Demote
  <1>6. CASE Insert(r) \/ PromoteScan(r) \/ Promote(r)
    BY <1>6 DEF Insert, PromoteScan, Promote
  <1>7. CASE Commit(r)
    <2>1. /\ \A q \in Requests : Pending(q)' => Pending(q) /\ req'[q].ts = req[q].ts
          /\ clock' = clock
      BY <1>7 DEF Commit
    <2> QED
      BY <2>1
  <1>8. CASE DeleteBlob(r) \/ Abort(r)
    BY <1>8 DEF DeleteBlob, Abort
  <1> QED
    BY <1>1, <1>2, <1>3, <1>4, <1>5, <1>6, <1>7, <1>8, <1>9 DEF RequestStep

\* A request step that touches neither rows nor blobs keeps the trail if it keeps
\* the request's own part of it.
LEMMA SteadyTrail ==
    ASSUME IInv, TrailInv, NEW r \in Requests,
           UNCHANGED <<rows, blobs, leaked, purge>>,
           \A q \in Requests : q # r => /\ req'[q] = req[q] /\ pc'[q] = pc[q]
                                        /\ tgt'[q] = tgt[q] /\ ovl'[q] = ovl[q],
           \A y \in TxId : Reserved(y)' => Reserved(y),
           pc[r] # "cleanup",
           req[r].op = "put" => req'[r].op = "put" /\ req'[r].path = req[r].path,
           \A x \in TxId : req'[r].op = "deleteVersion" /\ rows[x].st # "absent" /\ Victim(r, x)'
               => rows[x].path = req'[r].path,
           pc'[r] = "commit" /\ req'[r].op = "put" =>
               req'[r].ts \in TxId /\ ovl'[r][req'[r].ts] = "insert"
    PROVE  TrailInv'
  <1>1. VictimInv'
    BY DEF TrailInv, VictimInv, Victim
  <1>2. InsertedInv'
    BY DEF TrailInv, InsertedInv
  <1>3. CandidateInv'
    <2>1. purge.cur # 0 => purge.cur \in TxId
      BY MaxTxAssumption DEF IInv, TypeOK, TxId
    <2> QED
      BY <2>1 DEF TrailInv, CandidateInv
  <1>4. BlobsAccountedFor'
    BY DEF TrailInv, BlobsAccountedFor
  <1> QED
    BY <1>1, <1>2, <1>3, <1>4 DEF TrailInv

\* The steps of a request between its blob and its commit.
LEMMA RequestTrail ==
    ASSUME IInv, TrailInv, NEW r \in Requests, RequestStep(r),
           \/ \E k \in Keys : DeleteCheck(r, k) \/ RestoreStart(r, k)
           \/ \E x \in TxId : SelectVersion(r, x)
           \/ Begin(r) \/ RemoveRow(r) \/ DemoteScan(r) \/ Demote(r)
           \/ Insert(r) \/ PromoteScan(r) \/ Promote(r)
    PROVE  TrailInv'
  <1>1. /\ req \in [Requests -> Request] /\ pc \in [Requests -> Steps]
        /\ tgt \in [Requests -> SUBSET TxId] /\ ovl \in [Requests -> [TxId -> Writes]]
        /\ TsInv /\ LockInv /\ TargetInv
        /\ VictimInv /\ InsertedInv
    BY DEF IInv, TypeOK, TrailInv
  <1>2. \A y \in TxId : Reserved(y)' => Reserved(y)
    BY ReservedShrinks
  <1> USE DEF Goto, dbVars, blobVars, workerVars
  <1>3. ASSUME NEW k \in Keys, DeleteCheck(r, k) \/ RestoreStart(r, k)
        PROVE  TrailInv'
    <2>1. pc[r] = "idle" /\ req[r].op = "none"
      BY <1>1, <1>3 DEF DeleteCheck, RestoreStart, TsInv, NoRequest, NewRequest
    <2>2. req'[r].op \in {"delete", "restore"} /\ pc'[r] \in {"begin", "demoteScan"}
      BY <1>1, <1>3 DEF DeleteCheck, RestoreStart, NewRequest
    <2> QED
      BY <1>1, <1>2, <1>3, <2>1, <2>2, SteadyTrail DEF DeleteCheck, RestoreStart
  <1>4. ASSUME NEW x \in TxId, SelectVersion(r, x)
        PROVE  TrailInv'
    <2>1. pc[r] = "idle" /\ req[r].op = "none" /\ \A y \in TxId : ovl[r][y] = "none"
      BY <1>1, <1>4 DEF SelectVersion, TsInv, LockInv, NoRequest, NewRequest
    <2>2. /\ req'[r].op = "deleteVersion" /\ req'[r].path = rows[x].path
          /\ tgt'[r] = {x} /\ pc'[r] = "remove" /\ ovl' = ovl
      BY <1>1, <1>4 DEF SelectVersion, NewRequest
    <2>3. \A y \in TxId : Victim(r, y)' => rows[y].path = req'[r].path
      BY <2>1, <2>2 DEF Victim
    <2> QED
      BY <1>1, <1>2, <1>4, <2>1, <2>2, <2>3, SteadyTrail DEF SelectVersion
  <1>5. CASE Begin(r)
    <2>1. req'[r].op = req[r].op /\ req'[r].path = req[r].path /\ pc'[r] = "demoteScan" /\ ovl' = ovl
      BY <1>1, <1>5 DEF Begin, Request
    <2>2. \A y \in TxId : ovl[r][y] = "none"
      BY <1>1, <1>5 DEF Begin, LockInv
    <2> QED
      BY <1>1, <1>2, <1>5, <2>1, <2>2, SteadyTrail DEF Begin, Victim
  <1>6. CASE RemoveRow(r)
    <2>1. /\ req' = req /\ pc'[r] \in {"demoteScan", "commit"} /\ req[r].op = "deleteVersion"
          /\ \A y \in TxId : ovl'[r][y] = "remove" => y \in tgt[r] \/ ovl[r][y] = "remove"
      BY <1>1, <1>6 DEF RemoveRow, TsInv
    <2> QED
      BY <1>1, <1>2, <1>6, <2>1, SteadyTrail DEF RemoveRow, VictimInv, Victim
  <1>7. CASE DemoteScan(r) \/ Demote(r)
    <2>1. /\ req' = req /\ pc'[r] \in {"demote", "insert", "promoteScan"}
          /\ \A y \in TxId : ovl'[r][y] = "remove" => ovl[r][y] = "remove"
      BY <1>1, <1>7 DEF DemoteScan, Demote
    <2> QED
      BY <1>1, <1>2, <1>7, <2>1, SteadyTrail DEF DemoteScan, Demote, VictimInv, Victim
  <1>8. CASE Insert(r)
    <2>1. req[r].ts \in TxId /\ req[r].op \in {"put", "delete"}
      BY <1>1, <1>8, MaxTxAssumption DEF Insert, TsInv, Pending, IInv, TypeOK, TxId
    <2>2. req' = req /\ pc'[r] = "commit" /\ ovl'[r][req[r].ts] = "insert"
      BY <1>1, <1>8, <2>1 DEF Insert
    <2> QED
      BY <1>1, <1>2, <1>8, <2>1, <2>2, SteadyTrail DEF Insert
  <1>9. CASE PromoteScan(r) \/ Promote(r)
    <2>1. /\ req' = req /\ pc'[r] \in {"promote", "commit"} /\ req[r].op \in {"restore", "deleteVersion"}
          /\ \A y \in TxId : ovl'[r][y] = "remove" => ovl[r][y] = "remove"
      BY <1>1, <1>9 DEF PromoteScan, Promote, TsInv
    <2> QED
      BY <1>1, <1>2, <1>9, <2>1, SteadyTrail DEF PromoteScan, Promote, VictimInv, Victim
  <1> QED
    BY <1>3, <1>4, <1>5, <1>6, <1>7, <1>8, <1>9

\* Put stores its blob before it has anything else.
LEMMA PutBlobTrail ==
    ASSUME IInv, TrailInv, NEW r \in Requests, NEW k \in Keys, NEW p \in Paths, NEW m \in PutModes,
           PutBlob(r, k, p, m)
    PROVE  TrailInv'
  <1>1. /\ req \in [Requests -> Request] /\ pc \in [Requests -> Steps]
        /\ TsInv /\ LockInv /\ PathInv
        /\ VictimInv /\ InsertedInv /\ CandidateInv /\ BlobsAccountedFor
    BY DEF IInv, TypeOK, TrailInv
  <1>2. /\ pc[r] = "idle" /\ p \notin used /\ blobs' = blobs \cup {p}
        /\ UNCHANGED <<rows, leaked, purge, tgt, ovl>>
        /\ req'[r].op = "put" /\ req'[r].path = p /\ pc'[r] = "begin"
        /\ \A q \in Requests : q # r => req'[q] = req[q] /\ pc'[q] = pc[q]
    BY <1>1 DEF PutBlob, Goto, NewRequest, dbVars, workerVars
  <1>3. req[r].op = "none"
    BY <1>1, <1>2 DEF TsInv, NoRequest, NewRequest
  <1>4. VictimInv' /\ InsertedInv'
    BY <1>1, <1>2 DEF VictimInv, Victim, InsertedInv
  <1>5. CandidateInv'
    <2>1. \A y \in TxId : Reserved(y)' => Reserved(y)
      BY ReservedShrinks DEF RequestStep
    <2>2. purge.cur # 0 => purge.cur \in TxId
      BY MaxTxAssumption DEF IInv, TypeOK, TxId
    <2>3. \A y \in TxId : rows[y].path # p
      BY <1>1, <1>2, NoneAssumption DEF PathInv
    <2> QED
      BY <1>1, <1>2, <2>1, <2>2, <2>3 DEF CandidateInv
  <1>6. BlobsAccountedFor'
    BY <1>1, <1>2, <1>3 DEF BlobsAccountedFor
  <1> QED
    BY <1>4, <1>5, <1>6 DEF TrailInv

\* A commit hands the blob of a Put to its row, and the blob of a removed row to
\* the request that will delete it.
LEMMA CommitTrail ==
    ASSUME IInv, TrailInv, NEW r \in Requests, Commit(r)
    PROVE  TrailInv'
  <1>1. /\ req \in [Requests -> Request] /\ pc \in [Requests -> Steps] /\ blobs \subseteq Paths
        /\ ovl \in [Requests -> [TxId -> Writes]]
        /\ RowInv /\ TsInv /\ LockInv /\ TargetInv
        /\ VictimInv /\ InsertedInv /\ CandidateInv /\ BlobsAccountedFor
    BY DEF IInv, TypeOK, TrailInv
  <1>2. /\ pc[r] = "commit" /\ UNCHANGED <<blobs, leaked, tgt, purge>>
        /\ ovl' = [ovl EXCEPT ![r] = NoWrites]
        /\ \A y \in TxId : ovl'[r][y] = "none"
        /\ pc'[r] \in {"idle", "cleanup"}
        /\ req'[r] = NoRequest \/ req'[r] = req[r]
        /\ req[r].op = "deleteVersion" /\ req[r].path # None => pc'[r] = "cleanup" /\ req'[r] = req[r]
        /\ \A q \in Requests : q # r => req'[q] = req[q] /\ pc'[q] = pc[q] /\ ovl'[q] = ovl[q]
    BY <1>1 DEF Commit, Goto, NoWrites, blobVars, workerVars
  <1>3. \A y \in TxId :
            \/ rows'[y].path = rows[y].path /\ (rows'[y].st # "absent" <=> rows[y].st # "absent")
            \/ rows'[y] = NoRow /\ ovl[r][y] = "remove"
            \/ /\ ovl[r][y] = "insert" /\ y = req[r].ts /\ Reserved(y) /\ rows[y] = NoRow
               /\ rows'[y].path = req[r].path
    <2> TAKE y \in TxId
    <2>1. ovl[r][y] \in Writes
      BY <1>1
    <2> QED
      BY <2>1, CommitRows DEF Writes, Reserved
  <1>4. NoRow.st = "absent" /\ NoRow.path = None
    BY DEF NoRow
  <1>5. \A y \in TxId : ~Reserved(y) => rows'[y].path = rows[y].path \/ rows'[y] = NoRow
    BY <1>3
  <1>6. VictimInv'
    <2> SUFFICES ASSUME NEW q \in Requests, NEW x \in TxId, req'[q].op = "deleteVersion",
                        rows'[x].st # "absent", Victim(q, x)'
                 PROVE  rows'[x].path = req'[q].path
      BY DEF VictimInv
    <2>1. q # r
      BY <1>2 DEF Victim
    <2>2. Victim(q, x) /\ req'[q] = req[q]
      BY <1>2, <2>1 DEF Victim
    <2>3. ~Reserved(x)
      <3>1. ovl[q][x] = "remove" => rows[x].st # "absent"
        BY <1>1 DEF LockInv
      <3> QED
        BY <1>1, <2>2, <3>1 DEF Victim, RowInv, TargetInv
    <2>4. rows'[x].path = rows[x].path /\ rows[x].st # "absent"
      BY <1>3, <1>4, <2>3
    <2> QED
      BY <1>1, <2>2, <2>4 DEF VictimInv
  <1>7. InsertedInv'
    BY <1>1, <1>2 DEF InsertedInv
  <1>8. CandidateInv'
    <2>1. \A y \in TxId : Reserved(y)' => Reserved(y)
      BY ReservedShrinks DEF RequestStep
    <2>2. purge.cur # 0 => purge.cur \in TxId
      BY MaxTxAssumption DEF IInv, TypeOK, TxId
    <2>3. \A c \in purge.cand : c[1] \in TxId /\ ~Reserved(c[1])
      BY DEF IInv, TypeOK, DeleterInv
    <2>4. None \notin blobs
      BY <1>1, NoneAssumption
    <2>5. \A c \in purge.cand : rows'[c[1]].st # "absent" => rows'[c[1]].path = c[2]
      BY <1>1, <1>3, <1>4, <2>3 DEF CandidateInv
    <2>6. purge.cur # 0 => rows'[purge.cur].path \notin blobs
      BY <1>1, <1>4, <1>5, <2>2, <2>4 DEF CandidateInv
    <2> QED
      BY <1>1, <1>2, <2>1, <2>2, <2>5, <2>6 DEF CandidateInv
  <1>9. BlobsAccountedFor'
    <2> SUFFICES ASSUME NEW p \in blobs, p \notin leaked
                 PROVE  \/ \E x \in TxId : rows'[x].path = p
                        \/ \E q \in Requests : req'[q].path = p /\ (req'[q].op = "put" \/ pc'[q] = "cleanup")
      BY <1>2 DEF BlobsAccountedFor
    <2>1. p # None
      BY <1>1, NoneAssumption
    <2>2. CASE \E x \in TxId : rows[x].path = p
      <3>1. PICK x \in TxId : rows[x].path = p
        BY <2>2
      <3>2. CASE ovl[r][x] = "remove"
        <4>1. rows[x].st # "absent" /\ req[r].op = "deleteVersion"
          BY <1>1, <3>2 DEF LockInv
        <4>2. req[r].path = p
          BY <1>1, <3>1, <3>2, <4>1 DEF VictimInv, Victim
        <4> QED
          BY <1>2, <2>1, <4>1, <4>2
      <3>3. CASE ovl[r][x] # "remove"
        <4>1. rows'[x].path = p
          BY <1>3, <1>4, <2>1, <3>1, <3>3
        <4> QED
          BY <4>1
      <3> QED
        BY <3>2, <3>3
    <2>3. ASSUME NEW q \in Requests, req[q].path = p, req[q].op = "put" \/ pc[q] = "cleanup"
          PROVE  \/ \E x \in TxId : rows'[x].path = p
                 \/ \E k \in Requests : req'[k].path = p /\ (req'[k].op = "put" \/ pc'[k] = "cleanup")
      <3>1. CASE q # r
        BY <1>2, <2>3, <3>1
      <3>2. CASE q = r
        <4>1. req[r].ts \in TxId /\ ovl[r][req[r].ts] = "insert"
          BY <1>1, <1>2, <2>3, <3>2 DEF InsertedInv
        <4>2. rows'[req[r].ts].path = p
          BY <4>1, CommitRows, <2>3, <3>2
        <4> QED
          BY <4>1, <4>2
      <3> QED
        BY <3>1, <3>2
    <2> QED
      BY <1>1, <2>2, <2>3 DEF BlobsAccountedFor
  <1> QED
    BY <1>6, <1>7, <1>8, <1>9 DEF TrailInv

\* DeleteVersion deletes its blob; a request that ends before leaves it to nobody.
LEMMA EndTrail ==
    ASSUME IInv, TrailInv, NEW r \in Requests, DeleteBlob(r) \/ Abort(r)
    PROVE  TrailInv'
  <1>1. /\ req \in [Requests -> Request] /\ pc \in [Requests -> Steps]
        /\ tgt \in [Requests -> SUBSET TxId] /\ ovl \in [Requests -> [TxId -> Writes]]
        /\ VictimInv /\ InsertedInv /\ CandidateInv /\ BlobsAccountedFor
    BY DEF IInv, TypeOK, TrailInv
  <1>2. /\ UNCHANGED <<rows, purge>> /\ pc'[r] = "idle" /\ req'[r].op = "none"
        /\ \A q \in Requests : q # r => /\ req'[q] = req[q] /\ pc'[q] = pc[q]
                                        /\ tgt'[q] = tgt[q] /\ ovl'[q] = ovl[q]
    BY <1>1 DEF DeleteBlob, Abort, Goto, NoRequest, NewRequest, dbVars, workerVars
  <1>3. \/ blobs' = blobs \ {req[r].path} /\ leaked' = leaked \ {req[r].path}
        \/ /\ blobs' = blobs /\ leaked \subseteq leaked'
           /\ req[r].op = "put" \/ pc[r] = "cleanup" => {req[r].path} \cap blobs \subseteq leaked'
    BY DEF DeleteBlob, Abort
  <1>4. VictimInv' /\ InsertedInv'
    <2>1. VictimInv'
      BY <1>1, <1>2 DEF VictimInv, Victim
    <2>2. InsertedInv'
      BY <1>1, <1>2 DEF InsertedInv
    <2> QED
      BY <2>1, <2>2
  <1>5. CandidateInv'
    <2>1. \A y \in TxId : Reserved(y)' => Reserved(y)
      BY ReservedShrinks DEF RequestStep
    <2>2. purge.cur # 0 => purge.cur \in TxId
      BY MaxTxAssumption DEF IInv, TypeOK, TxId
    <2> QED
      BY <1>1, <1>2, <1>3, <2>1, <2>2 DEF CandidateInv
  <1>6. BlobsAccountedFor'
    <2> SUFFICES ASSUME NEW p \in blobs', p \notin leaked'
                 PROVE  \/ \E x \in TxId : rows[x].path = p
                        \/ \E q \in Requests : req'[q].path = p /\ (req'[q].op = "put" \/ pc'[q] = "cleanup")
      BY <1>2 DEF BlobsAccountedFor
    <2>1. p \in blobs /\ p \notin leaked /\ (req[r].path = p => req[r].op # "put" /\ pc[r] # "cleanup")
      BY <1>3
    <2>2. \/ \E x \in TxId : rows[x].path = p
          \/ \E q \in Requests : req[q].path = p /\ (req[q].op = "put" \/ pc[q] = "cleanup")
      BY <1>1, <2>1 DEF BlobsAccountedFor
    <2> QED
      BY <1>2, <2>1, <2>2
  <1> QED
    BY <1>4, <1>5, <1>6 DEF TrailInv

\* The purge selects rows with their paths, and deletes a blob before its row.
LEMMA PurgeTrail ==
    ASSUME IInv, TrailInv,
           \/ \E S \in SUBSET TxId : PurgeSelect(S)
           \/ \E c \in purge.cand : PurgeBlob(c)
    PROVE  TrailInv'
  <1>1. /\ VictimInv /\ InsertedInv /\ CandidateInv /\ BlobsAccountedFor /\ RowInv /\ DeleterInv
        /\ blobs \subseteq Paths
        /\ purge.cand \in SUBSET (TxId \X (Paths \cup {None}))
    BY DEF IInv, TypeOK, TrailInv
  <1>2. UNCHANGED <<rows, clock, pc, req, tgt, ovl>>
    BY DEF PurgeSelect, PurgeBlob, dbVars, txVars
  <1>3. VictimInv' /\ InsertedInv'
    BY <1>1, <1>2 DEF VictimInv, Victim, InsertedInv
  <1>4. \A y : Reserved(y)' <=> Reserved(y)
    BY <1>2 DEF Reserved, Pending
  <1>5. ASSUME NEW S \in SUBSET TxId, PurgeSelect(S)
        PROVE  TrailInv'
    <2>1. purge'.cand = {<<x, rows[x].path>> : x \in S} /\ purge'.cur = purge.cur
      BY <1>5 DEF PurgeSelect, IInv, TypeOK
    <2>2. blobs' = blobs /\ leaked' = leaked
      BY <1>5 DEF PurgeSelect, blobVars
    <2>3. CandidateInv'
      BY <1>1, <1>2, <1>4, <2>1, <2>2 DEF CandidateInv
    <2>4. BlobsAccountedFor'
      BY <1>1, <1>2, <2>2 DEF BlobsAccountedFor
    <2> QED
      BY <1>3, <2>3, <2>4 DEF TrailInv
  <1>6. ASSUME NEW c \in purge.cand, PurgeBlob(c)
        PROVE  TrailInv'
    <2>1. /\ blobs' = blobs \ {c[2]} /\ leaked' = leaked \ {c[2]}
          /\ purge'.cand \subseteq purge.cand /\ purge'.cur = c[1]
      BY <1>6 DEF PurgeBlob
    <2>2. c[1] \in TxId /\ ~Reserved(c[1])
      BY <1>1 DEF DeleterInv
    <2>3. rows[c[1]].path \notin blobs \ {c[2]}
      <3>1. CASE rows[c[1]].st # "absent"
        BY <1>1, <3>1 DEF CandidateInv
      <3>2. CASE rows[c[1]].st = "absent"
        <4>1. rows[c[1]].path = None
          BY <1>1, <2>2, <3>2 DEF RowInv, NoRow
        <4> QED
          BY <1>1, <4>1, NoneAssumption
      <3> QED
        BY <3>1, <3>2
    <2>4. CandidateInv'
      BY <1>1, <1>2, <1>4, <2>1, <2>2, <2>3 DEF CandidateInv
    <2>5. BlobsAccountedFor'
      BY <1>1, <1>2, <2>1 DEF BlobsAccountedFor
    <2> QED
      BY <1>3, <2>4, <2>5 DEF TrailInv
  <1> QED
    BY <1>5, <1>6

\* A background step loses track of a blob only if it takes its row: the purge does
\* so when the blob is gone, the bucket deletion leaks it.
LEMMA BackgroundTrail ==
    ASSUME IInv, TrailInv, Background,
           leaked \subseteq leaked', purge'.cur \in {0, purge.cur},
           \A y \in TxId : rows'[y] # NoRow \/ rows[y] = NoRow \/ rows[y].path \notin blobs
                           \/ rows[y].path \in leaked'
    PROVE  TrailInv'
  <1>1. /\ VictimInv /\ InsertedInv /\ CandidateInv /\ BlobsAccountedFor /\ RowInv
        /\ blobs \subseteq Paths
        /\ purge.cand \in SUBSET (TxId \X (Paths \cup {None}))
        /\ purge.cur # 0 => purge.cur \in TxId
    BY MaxTxAssumption DEF IInv, TypeOK, TrailInv, TxId
  <1>2. UNCHANGED <<blobs, clock, pc, req, tgt, ovl>> /\ purge'.cand \subseteq purge.cand
    BY DEF Background
  <1>3. NoRow.st = "absent" /\ NoRow.path = None /\ None \notin blobs
    BY <1>1, NoneAssumption DEF NoRow
  <1>4. \A y \in TxId : \/ rows'[y].path = rows[y].path
                        \/ rows'[y] = NoRow
    BY DEF Background
  <1>5. \A y \in TxId : rows'[y].st # "absent" => rows[y].st # "absent" /\ rows'[y].path = rows[y].path
    BY <1>3 DEF Background
  <1>6. \A y : Reserved(y)' <=> Reserved(y)
    BY <1>2 DEF Reserved, Pending
  <1>7. VictimInv' /\ InsertedInv'
    BY <1>1, <1>2, <1>5 DEF VictimInv, Victim, InsertedInv
  <1>8. CandidateInv'
    <2>1. \A c \in purge.cand : c[1] \in TxId
      BY <1>1
    <2> QED
      BY <1>1, <1>2, <1>3, <1>4, <1>5, <1>6, <2>1 DEF CandidateInv
  <1>9. BlobsAccountedFor'
    <2> SUFFICES ASSUME NEW p \in blobs, p \notin leaked'
                 PROVE  \/ \E x \in TxId : rows'[x].path = p
                        \/ \E q \in Requests : req[q].path = p /\ (req[q].op = "put" \/ pc[q] = "cleanup")
      BY <1>2 DEF BlobsAccountedFor
    <2>1. ASSUME NEW x \in TxId, rows[x].path = p
          PROVE  rows'[x].path = p
      BY <1>3, <1>4, <2>1
    <2> QED
      BY <1>1, <2>1 DEF BlobsAccountedFor
  <1> QED
    BY <1>7, <1>8, <1>9 DEF TrailInv

\* The steps that take rows.
LEMMA WorkerTrail ==
    ASSUME IInv, TrailInv,
           \/ \E x \in TxId, h \in HoldInputs : SetLegalHold(x, h)
           \/ \E x \in TxId : RetentionEnds(x)
           \/ \E S \in SUBSET TxId : ApplyLifecycleExpirations(S)
           \/ PurgeRow
           \/ PurgeAbort
           \/ ScanSelect
           \/ \E x \in TxId, v \in Verdicts, mode \in ScanModes : ScanVerdict(x, v, mode)
           \/ ScanAbort
           \/ BucketCount
           \/ BucketDelete
           \/ BucketAbort
    PROVE  TrailInv'
  <1>1. Background
    BY WorkerStep
  <1>2. /\ rows \in [TxId -> Row] /\ RowInv /\ CandidateInv
        /\ purge \in [cand: SUBSET (TxId \X (Paths \cup {None})), cur: 0..MaxTx]
    BY DEF IInv, TypeOK, TrailInv
  <1> USE DEF dbVars, blobVars, txVars, workerVars
  <1>3. CASE PurgeRow
    <2>1. leaked' = leaked /\ purge'.cur = 0 /\ purge.cur \in TxId
      BY <1>2, <1>3, MaxTxAssumption DEF PurgeRow, TxId
    <2>2. \A y \in TxId : y # purge.cur => rows'[y] = rows[y]
      BY <1>2, <1>3 DEF PurgeRow
    <2>3. rows[purge.cur].path \notin blobs
      BY <1>2, <1>3 DEF PurgeRow, CandidateInv
    <2> QED
      BY <1>1, <2>1, <2>2, <2>3, BackgroundTrail
  <1>4. CASE BucketDelete
    <2>1. /\ leaked' = leaked \cup (blobs \cap {rows[x].path : x \in TxId})
          /\ purge' = purge
      BY <1>4 DEF BucketDelete
    <2> QED
      BY <1>1, <2>1, BackgroundTrail
  <1>5. ASSUME leaked' = leaked, purge'.cur \in {0, purge.cur},
               \A y \in TxId : rows'[y].st = "absent" => rows[y] = NoRow
        PROVE  TrailInv'
    <2>0. NoRow.st = "absent"
      BY DEF NoRow
    <2>1. \A y \in TxId : rows'[y] # NoRow \/ rows[y] = NoRow
      BY <1>5, <2>0
    <2> QED
      BY <1>1, <1>5, <2>1, BackgroundTrail
  <1>6. \A y \in TxId : rows[y].st = "absent" => rows[y] = NoRow
    BY <1>2 DEF RowInv
  <1>7. ASSUME NEW x \in TxId, NEW h \in HoldInputs, SetLegalHold(x, h)
        PROVE  TrailInv'
    <2>1. \A y \in TxId : rows'[y].st = rows[y].st
      BY <1>2, <1>7 DEF SetLegalHold, Row
    <2> QED
      BY <1>5, <1>6, <1>7, <2>1 DEF SetLegalHold
  <1>8. ASSUME NEW x \in TxId, RetentionEnds(x)
        PROVE  TrailInv'
    <2>1. \A y \in TxId : rows'[y].st = rows[y].st
      BY <1>2, <1>8 DEF RetentionEnds, Row
    <2> QED
      BY <1>5, <1>6, <1>8, <2>1 DEF RetentionEnds
  <1>9. ASSUME NEW S \in SUBSET TxId, ApplyLifecycleExpirations(S)
        PROVE  TrailInv'
    <2>1. \A y \in TxId : rows'[y].st \in {rows[y].st, "deleted"}
      BY <1>2, <1>9 DEF ApplyLifecycleExpirations, Row
    <2> QED
      BY <1>5, <1>6, <1>9, <2>1 DEF ApplyLifecycleExpirations
  <1>10. CASE PurgeAbort \/ ScanSelect \/ ScanAbort \/ BucketCount \/ BucketAbort
    BY <1>5, <1>6, <1>10 DEF PurgeAbort, ScanSelect, ScanAbort, BucketCount, BucketAbort, NoPurge
  <1>11. ASSUME NEW x \in TxId, NEW v \in Verdicts, NEW mode \in ScanModes, ScanVerdict(x, v, mode)
         PROVE  TrailInv'
    <2>1. \A y \in TxId : rows'[y].st \in {rows[y].st, "deleted"}
      <3>1. CASE rows[x].st = "absent"
        BY <1>11, <3>1 DEF ScanVerdict
      <3>2. CASE rows[x].st # "absent"
        <4>1. PICK w, s : /\ s \in {rows[x].st, "deleted"}
                          /\ rows' = [rows EXCEPT ![x] = [rows[x] EXCEPT !.scan = w, !.st = s]]
          BY <1>11, <3>2 DEF ScanVerdict
        <4>2. rows'[x] = [rows[x] EXCEPT !.scan = w, !.st = s] /\ \A y \in TxId : y # x => rows'[y] = rows[y]
          BY <1>2, <4>1
        <4>3. rows'[x].st = s
          BY <1>2, <4>2 DEF Row
        <4> QED
          BY <4>1, <4>2, <4>3
      <3> QED
        BY <3>1, <3>2
    <2> QED
      BY <1>5, <1>6, <1>11, <2>1 DEF ScanVerdict
  <1> QED
    BY <1>3, <1>4, <1>7, <1>8, <1>9, <1>10, <1>11

\* Every step keeps track of the blobs.
LEMMA NextTrail == IInv /\ TrailInv /\ [Next]_vars => TrailInv'
  <1> SUFFICES ASSUME IInv, TrailInv, [Next]_vars PROVE TrailInv'
    OBVIOUS
  <1>1. ASSUME NEW r \in Requests, RequestStep(r)
        PROVE  TrailInv'
    BY <1>1, RequestTrail, PutBlobTrail, CommitTrail, EndTrail DEF RequestStep
  <1>2. CASE UNCHANGED vars
    BY <1>2 DEF vars, TrailInv, VictimInv, Victim, InsertedInv, CandidateInv, BlobsAccountedFor,
                Reserved, Pending
  <1> QED
    BY <1>1, <1>2, PurgeTrail, WorkerTrail DEF Next

-----------------------------------------------------------------------------
(* The theorems.                                                           *)

\* The empty object store satisfies the invariant.
LEMMA InitInv == Init => IInv
  <1> SUFFICES ASSUME Init PROVE IInv
    OBVIOUS
  <1>1. TypeOK
    BY InitType
  <1>2. NoRow.st = "absent" /\ ~NoRow.latest /\ NoRow.path = None
    BY DEF NoRow
  <1>3. NoRequest.op = "none" /\ NoRequest.path = None
    BY DEF NoRequest, NewRequest
  <1>4. RowInv /\ NoDanglingVersion
    BY <1>2 DEF Init, RowInv, NoDanglingVersion
  <1>5. TsInv /\ LockInv /\ TargetInv
    BY <1>3 DEF Init, TsInv, LockInv, TargetInv, Pending, MakesLatest, NoWrites
  <1>6. LatestInv
    BY <1>2 DEF Init, LatestInv, OneLatest, MakesLatest, NoWrites
  <1>7. PathInv /\ DeleterInv
    BY <1>2, <1>3 DEF Init, PathInv, DeleterInv, NoPurge
  <1> QED
    BY <1>1, <1>4, <1>5, <1>6, <1>7 DEF IInv

\* Every step preserves the invariant.
LEMMA NextInv == IInv /\ [Next]_vars => IInv'
  <1> SUFFICES ASSUME IInv, [Next]_vars PROVE IInv'
    OBVIOUS
  <1>1. TypeOK'
    BY StepType DEF IInv
  <1>2. ASSUME NEW r \in Requests, RequestStep(r)
        PROVE  IInv'
    BY <1>1, <1>2, PutBlobInv, DeleteCheckInv, RestoreStartInv, SelectVersionInv, BeginInv,
       RemoveRowInv, DemoteScanInv, DemoteInv, InsertInv, PromoteScanInv, PromoteInv,
       CommitInv, DeleteBlobInv, AbortInv DEF RequestStep
  <1>3. CASE UNCHANGED vars
    <2>1. Background
      BY <1>3 DEF vars, Background
    <2> QED
      BY <1>1, <2>1, BackgroundInv
  <1> QED
    BY <1>1, <1>2, <1>3, PurgeSelectInv, PurgeBlobInv, WorkerStep, BackgroundInv DEF Next

\* IInv holds in every reachable state.
THEOREM Invariance == Spec => []IInv
  BY InitInv, NextInv, PTL DEF Spec

\* No interleaving of Put, Delete, DeleteVersion and RestoreLatest, whose
\* statements run at READ COMMITTED, gives a key two latest versions.
THEOREM LatestIsUnique == Spec => []OneLatest
  <1>1. IInv => OneLatest
    BY DEF IInv, LatestInv
  <1> QED
    BY Invariance, <1>1, PTL

\* No interleaving of the requests with the purge, the scanner, the expiry and
\* the bucket deletion deletes the blob of a version that can still be read.
THEOREM ReadableVersionsHaveBlobs == Spec => []NoDanglingVersion
  <1>1. IInv => NoDanglingVersion
    BY DEF IInv
  <1> QED
    BY Invariance, <1>1, PTL

\* A blob in the store belongs to a row, to a Put that will insert its row, to a
\* DeleteVersion that will delete it, or to a request that failed or a bucket that was
\* deleted with its rows: whatever interleaves, no operation that ends well leaves one.
THEOREM BlobsAreAccountedFor == Spec => []BlobsAccountedFor
  <1>1. TrailInv => BlobsAccountedFor
    BY DEF TrailInv
  <1> QED
    BY InitTrail, NextTrail, Invariance, <1>1, PTL DEF Spec

\* No step of a request or of a worker brings a soft-deleted or removed version
\* back.
THEOREM DeletedStaysDeleted == Spec => NoResurrection
  <1> DEFINE Kept == \A x \in TxId :
          /\ rows[x].st = "deleted" => rows'[x].st \in {"deleted", "absent"}
          /\ rows[x].st = "absent" /\ rows'[x].st # "absent"
                 => rows'[x].st = "live" /\ rows'[x].latest
  <1>1. IInv /\ [Next]_vars => [Kept]_rows
    <2> SUFFICES ASSUME IInv, [Next]_vars PROVE Kept \/ rows' = rows
      OBVIOUS
    <2>1. ASSUME NEW r \in Requests, RequestStep(r)
          PROVE  Kept \/ rows' = rows
      <3>1. CASE Commit(r)
        <4>1. \A x \in TxId : ovl[r][x] \in Writes
          BY DEF IInv, TypeOK
        <4>2. NoRow.st = "absent"
          BY DEF NoRow
        <4> QED
          BY <3>1, <4>1, <4>2, CommitRows DEF Writes
      <3>2. CASE ~Commit(r)
        BY <2>1, <3>2 DEF RequestStep, PutBlob, DeleteCheck, RestoreStart, SelectVersion, Begin,
           RemoveRow, DemoteScan, Demote, Insert, PromoteScan, Promote, DeleteBlob, Abort, dbVars
      <3> QED
        BY <3>1, <3>2
    <2>2. ASSUME Background
          PROVE  Kept
      <3>1. NoRow.st = "absent"
        BY DEF NoRow
      <3> QED
        BY <2>2, <3>1 DEF Background
    <2>3. ASSUME NEW S \in SUBSET TxId, PurgeSelect(S)
          PROVE  rows' = rows
      BY <2>3 DEF PurgeSelect, dbVars
    <2>4. ASSUME NEW c \in purge.cand, PurgeBlob(c)
          PROVE  rows' = rows
      BY <2>4 DEF PurgeBlob, dbVars
    <2> QED
      BY <2>1, <2>2, <2>3, <2>4, WorkerStep DEF Next, vars
  <1> QED
    BY <1>1, Invariance, PTL DEF Spec, NoResurrection
-----------------------------------------------------------------------------
(* A key on which requests come one at a time keeps a live latest version. *)

\* The transaction of r leaves no live version of k.
RemovesLive(r, k) == \A x \in RowsOf(k) : rows[x].st = "live" => ovl[r][x] = "remove"

\* When the transaction of r commits, k has a live latest version: a new or a promoted
\* one, or none is needed, or the one it had is left alone.
LeavesLatest(r, k) ==
    \/ \E x \in TxId : ovl[r][x] = "insert"
    \/ \E x \in TxId : ovl[r][x] = "promote" /\ rows[x].st = "live"
    \/ RemovesLive(r, k)
    \/ \A x \in TxId : ovl[r][x] # "none" => ovl[r][x] = "remove" /\ ~rows[x].latest

\* At most one request is under way on k.  What a DeleteVersion found not to be the
\* latest still is not; what is to be promoted is still live; and a transaction that is
\* about to commit leaves a live latest version.
KeyInv(k) ==
    /\ (\E x \in RowsOf(k) : rows[x].st = "live")
           => \E x \in RowsOf(k) : rows[x].st = "live" /\ rows[x].latest
    /\ \A r \in On(k) :
           /\ \A q \in On(k) : q = r
           /\ pc[r] = "remove" /\ ~req[r].isLatest => \A x \in tgt[r] : ~rows[x].latest
           /\ pc[r] = "promote" => (\E x \in tgt[r] : rows[x].st = "live") \/ RemovesLive(r, k)
           /\ pc[r] = "commit" => LeavesLatest(r, k)

SuccessorInv == \A k \in Keys \ disturbed : KeyInv(k)

\* Requests on other keys, and background jobs that take no version which is, or may be
\* about to become, the latest, do not matter to a key.
LEMMA ElsewhereInv ==
    ASSUME IInv, NEW k \in Keys, KeyInv(k),
           \A r \in Requests : req'[r].key = k =>
               req'[r] = req[r] /\ pc'[r] = pc[r] /\ tgt'[r] = tgt[r] /\ ovl'[r] = ovl[r],
           \A x \in TxId : rows'[x].st = "live" /\ rows'[x].key = k
               => rows[x].st = "live" /\ rows[x].key = k,
           \A x \in TxId : /\ rows[x].st = "live" /\ rows[x].key = k
                           /\ rows[x].latest \/ On(k) # {}
               => rows'[x].st = "live" /\ rows'[x].key = k /\ (rows[x].latest => rows'[x].latest),
           \A r \in Requests, x \in TxId :
               req'[r].key = k /\ (x \in tgt[r] \/ ovl[r][x] # "none") /\ rows'[x].latest
                   => rows[x].latest
    PROVE  KeyInv(k)'
  <1>1. On(k)' \subseteq On(k)
    BY DEF On
  <1>2. \A x \in TxId : (x \in RowsOf(k) /\ rows[x].st = "live") <=> (rows[x].key = k /\ rows[x].st = "live")
    BY DEF RowsOf
  <1>3. \A x \in TxId : (x \in RowsOf(k)' /\ rows'[x].st = "live") <=> (rows'[x].key = k /\ rows'[x].st = "live")
    BY DEF RowsOf
  <1>4. (\E x \in RowsOf(k)' : rows'[x].st = "live")
            => \E x \in RowsOf(k)' : rows'[x].st = "live" /\ rows'[x].latest
    <2> SUFFICES ASSUME NEW x \in RowsOf(k)', rows'[x].st = "live"
                 PROVE  \E y \in RowsOf(k)' : rows'[y].st = "live" /\ rows'[y].latest
      OBVIOUS
    <2>1. x \in TxId /\ rows[x].st = "live" /\ rows[x].key = k
      BY DEF RowsOf
    <2>2. PICK y \in RowsOf(k) : rows[y].st = "live" /\ rows[y].latest
      BY <1>2, <2>1 DEF KeyInv
    <2>3. y \in TxId /\ rows[y].key = k
      BY <2>2 DEF RowsOf
    <2> QED
      BY <1>3, <2>2, <2>3
  <1>5. ASSUME NEW r \in On(k)'
        PROVE  /\ \A q \in On(k)' : q = r
               /\ pc'[r] = "remove" /\ ~req'[r].isLatest => \A x \in tgt'[r] : ~rows'[x].latest
               /\ pc'[r] = "promote" => (\E x \in tgt'[r] : rows'[x].st = "live") \/ RemovesLive(r, k)'
               /\ pc'[r] = "commit" => LeavesLatest(r, k)'
    <2>1. /\ r \in On(k) /\ r \in Requests /\ req[r].key = k /\ On(k) # {}
          /\ req'[r] = req[r] /\ pc'[r] = pc[r] /\ tgt'[r] = tgt[r] /\ ovl'[r] = ovl[r]
      BY <1>1 DEF On
    <2>2. tgt[r] \subseteq TxId
      BY <2>1 DEF IInv, TypeOK
    <2>3. RemovesLive(r, k) => RemovesLive(r, k)'
      BY <1>2, <1>3, <2>1 DEF RemovesLive, RowsOf
    <2>4. \A x \in tgt[r] : rows[x].st = "live" => rows'[x].st = "live"
      BY <2>1, <2>2 DEF IInv, TargetInv
    <2>5. \A x \in TxId : ovl[r][x] = "promote" /\ rows[x].st = "live" => rows'[x].st = "live"
      BY <2>1 DEF IInv, LockInv
    <2>6. LeavesLatest(r, k) => LeavesLatest(r, k)'
      BY <2>1, <2>3, <2>5 DEF LeavesLatest
    <2> QED
      BY <1>1, <2>1, <2>2, <2>3, <2>4, <2>6 DEF KeyInv
  <1> QED
    BY <1>4, <1>5 DEF KeyInv

\* A statement of a request other than its commit changes no committed row; what it
\* reads and writes leads to a live latest version.
LEMMA StatementKey ==
    ASSUME IInv, NEW r \in Requests, RequestStep(r), ~Commit(r),
           NEW k \in Keys, KeyInv(k), ~Overlapping(k)'
    PROVE  KeyInv(k)'
  <1> USE DEF dbVars, blobVars, workerVars, Goto
  <1>1. /\ rows' = rows
        /\ \A q \in Requests : q # r => /\ req'[q] = req[q] /\ pc'[q] = pc[q]
                                        /\ tgt'[q] = tgt[q] /\ ovl'[q] = ovl[q]
    BY DEF IInv, TypeOK, RequestStep, PutBlob, DeleteCheck, RestoreStart, SelectVersion, Begin,
           RemoveRow, DemoteScan, Demote, Insert, PromoteScan, Promote, DeleteBlob, Abort
  <1>2. CASE req'[r].key # k
    <2>1. \A q \in Requests : req'[q].key = k => q # r
      BY <1>2
    <2> QED
      BY <1>1, <2>1, ElsewhereInv
  <1>3. CASE req'[r].key = k
    <2>1. \A q \in On(k)' : q = r
      BY <1>3 DEF Overlapping, On
    <2>2. RowsOf(k)' = RowsOf(k)
      BY <1>1 DEF RowsOf
    <2>3. /\ pc \in [Requests -> Steps] /\ req \in [Requests -> Request]
          /\ tgt \in [Requests -> SUBSET TxId] /\ ovl \in [Requests -> [TxId -> Writes]]
          /\ TsInv /\ LockInv /\ TargetInv
      BY DEF IInv, TypeOK
    <2>4. SUFFICES
            /\ pc'[r] = "remove" /\ ~req'[r].isLatest => \A x \in tgt'[r] : ~rows[x].latest
            /\ pc'[r] = "promote" => (\E x \in tgt'[r] : rows[x].st = "live")
                                     \/ \A x \in RowsOf(k) : rows[x].st = "live" => ovl'[r][x] = "remove"
            /\ pc'[r] = "commit" => LeavesLatest(r, k)'
      BY <1>1, <2>1, <2>2 DEF KeyInv, RemovesLive
    <2>5. CASE \/ \E x \in Keys, p \in Paths, m \in PutModes : PutBlob(r, x, p, m)
               \/ \E x \in Keys : DeleteCheck(r, x) \/ RestoreStart(r, x)
               \/ Begin(r) \/ DemoteScan(r) \/ DeleteBlob(r) \/ Abort(r)
      BY <2>3, <2>5 DEF PutBlob, DeleteCheck, RestoreStart, Begin, DemoteScan, DeleteBlob, Abort
    <2>6. ASSUME NEW x \in TxId, SelectVersion(r, x)
          PROVE  pc'[r] = "remove" /\ tgt'[r] = {x} /\ req'[r].isLatest = rows[x].latest
      BY <2>3, <2>6 DEF SelectVersion, NewRequest
    <2>7. CASE RemoveRow(r)
      <3>1. req'[r] = req[r] /\ r \in On(k) /\ pc[r] = "remove"
        BY <1>3, <2>7 DEF RemoveRow, On
      <3>2. pc'[r] = "commit" \/ pc'[r] = "demoteScan"
        BY <2>3, <2>7 DEF RemoveRow
      <3>3. CASE pc'[r] = "commit"
        <4>1. ~req[r].isLatest
          BY <2>3, <2>7, <3>3 DEF RemoveRow
        <4>2. \A x \in tgt[r] : ~rows[x].latest
          BY <3>1, <4>1 DEF KeyInv
        <4>3. \A x \in TxId : ovl[r][x] = "none"
          BY <2>3, <3>1 DEF LockInv
        <4>4. \A x \in TxId : ovl'[r][x] # "none" => ovl'[r][x] = "remove" /\ x \in tgt[r]
          BY <2>3, <2>7, <4>3 DEF RemoveRow
        <4>5. LeavesLatest(r, k)'
          BY <1>1, <4>2, <4>4 DEF LeavesLatest
        <4> QED
          BY <3>3, <4>5
      <3> QED
        BY <3>2, <3>3
    <2>8. CASE Demote(r)
      BY <2>3, <2>8 DEF Demote
    <2>9. CASE Insert(r)
      <3>1. req[r].ts \in TxId
        BY <2>3, <2>9, MaxTxAssumption DEF Insert, TsInv, Pending, IInv, TypeOK, TxId
      <3>2. ovl'[r][req[r].ts] = "insert" /\ pc'[r] = "commit"
        BY <2>3, <2>9, <3>1 DEF Insert
      <3> QED
        BY <3>1, <3>2 DEF LeavesLatest
    <2>10. CASE PromoteScan(r)
      <3>1. ovl' = ovl /\ req' = req
        BY <2>10 DEF PromoteScan
      <3>2. CASE Candidates(r) = {} /\ req[r].op = "deleteVersion" /\ pc' = [pc EXCEPT ![r] = "commit"]
        <4>1. \A x \in RowsOf(k) : rows[x].st = "live" => ovl[r][x] = "remove"
          BY <1>3, <3>1, <3>2 DEF Candidates, Visible, RowsOf
        <4>2. RemovesLive(r, k)'
          BY <1>1, <2>2, <3>1, <4>1 DEF RemovesLive
        <4> QED
          BY <2>3, <3>2, <4>2 DEF LeavesLatest
      <3>3. ASSUME NEW x \in Candidates(r), tgt' = [tgt EXCEPT ![r] = {x}],
                   pc' = [pc EXCEPT ![r] = "promote"]
            PROVE  pc'[r] = "promote" /\ \E y \in tgt'[r] : rows[y].st = "live"
        BY <2>3, <3>3 DEF Candidates
      <3> QED
        BY <2>10, <3>2, <3>3 DEF PromoteScan
    <2>11. CASE Promote(r)
      <3>1. req'[r] = req[r] /\ r \in On(k) /\ pc[r] = "promote" /\ pc'[r] = "commit"
        BY <1>3, <2>3, <2>11 DEF Promote, On
      <3>2. \A x \in TxId : ovl'[r][x] =
                IF x \in tgt[r] /\ rows[x].st # "absent" THEN "promote" ELSE ovl[r][x]
        BY <2>3, <2>11 DEF Promote
      <3>3. CASE \E x \in tgt[r] : rows[x].st = "live"
        BY <1>1, <2>3, <3>1, <3>2, <3>3 DEF LeavesLatest
      <3>4. CASE ~ \E x \in tgt[r] : rows[x].st = "live"
        <4>1. RemovesLive(r, k)
          BY <3>1, <3>4 DEF KeyInv
        <4>2. \A x \in RowsOf(k) : rows[x].st = "live" => x \in TxId /\ x \notin tgt[r]
          BY <3>4 DEF RowsOf
        <4>3. RemovesLive(r, k)'
          BY <1>1, <2>2, <3>2, <4>1, <4>2 DEF RemovesLive
        <4> QED
          BY <3>1, <4>3 DEF LeavesLatest
      <3> QED
        BY <3>3, <3>4
    <2> QED
      BY <2>5, <2>6, <2>7, <2>8, <2>9, <2>10, <2>11 DEF RequestStep
  <1> QED
    BY <1>2, <1>3

\* A commit gives its key the latest version it prepared, and touches no other key.
LEMMA CommitKey ==
    ASSUME IInv, NEW r \in Requests, Commit(r), NEW k \in Keys, KeyInv(k)
    PROVE  KeyInv(k)'
  <1>1. /\ \A q \in Requests : q # r => /\ req'[q] = req[q] /\ pc'[q] = pc[q]
                                        /\ tgt'[q] = tgt[q] /\ ovl'[q] = ovl[q]
        /\ pc'[r] \in {"cleanup", "idle"} /\ req'[r] \in {req[r], NoRequest}
        /\ pc[r] = "commit"
    BY DEF Commit, Goto, IInv, TypeOK
  <1>2. NoRequest.key \notin Keys /\ NoRow.st = "absent" /\ ~NoRow.latest
    BY NoneAssumption DEF NoRequest, NewRequest, NoRow
  <1>3. \A y \in TxId : ovl[r][y] \in Writes
    BY DEF IInv, TypeOK
  <1>4. CASE req[r].key # k
    <2>1. \A q \in Requests : req'[q].key = k => q # r
      BY <1>1, <1>2, <1>4
    <2>2. \A x \in TxId : \/ rows'[x] = rows[x]
                          \/ /\ rows[x].key # k \/ rows[x].st = "absent"
                             /\ rows'[x].key # k \/ rows'[x].st = "absent"
      BY <1>2, <1>3, <1>4, CommitRows DEF Writes
    <2>3. ASSUME NEW q \in Requests, NEW x \in TxId, req'[q].key = k, x \in tgt[q] \/ ovl[q][x] # "none",
                 rows'[x].latest
          PROVE  rows[x].latest
      <3>1. q # r /\ req[q].key = k /\ pc[r] # "idle"
        BY <1>1, <2>1, <2>3
      <3>2. CASE ovl[q][x] # "none"
        <4>1. ovl[r][x] = "none"
          BY <3>1, <3>2 DEF IInv, LockInv
        <4> QED
          BY <2>3, <4>1, CommitRows
      <3>3. CASE x \in tgt[q]
        <4>1. ~Reserved(x) /\ (rows[x].st # "absent" => rows[x].key = k)
          BY <3>1, <3>3 DEF IInv, TargetInv
        <4>2. ovl[r][x] # "insert"
          BY <4>1 DEF IInv, LockInv, Reserved
        <4>3. ovl[r][x] \notin {"demote", "promote", "remove"}
          BY <1>4, <4>1 DEF IInv, LockInv
        <4>4. ovl[r][x] = "none"
          BY <1>3, <4>2, <4>3 DEF Writes
        <4> QED
          BY <2>3, <4>4, CommitRows
      <3> QED
        BY <2>3, <3>2, <3>3
    <2> QED
      BY <1>1, <2>1, <2>2, <2>3, ElsewhereInv
  <1>5. CASE req[r].key = k
    <2>1. r \in On(k) /\ \A q \in On(k) : q = r
      BY <1>5 DEF KeyInv, On
    <2>2. \A q \in On(k)' : q = r
      BY <1>1, <2>1 DEF On
    <2>3. LeavesLatest(r, k)
      BY <1>1, <2>1 DEF KeyInv
    <2>4. (\E x \in RowsOf(k)' : rows'[x].st = "live")
              => \E x \in RowsOf(k)' : rows'[x].st = "live" /\ rows'[x].latest
      <3>1. CASE \E x \in TxId : ovl[r][x] = "insert"
        <4>1. PICK x \in TxId : ovl[r][x] = "insert"
          BY <3>1
        <4>2. rows'[x].st = "live" /\ rows'[x].key = k /\ rows'[x].latest
          BY <1>5, <4>1, CommitRows
        <4> QED
          BY <4>2 DEF RowsOf
      <3>2. CASE \E x \in TxId : ovl[r][x] = "promote" /\ rows[x].st = "live"
        <4>1. PICK x \in TxId : ovl[r][x] = "promote" /\ rows[x].st = "live"
          BY <3>2
        <4>2. rows'[x].st = "live" /\ rows'[x].key = k /\ rows'[x].latest
          BY <1>5, <4>1, CommitRows
        <4> QED
          BY <4>2 DEF RowsOf
      <3>3. CASE RemovesLive(r, k) /\ \A x \in TxId : ovl[r][x] # "insert"
        <4>1. \A x \in TxId : ~(rows'[x].st = "live" /\ rows'[x].key = k)
          <5> SUFFICES ASSUME NEW x \in TxId, rows'[x].st = "live", rows'[x].key = k PROVE FALSE
            OBVIOUS
          <5>1. ovl[r][x] # "remove"
            BY <1>2, CommitRows
          <5>2. rows[x].st = "live" /\ rows[x].key = k
            BY <1>3, <3>3, <5>1, CommitRows DEF Writes
          <5> QED
            BY <3>3, <5>1, <5>2 DEF RemovesLive, RowsOf
        <4> QED
          BY <4>1 DEF RowsOf
      <3>4. CASE \A x \in TxId : ovl[r][x] # "none" => ovl[r][x] = "remove" /\ ~rows[x].latest
        <4> SUFFICES ASSUME NEW x \in RowsOf(k)', rows'[x].st = "live"
                     PROVE  \E y \in RowsOf(k)' : rows'[y].st = "live" /\ rows'[y].latest
          OBVIOUS
        <4>1. x \in TxId /\ rows'[x].key = k
          BY DEF RowsOf
        <4>2. ovl[r][x] = "none" /\ rows'[x] = rows[x]
          BY <1>2, <3>4, <4>1, CommitRows
        <4>3. x \in RowsOf(k) /\ rows[x].st = "live"
          BY <4>1, <4>2 DEF RowsOf
        <4>4. PICK y \in RowsOf(k) : rows[y].st = "live" /\ rows[y].latest
          BY <4>3 DEF KeyInv
        <4>5. y \in TxId /\ rows'[y] = rows[y]
          BY <3>4, <4>4, CommitRows DEF RowsOf
        <4> QED
          BY <4>4, <4>5 DEF RowsOf
      <3> QED
        BY <2>3, <3>1, <3>2, <3>3, <3>4 DEF LeavesLatest
    <2> QED
      BY <1>1, <2>2, <2>4 DEF KeyInv
  <1> QED
    BY <1>4, <1>5

\* A worker removes no version that is not soft-deleted; the deletion of the bucket
\* removes every row.
LEMMA LiveRowsStay ==
    ASSUME IInv,
           \/ \E x \in TxId, h \in HoldInputs : SetLegalHold(x, h)
           \/ \E x \in TxId : RetentionEnds(x)
           \/ \E S \in SUBSET TxId : ApplyLifecycleExpirations(S)
           \/ PurgeRow
           \/ PurgeAbort
           \/ ScanSelect
           \/ \E x \in TxId, v \in Verdicts, mode \in ScanModes : ScanVerdict(x, v, mode)
           \/ ScanAbort
           \/ BucketCount
           \/ BucketDelete
           \/ BucketAbort
    PROVE  \/ \A y \in TxId : rows[y].st = "live" => rows'[y].st # "absent"
           \/ \A y \in TxId : rows'[y] = NoRow
  <1> USE DEF dbVars, blobVars, txVars, workerVars
  <1>1. rows \in [TxId -> Row]
    BY DEF IInv, TypeOK
  <1>2. CASE BucketDelete
    BY <1>2 DEF BucketDelete
  <1>3. CASE PurgeRow
    <2>1. \A y \in TxId : rows'[y] = rows[y] \/ rows[y].st = "deleted"
      BY <1>1, <1>3 DEF PurgeRow
    <2> QED
      BY <2>1
  <1>4. ASSUME NEW x \in TxId, NEW v \in Verdicts, NEW mode \in ScanModes, ScanVerdict(x, v, mode)
        PROVE  \A y \in TxId : rows[y].st = "live" => rows'[y].st # "absent"
    <2>1. CASE rows[x].st = "absent"
      <3>1. rows' = rows
        BY <1>4, <2>1 DEF ScanVerdict
      <3> QED
        BY <3>1
    <2>2. CASE rows[x].st # "absent"
      <3> DEFINE w == IF rows[x].path \in blobs THEN v ELSE "scan-failed"
                 s == IF w = "infected" /\ mode = "enforcement" THEN "deleted" ELSE rows[x].st
      <3>1. /\ s \in {rows[x].st, "deleted"}
            /\ rows' = [rows EXCEPT ![x] = [rows[x] EXCEPT !.scan = w, !.st = s]]
        BY <1>4, <2>2 DEF ScanVerdict
      <3> HIDE DEF w, s
      <3>2. rows'[x] = [rows[x] EXCEPT !.scan = w, !.st = s] /\ \A y \in TxId : y # x => rows'[y] = rows[y]
        BY <1>1, <3>1
      <3>3. rows'[x].st = s
        BY <1>1, <3>2 DEF Row
      <3> QED
        BY <2>2, <3>1, <3>2, <3>3
    <2> QED
      BY <2>1, <2>2
  <1>5. ASSUME NEW x \in TxId, NEW h \in HoldInputs, SetLegalHold(x, h)
        PROVE  \A y \in TxId : rows[y].st = "live" => rows'[y].st # "absent"
    BY <1>1, <1>5 DEF SetLegalHold, Row
  <1>6. ASSUME NEW x \in TxId, RetentionEnds(x)
        PROVE  \A y \in TxId : rows[y].st = "live" => rows'[y].st # "absent"
    BY <1>1, <1>6 DEF RetentionEnds, Row
  <1>7. ASSUME NEW S \in SUBSET TxId, ApplyLifecycleExpirations(S)
        PROVE  \A y \in TxId : rows[y].st = "live" => rows'[y].st # "absent"
    BY <1>1, <1>7 DEF ApplyLifecycleExpirations, Row
  <1>8. CASE PurgeAbort \/ ScanSelect \/ ScanAbort \/ BucketCount \/ BucketAbort
    BY <1>8 DEF PurgeAbort, ScanSelect, ScanAbort, BucketCount, BucketAbort, dbVars
  <1> QED
    BY <1>2, <1>3, <1>4, <1>5, <1>6, <1>7, <1>8

\* A background job that takes no latest version from a key, nor one a request may be
\* promoting, keeps what is said of the key.
LEMMA BackgroundKey ==
    ASSUME IInv, Background, NEW k \in Keys, KeyInv(k), ~TakesAway(k),
           \/ \A y \in TxId : rows[y].st = "live" => rows'[y].st # "absent"
           \/ \A y \in TxId : rows'[y] = NoRow
    PROVE  KeyInv(k)'
  <1>1. req' = req /\ pc' = pc /\ tgt' = tgt /\ ovl' = ovl
    BY DEF Background
  <1>2. NoRow.st = "absent" /\ ~NoRow.latest
    BY DEF NoRow
  <1>3. CASE \A y \in TxId : rows'[y] = NoRow
    <2>1. \A r \in Requests : tgt[r] \subseteq TxId
      BY DEF IInv, TypeOK
    <2>2. RowsOf(k)' = {} /\ On(k)' = On(k) /\ On(k) \subseteq Requests
      BY <1>1, <1>2, <1>3 DEF RowsOf, On
    <2>3. \A r \in On(k) : RemovesLive(r, k)' /\ LeavesLatest(r, k)'
      BY <2>2 DEF RemovesLive, LeavesLatest
    <2> QED
      BY <1>1, <1>2, <1>3, <2>1, <2>2, <2>3 DEF KeyInv
  <1>4. CASE \A y \in TxId : rows[y].st = "live" => rows'[y].st # "absent"
    <2>1. \A x \in TxId : rows'[x].st = "live" /\ rows'[x].key = k
              => rows[x].st = "live" /\ rows[x].key = k
      BY <1>2 DEF Background
    <2>2. ASSUME NEW x \in TxId, rows[x].st = "live", rows[x].key = k, rows[x].latest \/ On(k) # {}
          PROVE  rows'[x].st = "live" /\ rows'[x].key = k /\ (rows[x].latest => rows'[x].latest)
      <3>1. rows'[x].st # "deleted"
        BY <2>2 DEF TakesAway, RowsOf
      <3> QED
        BY <1>2, <1>4, <2>2, <3>1 DEF Background
    <2>3. \A x \in TxId : rows'[x].latest => rows[x].latest
      BY <1>2 DEF Background
    <2> QED
      BY <1>1, <2>1, <2>2, <2>3, ElsewhereInv
  <1> QED
    BY <1>3, <1>4

\* Every step keeps what is said of a key it does not disturb.
LEMMA NextKey ==
    ASSUME IInv, Next, NEW k \in Keys, KeyInv(k), ~Overlapping(k)', ~TakesAway(k)
    PROVE  KeyInv(k)'
  <1>1. ASSUME NEW r \in Requests, RequestStep(r)
        PROVE  KeyInv(k)'
    BY <1>1, StatementKey, CommitKey
  <1>2. CASE \/ \E S \in SUBSET TxId : PurgeSelect(S)
             \/ \E c \in purge.cand : PurgeBlob(c)
    <2>1. rows' = rows /\ req' = req /\ pc' = pc /\ tgt' = tgt /\ ovl' = ovl
      BY <1>2 DEF PurgeSelect, PurgeBlob, dbVars, txVars
    <2> QED
      BY <2>1, ElsewhereInv
  <1> QED
    BY <1>1, <1>2, WorkerStep, LiveRowsStay, BackgroundKey DEF Next

\* The invariants, with the history, hold from the start.
LEMMA InitSuccessors == HInit => IInv /\ SuccessorInv
  <1> SUFFICES ASSUME HInit PROVE SuccessorInv
    BY InitInv DEF HInit
  <1>1. NoRow.st = "absent" /\ NoRequest.key \notin Keys
    BY NoneAssumption DEF NoRow, NoRequest, NewRequest
  <1>2. ASSUME NEW k \in Keys
        PROVE  RowsOf(k) = {} /\ On(k) = {}
    BY <1>1 DEF HInit, Init, RowsOf, On
  <1> QED
    BY <1>2 DEF SuccessorInv, KeyInv

\* Every step keeps them.
LEMMA NextSuccessors ==
    IInv /\ SuccessorInv /\ [HNext]_<<vars, disturbed>> => IInv' /\ SuccessorInv'
  <1> SUFFICES ASSUME IInv, SuccessorInv, [HNext]_<<vars, disturbed>>
               PROVE  IInv' /\ SuccessorInv'
    OBVIOUS
  <1>1. CASE HNext
    <2>1. IInv'
      BY <1>1, NextInv DEF HNext
    <2>2. ASSUME NEW k \in Keys \ disturbed'
          PROVE  KeyInv(k)'
      <3>1. k \in Keys \ disturbed /\ ~Overlapping(k)' /\ ~TakesAway(k)
        BY <1>1 DEF HNext
      <3> QED
        BY <1>1, <3>1, NextKey DEF HNext, SuccessorInv
    <2> QED
      BY <2>1, <2>2 DEF SuccessorInv
  <1>2. CASE UNCHANGED <<vars, disturbed>>
    <2>1. IInv'
      BY <1>2, NextInv
    <2>2. ASSUME NEW k \in Keys, KeyInv(k)
          PROVE  KeyInv(k)'
      BY <1>2, <2>2 DEF vars, KeyInv, On, RowsOf, RemovesLive, LeavesLatest
    <2> QED
      BY <1>2, <2>1, <2>2 DEF SuccessorInv
  <1> QED
    BY <1>1, <1>2

\* DeleteVersion, RestoreLatest, overwrites and failed requests leave a key with a live
\* version also a live latest one, as long as requests on that key come one at a time
\* and no job soft-deletes its latest version: DeleteVersion promotes a successor in the
\* transaction that removes the latest row, and from rows nobody else is changing.
THEOREM SuccessorsAreLeft == HSpec => []LiveKeyHasLatest
  <1>1. SuccessorInv => LiveKeyHasLatest
    BY DEF SuccessorInv, KeyInv, LiveKeyHasLatest
  <1> QED
    BY InitSuccessors, NextSuccessors, <1>1, PTL DEF HSpec
=============================================================================
