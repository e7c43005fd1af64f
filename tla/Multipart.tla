----------------------------- MODULE Multipart -----------------------------
(***************************************************************************)
(* Multipart uploads (package multipart): Initiate, PutPart, Complete,     *)
(* Abort and the worker's CleanupExpired, over the tables                  *)
(* multipart_uploads and multipart_upload_parts and the part blobs.        *)
(*                                                                         *)
(* The blob of a part lies at a path made of its upload and its number, so *)
(* a repeated PutPart overwrites it: the local store truncates the file    *)
(* and writes it again, the distributed one writes one endpoint after the  *)
(* other and deletes what it wrote when one of them fails.  No statement   *)
(* runs in a transaction with another one.  objects.Put (module            *)
(* ObjectStore) is one step here.  The list of part numbers a client       *)
(* completes with is strictly ascending, so it is a set; any other list is *)
(* refused before anything happens.                                        *)
(***************************************************************************)
EXTENDS Integers

CONSTANTS
    Requests,   \* API requests
    Worker,     \* the worker's run of CleanupExpired
    Uploads,    \* uploads that may be initiated
    NumParts,   \* largest part number
    Contents,   \* payloads of parts
    Inputs,     \* the part numbers and payloads that clients send
    None,       \* no content, no upload
    MaxFaults   \* bound: failed statements, failed blob operations, crashes

ASSUME WorkerAssumption == Worker \notin Requests
ASSUME NumPartsAssumption == NumParts \in Nat \ {0}
ASSUME NoContentAssumption == None \notin Contents \cup Uploads
ASSUME MultipartFaultsAssumption == MaxFaults \in Nat

Procs == Requests \cup {Worker}
Numbers == 1..NumParts

ASSUME InputsAssumption == Inputs \subseteq Numbers \X Contents

VARIABLES
    upload,   \* the upload's row; "expired": expires_at has passed
    part,     \* etag column of each part row; None: no row
    blob,     \* what a Get of each part finds; None: nothing that can be read
    torn,     \* history: parts on whose blob a write failed or met another write
    closing,  \* history: uploads whose parts somebody began to delete
    overlap,  \* history: uploads on which two requests overlapped or a call failed
    made,     \* history: number of objects made of each upload
    pc,       \* next step of each process
    req,      \* local variables of each process
    faults    \* faults so far

tableVars == <<upload, part>>
vars == <<tableVars, blob, torn, closing, overlap, made, pc, req, faults>>

NoReq == [op |-> "none", up |-> None, n |-> 0, c |-> None, list |-> {},
          parts |-> {}, got |-> {}]

Init ==
    /\ upload = [u \in Uploads |-> "none"]
    /\ part = [u \in Uploads |-> [n \in Numbers |-> None]]
    /\ blob = [u \in Uploads |-> [n \in Numbers |-> None]]
    /\ torn = {}
    /\ closing = {}
    /\ overlap = {}
    /\ made = [u \in Uploads |-> 0]
    /\ pc = [r \in Procs |-> "idle"]
    /\ req = [r \in Procs |-> NoReq]
    /\ faults = 0

Goto(r, step) == pc' = [pc EXCEPT ![r] = step]

Return(r) == Goto(r, "idle") /\ req' = [req EXCEPT ![r] = NoReq]

Call(r, q, step) == Goto(r, step) /\ req' = [req EXCEPT ![r] = q]

\* A call on an upload begins, perhaps while another request is at it.
Enter(r, q, step) ==
    /\ Call(r, q, step)
    /\ overlap' = IF r \in Requests /\ \E p \in Requests \ {r} : req[p].up = q.up
                  THEN overlap \cup {q.up} ELSE overlap

\* Requests in the middle of writing a part.
Writing(u, n) == {r \in Requests : pc[r] = "putting" /\ req[r].up = u /\ req[r].n = n}

\* A write of a part goes wrong; somebody begins to delete the parts of an upload.  Of an upload that
\* is being removed torn keeps nothing.
Tear(u, n) == torn' = IF u \in closing THEN torn ELSE torn \cup {<<u, n>>}

Close(u) ==
    /\ closing' = closing \cup {u}
    /\ torn' = torn \ ({u} \X Numbers)

-----------------------------------------------------------------------------
Initiate(u) ==
    /\ upload[u] = "none"
    /\ upload' = [upload EXCEPT ![u] = "open"]
    /\ UNCHANGED <<part, blob, torn, closing, overlap, made, pc, req, faults>>

\* 24 hours have passed.
Expire(u) ==
    /\ upload[u] = "open"
    /\ upload' = [upload EXCEPT ![u] = "expired"]
    /\ UNCHANGED <<part, blob, torn, closing, overlap, made, pc, req, faults>>

\* getUpload: the row exists and has not expired.
PutPart(r, u, n, c) ==
    /\ pc[r] = "idle" /\ upload[u] = "open"
    /\ Enter(r, [NoReq EXCEPT !.op = "put", !.up = u, !.n = n, !.c = c], "putBlob")
    /\ UNCHANGED <<tableVars, blob, torn, closing, made, faults>>

\* storage.Put begins to overwrite: a Get still finds what the part held, at an endpoint not yet
\* written, or nothing.  Once it would find the new payload the write counts as ended.
PutOpen(r) ==
    LET u == req[r].up
        n == req[r].n
    IN
    /\ pc[r] = "putBlob"
    /\ \E c \in {blob[u][n], None} : blob' = [blob EXCEPT ![u][n] = c]
    /\ IF Writing(u, n) = {} THEN UNCHANGED torn ELSE Tear(u, n)
    /\ Goto(r, "putting")
    /\ UNCHANGED <<tableVars, closing, overlap, made, req, faults>>

\* Mutant: the error of storage.Put is ignored.
PutBlobIgnored(r) ==
    /\ pc[r] = "putting"
    /\ Goto(r, "putRow")
    /\ UNCHANGED <<tableVars, blob, torn, closing, overlap, made, req, faults>>

\* It ends: the part holds the payload, or nothing that can be read when another write or the
\* removal of its upload may have come between.
PutBlob(r) ==
    LET u == req[r].up
        n == req[r].n
    IN
    /\ pc[r] = "putting"
    /\ \E c \in {req[r].c} \cup (IF <<u, n>> \in torn \/ u \in closing THEN {None} ELSE {}) :
          blob' = [blob EXCEPT ![u][n] = c]
    /\ Goto(r, "putRow")
    /\ UNCHANGED <<tableVars, torn, closing, overlap, made, req, faults>>

\* Mutant: ON CONFLICT DO NOTHING.
PutRowOnce(r) ==
    /\ pc[r] = "putRow"
    /\ part' = IF upload[req[r].up] \in {"open", "expired"} /\ part[req[r].up][req[r].n] = None
               THEN [part EXCEPT ![req[r].up][req[r].n] = req[r].c] ELSE part
    /\ Return(r)
    /\ UNCHANGED <<upload, blob, torn, closing, overlap, made, faults>>

\* The upsert of the part.  Without the upload the foreign key refuses it; the
\* blob stays.
PutRow(r) ==
    /\ pc[r] = "putRow"
    /\ part' = IF upload[req[r].up] \in {"open", "expired"}
               THEN [part EXCEPT ![req[r].up][req[r].n] = req[r].c] ELSE part
    /\ Return(r)
    /\ UNCHANGED <<upload, blob, torn, closing, overlap, made, faults>>

-----------------------------------------------------------------------------
Complete(r, u, list) ==
    /\ pc[r] = "idle" /\ upload[u] = "open"
    /\ list # {}
    /\ Enter(r, [NoReq EXCEPT !.op = "complete", !.up = u, !.list = list], "list")
    /\ UNCHANGED <<tableVars, blob, torn, closing, made, faults>>

\* Abort looks at nothing but the parts.
Abort(r, u) ==
    /\ pc[r] = "idle" /\ upload[u] # "none"
    /\ Enter(r, [NoReq EXCEPT !.op = "abort", !.up = u], "list")
    /\ UNCHANGED <<tableVars, blob, torn, closing, made, faults>>

\* Mutant: uploads without parts are passed over.
CleanupExpiredWithParts(u) ==
    /\ pc[Worker] = "idle" /\ upload[u] = "expired"
    /\ \E n \in Numbers : part[u][n] # None
    /\ Enter(Worker, [NoReq EXCEPT !.op = "abort", !.up = u], "list")
    /\ UNCHANGED <<tableVars, blob, torn, closing, made, faults>>

\* The next of the expired uploads.
CleanupExpired(u) ==
    /\ pc[Worker] = "idle" /\ upload[u] = "expired"
    /\ Enter(Worker, [NoReq EXCEPT !.op = "abort", !.up = u], "list")
    /\ UNCHANGED <<tableVars, blob, torn, closing, made, faults>>

\* listParts.  Complete needs every number it was given.
ListParts(r) ==
    LET u == req[r].up
        found == {n \in Numbers : part[u][n] # None}
    IN
    /\ pc[r] = "list"
    /\ \/ /\ req[r].op = "complete" /\ req[r].list \subseteq found
          /\ Call(r, [req[r] EXCEPT !.parts = found], "read")
          /\ UNCHANGED <<torn, closing>>
       \/ /\ req[r].op = "complete" /\ ~(req[r].list \subseteq found)
          /\ Return(r)
          /\ UNCHANGED <<torn, closing>>
       \/ /\ req[r].op = "abort"
          /\ Call(r, [req[r] EXCEPT !.parts = found], "clean")
          /\ Close(u)
    /\ UNCHANGED <<tableVars, blob, overlap, made, faults>>

\* The next part; a blob that is not there ends the request.
ReadPart(r, n) ==
    LET c == blob[req[r].up][n] IN
    /\ pc[r] = "read"
    /\ n \in req[r].list /\ \A m \in req[r].list : n <= m
    /\ IF c = None THEN Return(r)
       ELSE Call(r, [req[r] EXCEPT !.list = @ \ {n}, !.got = @ \cup {<<n, c>>}],
                 IF req[r].list = {n} THEN "create" ELSE "read")
    /\ UNCHANGED <<tableVars, blob, torn, closing, overlap, made, faults>>

\* objects.Put with what has been read; the cleanup follows.
CreateObject(r) ==
    LET u == req[r].up IN
    /\ pc[r] = "create"
    /\ made' = [made EXCEPT ![u] = @ + 1]
    /\ req' = [req EXCEPT ![r].got = {}]
    /\ Close(u)
    /\ Goto(r, "clean")
    /\ UNCHANGED <<tableVars, blob, overlap, faults>>

\* cleanup: the blobs of the parts that were listed.
DeletePart(r, n) ==
    /\ pc[r] = "clean" /\ n \in req[r].parts /\ \A m \in req[r].parts : n <= m
    /\ blob' = [blob EXCEPT ![req[r].up][n] = None]
    /\ req' = [req EXCEPT ![r].parts = @ \ {n}]
    /\ UNCHANGED <<tableVars, torn, closing, overlap, made, pc, faults>>

\* Mutant: the parts are deleted, the upload is not.
DeleteUploadPartsOnly(r) ==
    /\ pc[r] = "clean" /\ req[r].parts = {}
    /\ part' = [part EXCEPT ![req[r].up] = [n \in Numbers |-> None]]
    /\ Return(r)
    /\ UNCHANGED <<upload, blob, torn, closing, overlap, made, faults>>

\* Then the row, and with it the rows of all its parts, listed or not.
DeleteUpload(r) ==
    /\ pc[r] = "clean" /\ req[r].parts = {}
    /\ upload' = [upload EXCEPT ![req[r].up] = "gone"]
    /\ part' = [part EXCEPT ![req[r].up] = [n \in Numbers |-> None]]
    /\ Return(r)
    /\ UNCHANGED <<blob, torn, closing, overlap, made, faults>>

Faulty == faults < MaxFaults /\ faults' = faults + 1

\* A statement or a blob operation fails, or the process dies.
Fails(r) ==
    /\ pc[r] # "idle" /\ pc[r] # "putting" /\ Faulty
    /\ overlap' = overlap \cup {req[r].up}
    /\ Return(r)
    /\ UNCHANGED <<tableVars, blob, torn, closing, made>>

\* The same in the middle of storage.Put: the file was truncated, or putToEndpoints deletes what it
\* wrote, the endpoints after the failed one keeping what they had.
PutFails(r) ==
    LET u == req[r].up
        n == req[r].n
    IN
    /\ pc[r] = "putting" /\ Faulty
    /\ \E c \in {blob[u][n], None} : blob' = [blob EXCEPT ![u][n] = c]
    /\ Tear(u, n)
    /\ overlap' = overlap \cup {u}
    /\ Return(r)
    /\ UNCHANGED <<tableVars, closing, made>>

\* cleanup ignores a blob that cannot be deleted.
DeletePartFails(r, n) ==
    /\ pc[r] = "clean" /\ n \in req[r].parts /\ Faulty
    /\ req' = [req EXCEPT ![r].parts = @ \ {n}]
    /\ UNCHANGED <<tableVars, blob, torn, closing, overlap, made, pc>>

-----------------------------------------------------------------------------
Step(r) ==
    \/ PutOpen(r)
    \/ PutBlob(r)
    \/ PutRow(r)
    \/ ListParts(r)
    \/ \E n \in Numbers : ReadPart(r, n)
    \/ CreateObject(r)
    \/ \E n \in Numbers : DeletePart(r, n)
    \/ DeleteUpload(r)

Next ==
    \/ \E u \in Uploads : Initiate(u)
    \/ \E u \in Uploads : Expire(u)
    \/ \E r \in Requests, u \in Uploads, i \in Inputs : PutPart(r, u, i[1], i[2])
    \/ \E r \in Requests, u \in Uploads, list \in SUBSET Numbers : Complete(r, u, list)
    \/ \E r \in Requests, u \in Uploads : Abort(r, u)
    \/ \E u \in Uploads : CleanupExpired(u)
    \/ \E r \in Procs : Step(r)
    \/ \E r \in Procs : Fails(r)
    \/ \E r \in Procs : PutFails(r)
    \/ \E r \in Procs, n \in Numbers : DeletePartFails(r, n)

Spec == Init /\ [][Next]_vars

\* Time passes, the cleanup job recurs (JobQueue) and a run of it that has begun goes on.  Nothing is
\* assumed of the clients, nor of the requests they have made.
Fairness ==
    /\ WF_vars(Step(Worker))
    /\ \A u \in Uploads : WF_vars(Expire(u)) /\ SF_vars(CleanupExpired(u))

FairSpec == Spec /\ Fairness

-----------------------------------------------------------------------------
\* Types of the tables, the blobs and the calls.  An object is made of parts
\* with contents: Complete never reads a part that was not stored.
TypeOK ==
    /\ upload \in [Uploads -> {"none", "open", "expired", "gone"}]
    /\ part \in [Uploads -> [Numbers -> Contents \cup {None}]]
    /\ blob \in [Uploads -> [Numbers -> Contents \cup {None}]]
    /\ torn \subseteq Uploads \X Numbers
    /\ closing \subseteq Uploads /\ overlap \subseteq Uploads
    /\ made \in [Uploads -> Nat]
    /\ \A r \in Procs : req[r].got \subseteq Numbers \X Contents
    /\ pc \in [Procs -> {"idle", "putBlob", "putting", "putRow", "list", "read", "create", "clean"}]
    /\ faults \in 0..MaxFaults

\* A part that is recorded can be read until somebody completes, aborts or cleans up its upload:
\* PutPart records only what storage.Put has stored, and requests at other parts and uploads do not
\* reach it.  Repeating a PutPart is the exception: while it writes, after it failed or was cut off
\* in the middle of the write, and once two of them have overlapped, the part may be lost although
\* its row is there (storage.LocalStore.Put truncates, DistributedStore.putToEndpoints deletes).
RecordedPartsReadable ==
    \A u \in Uploads \ closing, n \in Numbers :
        part[u][n] # None /\ Writing(u, n) = {} /\ <<u, n>> \notin torn => blob[u][n] # None

\* An upload becomes one object at most, however often Complete is called and
\* whatever the cleanup job does, as long as no two requests overlap on it and
\* none fails half way.  (Two Completes that overlap, or one repeated after its
\* cleanup failed, make two versions of it.)
OneObjectPerUpload == \A u \in Uploads \ overlap : made[u] <= 1

\* Under the same condition an object is made of the parts as the table has
\* them, each the last that was acknowledged, unless the upload has expired and
\* been removed since they were read.
CompletedFromRecordedParts ==
    [][\A r \in Requests : LET u == req[r].up IN
          pc[r] = "create" /\ pc'[r] = "clean" /\ u \notin overlap /\ upload[u] # "gone" =>
              \A p \in req[r].got : part[u][p[1]] = p[2]]_vars

\* No upload stays: completed, aborted or forgotten, its row goes in the end.
EveryUploadRemoved == \A u \in Uploads : upload[u] = "open" ~> upload[u] = "gone"
=============================================================================
