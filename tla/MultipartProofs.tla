-------------------------- MODULE MultipartProofs --------------------------
(***************************************************************************)
(* Multipart uploads, for any number of requests, uploads, parts, payloads *)
(* and faults: a recorded part can be read until its upload is being       *)
(* removed or a repeated PutPart fails or overlaps another, and an upload  *)
(* that no two requests share becomes one object at most, made of the      *)
(* parts as the table has them.                                            *)
(***************************************************************************)
EXTENDS Multipart, TLAPS

-----------------------------------------------------------------------------
(* The inductive invariant.                                                *)

Request ==
    [op : {"none", "put", "complete", "abort"}, up : Uploads \cup {None}, n : Numbers \cup {0},
     c : Contents \cup {None}, list : SUBSET Numbers, parts : SUBSET Numbers,
     got : SUBSET (Numbers \X Contents)]

LocalTypes == req \in [Procs -> Request]

\* A call that is going on is at an upload that has a row or had one.  The
\* worker only cleans up, and who deletes parts has announced it.
CallInv ==
    \A r \in Procs :
        /\ pc[r] = "idle" => req[r].up = None
        /\ pc[r] # "idle" => req[r].up \in Uploads /\ upload[req[r].up] # "none"
        /\ pc[r] \in {"putBlob", "putting", "putRow"} => r \in Requests /\ req[r].n \in Numbers /\ req[r].c \in Contents
        /\ pc[r] = "clean" => req[r].up \in closing

\* A part whose blob nobody writes, has torn or removes.
Whole(u, n) == u \notin closing /\ Writing(u, n) = {} /\ <<u, n>> \notin torn

\* A request that may yet make an object.
Completing(r) == pc[r] \in {"read", "create"} \/ (pc[r] = "list" /\ req[r].op = "complete")

\* The worker makes none, and nothing is read before the rows are listed.
CompleteInv ==
    \A r \in Procs :
        /\ Completing(r) => r \in Requests
        /\ pc[r] = "list" => req[r].got = {}

\* PutPart records a part whose blob is there, and is its own, unless other writes came between.
PutInv ==
    \A r \in Procs :
        pc[r] = "putRow" =>
            /\ Whole(req[r].up, req[r].n) => blob[req[r].up][req[r].n] # None
            /\ req[r].up \notin overlap => blob[req[r].up][req[r].n] \in {None, req[r].c}

\* What overlap is a history of.
AloneInv ==
    \A r, k \in Requests :
        req[r].up = req[k].up /\ req[r].up \in Uploads \ overlap => r = k

\* Who makes the object removes the upload: until that is done the request is
\* at the upload, and afterwards the row is gone.
OnceInv ==
    \A u \in Uploads \ overlap :
        /\ made[u] # 0 =>
             upload[u] = "gone" \/ \E r \in Requests : pc[r] = "clean" /\ req[r].up = u
        /\ \A r \in Requests : Completing(r) /\ req[r].up = u => made[u] = 0

\* A blob is the one its row tells of, or a PutPart is about to write that row.
BlobInv ==
    \A u \in Uploads \ overlap, n \in Numbers :
        upload[u] # "gone" =>
            \/ blob[u][n] \in {None, part[u][n]}
            \/ \E r \in Requests : pc[r] = "putRow" /\ req[r].up = u /\ req[r].n = n
                                   /\ blob[u][n] = req[r].c

\* What Complete has read so far is what the rows tell of.
ReadInv ==
    \A r \in Requests : LET u == req[r].up IN
        pc[r] \in {"read", "create"} /\ u \notin overlap /\ upload[u] # "gone" =>
            \A p \in req[r].got : part[u][p[1]] = p[2]

IInv ==
    /\ TypeOK /\ LocalTypes
    /\ CallInv /\ CompleteInv
    /\ PutInv /\ RecordedPartsReadable
    /\ AloneInv /\ OnceInv /\ OneObjectPerUpload
    /\ BlobInv /\ ReadInv
-----------------------------------------------------------------------------
(* Steps of one process.                                                   *)

Steps == {"idle", "putBlob", "putting", "putRow", "list", "read", "create", "clean"}

Moves(r, p, q) == Goto(r, p) /\ req' = [req EXCEPT ![r] = q]

\* A step of one process leaves the others where they are.
LEMMA MoveFields ==
    ASSUME TypeOK, LocalTypes, NEW r \in Procs, NEW p \in Steps, NEW q \in Request, Moves(r, p, q)
    PROVE  /\ pc' \in [Procs -> Steps] /\ LocalTypes'
           /\ pc'[r] = p /\ req'[r] = q
           /\ \A k \in Procs \ {r} : pc'[k] = pc[k] /\ req'[k] = req[k]
  <1>1. pc \in [Procs -> Steps] /\ req \in [Procs -> Request]
    BY DEF TypeOK, LocalTypes, Steps
  <1> QED  BY <1>1 DEF Moves, Goto, LocalTypes

\* A part that is whole after a step of somebody who was not writing, or still is, was so before.
LEMMA WholeBefore ==
    ASSUME NEW r \in Procs, NEW u \in Uploads, NEW n \in Numbers,
           \A k \in Procs \ {r} : pc'[k] = pc[k] /\ req'[k] = req[k],
           pc[r] = "putting" => pc'[r] = "putting" /\ req'[r] = req[r],
           closing \subseteq closing', \A t \in torn : t \in torn' \/ t[1] \in closing',
           Whole(u, n)'
    PROVE  Whole(u, n)
  <1>1. Writing(u, n) \subseteq Writing(u, n)'
    BY DEF Writing, Procs
  <1> QED  BY <1>1 DEF Whole

\* The property is that recorded parts that are whole can be read.
LEMMA WholeParts ==
    RecordedPartsReadable <=>
        \A u \in Uploads, n \in Numbers : Whole(u, n) /\ part[u][n] # None => blob[u][n] # None
  BY DEF RecordedPartsReadable, Whole

LEMMA WholePartsNext ==
    RecordedPartsReadable' <=>
        \A u \in Uploads, n \in Numbers : Whole(u, n)' /\ part'[u][n] # None => blob'[u][n] # None
  BY DEF RecordedPartsReadable, Whole

\* What a call that is not there looks like.
LEMMA NoCall == NoReq \in Request /\ NoReq.up = None /\ NoReq.got = {}
  BY DEF NoReq, Request

\* What processes have read is of the type that parts have.
LEMMA GotTypes ==
    ASSUME NEW f \in [Procs -> Request]
    PROVE  \A r \in Procs : f[r].got \subseteq Numbers \X Contents
  BY DEF Request

\* Initially no upload has begun.
LEMMA InitInv == Init => IInv
  <1> SUFFICES ASSUME Init PROVE IInv
    OBVIOUS
  <1>1. TypeOK
    BY NoCall, MultipartFaultsAssumption DEF Init, TypeOK
  <1>2. LocalTypes
    BY NoCall DEF Init, LocalTypes
  <1>3. /\ \A r \in Procs : pc[r] = "idle" /\ req[r].up = None
        /\ \A u \in Uploads : made[u] = 0
        /\ \A u \in Uploads, n \in Numbers : part[u][n] = None /\ blob[u][n] = None
    BY NoCall DEF Init
  <1>4. CallInv /\ CompleteInv /\ PutInv /\ RecordedPartsReadable
    BY <1>3 DEF CallInv, CompleteInv, Completing, PutInv, RecordedPartsReadable
  <1>5. AloneInv /\ OnceInv /\ OneObjectPerUpload /\ BlobInv /\ ReadInv
    BY <1>3, NoContentAssumption
    DEF AloneInv, OnceInv, Completing, OneObjectPerUpload, BlobInv, ReadInv, Procs
  <1> QED  BY <1>1, <1>2, <1>4, <1>5 DEF IInv

\* A call begins.
LEMMA EnterInvariant ==
    ASSUME IInv, NEW r \in Procs, NEW q \in Request, NEW p \in {"putBlob", "list"},
           pc[r] = "idle", q.up \in Uploads, upload[q.up] # "none", q.got = {},
           p = "putBlob" => r \in Requests /\ q.n \in Numbers /\ q.c \in Contents,
           p = "list" /\ q.op = "complete" => r \in Requests /\ upload[q.up] = "open",
           Enter(r, q, p), UNCHANGED <<tableVars, blob, torn, closing, made, faults>>
    PROVE  IInv'
  <1>1. TypeOK /\ LocalTypes
    BY DEF IInv
  <1>2. p \in Steps /\ Moves(r, p, q)
    BY DEF Steps, Moves, Enter, Call
  <1>3. /\ pc' \in [Procs -> Steps] /\ LocalTypes'
        /\ pc'[r] = p /\ req'[r] = q
        /\ \A k \in Procs \ {r} : pc'[k] = pc[k] /\ req'[k] = req[k]
    BY <1>1, <1>2, MoveFields
  <1>4. /\ upload' = upload /\ part' = part /\ blob' = blob /\ torn' = torn
        /\ closing' = closing /\ made' = made /\ faults' = faults
    BY DEF tableVars
  <1>5. /\ overlap \subseteq overlap' /\ overlap' \subseteq Uploads
        /\ r \in Requests => \A k \in Requests \ {r} : req[k].up = q.up => q.up \in overlap'
    BY <1>1 DEF Enter, TypeOK
  <1>6. TypeOK'
    BY <1>1, <1>3, <1>4, <1>5, GotTypes DEF TypeOK, LocalTypes, Steps
  <1>7. CallInv'
    BY <1>3, <1>4 DEF IInv, CallInv
  <1>8. CompleteInv'
    BY <1>3, <1>4 DEF IInv, CompleteInv, Completing
  <1>9. PutInv' /\ RecordedPartsReadable'
    <2>1. \A u \in Uploads, n \in Numbers : Whole(u, n)' => Whole(u, n)
      BY <1>3, <1>4, WholeBefore
    <2>2. PutInv'
      BY <1>3, <1>4, <1>5, <2>1 DEF IInv, PutInv, CallInv
    <2> QED  BY <1>4, <2>1, <2>2, WholeParts, WholePartsNext DEF IInv
  <1>10. AloneInv'
    BY <1>3, <1>5 DEF IInv, AloneInv, Procs
  <1>11. OnceInv'
    <2> SUFFICES ASSUME NEW u \in Uploads \ overlap'
                 PROVE  /\ made[u] # 0 =>
                             upload[u] = "gone" \/ \E k \in Requests : pc'[k] = "clean" /\ req'[k].up = u
                        /\ \A k \in Requests : Completing(k)' /\ req'[k].up = u => made[u] = 0
      BY <1>4 DEF OnceInv
    <2>1. u \in Uploads \ overlap
      BY <1>5
    <2>2. ASSUME made[u] # 0, upload[u] # "gone"
          PROVE  \E k \in Requests \ {r} : pc[k] = "clean" /\ req[k].up = u
      BY <2>1, <2>2 DEF IInv, OnceInv
    <2>3. ASSUME NEW k \in Requests, Completing(k)', req'[k].up = u PROVE made[u] = 0
      <3>1. CASE k = r
        BY <1>3, <1>5, <2>2, <2>3, <3>1 DEF Completing
      <3>2. CASE k # r
        BY <1>3, <2>1, <2>3, <3>2 DEF IInv, OnceInv, Completing, Procs
      <3> QED  BY <3>1, <3>2
    <2> QED  BY <1>3, <2>2, <2>3 DEF Procs
  <1>12. OneObjectPerUpload'
    BY <1>4, <1>5 DEF IInv, OneObjectPerUpload
  <1>13. BlobInv'
    BY <1>3, <1>4, <1>5 DEF IInv, BlobInv, Procs
  <1>14. ReadInv'
    BY <1>3, <1>4, <1>5 DEF IInv, ReadInv, Procs
  <1> QED  BY <1>3, <1>6, <1>7, <1>8, <1>9, <1>10, <1>11, <1>12, <1>13, <1>14 DEF IInv

\* A process goes on, or returns, without touching tables or blobs.
LEMMA GoesOnInvariant ==
    ASSUME IInv, NEW r \in Procs, NEW q \in Request, NEW p \in {"idle", "read", "create", "clean"},
           Moves(r, p, q), UNCHANGED <<tableVars, blob, made>>, pc[r] # "putting",
           closing \subseteq closing', closing' \subseteq Uploads,
           torn' \subseteq Uploads \X Numbers, \A t \in torn : t \in torn' \/ t[1] \in closing',
           overlap \subseteq overlap', overlap' \subseteq Uploads, faults' \in 0..MaxFaults,
           IF p = "idle" THEN q.up = None ELSE pc[r] # "idle" /\ q.up = req[r].up,
           p = "clean" => q.up \in closing',
           p \in {"read", "create"} => Completing(r),
           pc[r] = "clean" => p = "clean" \/ req[r].up \in overlap',
           pc[r] = "putRow" => req[r].up \in overlap',
           p \in {"read", "create"} /\ q.up \notin overlap' /\ upload[q.up] # "gone" =>
               \A e \in q.got : part[q.up][e[1]] = e[2]
    PROVE  IInv'
  <1>1. TypeOK /\ LocalTypes
    BY DEF IInv
  <1>2. p \in Steps
    BY DEF Steps
  <1>3. /\ pc' \in [Procs -> Steps] /\ LocalTypes'
        /\ pc'[r] = p /\ req'[r] = q
        /\ \A k \in Procs \ {r} : pc'[k] = pc[k] /\ req'[k] = req[k]
    BY <1>1, <1>2, MoveFields
  <1>4. upload' = upload /\ part' = part /\ blob' = blob /\ made' = made
    BY DEF tableVars
  <1>5. TypeOK'
    BY <1>1, <1>3, <1>4, GotTypes DEF TypeOK, LocalTypes, Steps
  <1>6. CallInv'
    BY <1>3, <1>4 DEF IInv, CallInv
  <1>7. CompleteInv'
    BY <1>3 DEF IInv, CompleteInv, Completing
  <1>8. PutInv' /\ RecordedPartsReadable'
    <2>1. \A u \in Uploads, n \in Numbers : Whole(u, n)' => Whole(u, n)
      BY <1>3, WholeBefore
    <2>2. PutInv'
      BY <1>3, <1>4, <2>1 DEF IInv, PutInv, CallInv
    <2> QED  BY <1>4, <2>1, <2>2, WholeParts, WholePartsNext DEF IInv
  <1>9. q.up \notin Uploads \/ q.up = req[r].up
    BY NoContentAssumption
  <1>10. AloneInv'
    BY <1>3, <1>9 DEF IInv, AloneInv, Procs
  <1>11. OnceInv'
    <2> SUFFICES ASSUME NEW u \in Uploads \ overlap'
                 PROVE  /\ made[u] # 0 =>
                             upload[u] = "gone" \/ \E k \in Requests : pc'[k] = "clean" /\ req'[k].up = u
                        /\ \A k \in Requests : Completing(k)' /\ req'[k].up = u => made[u] = 0
      BY <1>4 DEF OnceInv
    <2>1. u \in Uploads \ overlap
      OBVIOUS
    <2>2. ASSUME NEW k \in Requests, pc[k] = "clean", req[k].up = u
          PROVE  pc'[k] = "clean" /\ req'[k].up = u
      BY <1>3, <2>2 DEF Procs
    <2>3. ASSUME NEW k \in Requests, Completing(k)', req'[k].up = u
          PROVE  Completing(k) /\ req[k].up = u
      BY <1>3, <1>9, <2>3 DEF Completing, Procs
    <2> QED  BY <2>1, <2>2, <2>3 DEF IInv, OnceInv
  <1>12. OneObjectPerUpload'
    BY <1>4 DEF IInv, OneObjectPerUpload
  <1>13. BlobInv'
    BY <1>3, <1>4 DEF IInv, BlobInv, Procs
  <1>14. ReadInv'
    BY <1>3, <1>4 DEF IInv, ReadInv, Procs
  <1> QED  BY <1>3, <1>5, <1>6, <1>7, <1>8, <1>10, <1>11, <1>12, <1>13, <1>14 DEF IInv
-----------------------------------------------------------------------------
(* The actions.                                                            *)

\* Initiate and the passing of 24 hours: no upload that is gone comes back.
LEMMA UploadInvariant ==
    ASSUME IInv, NEW u \in Uploads, Initiate(u) \/ Expire(u)
    PROVE  IInv'
  <1>1. /\ upload' \in [Uploads -> {"none", "open", "expired", "gone"}]
        /\ \A k \in Uploads : /\ upload'[k] = "gone" <=> upload[k] = "gone"
                              /\ upload[k] # "none" => upload'[k] # "none"
        /\ UNCHANGED <<part, blob, torn, closing, overlap, made, pc, req, faults>>
    BY DEF IInv, TypeOK, Initiate, Expire
  <1>2. TypeOK'
    BY <1>1 DEF IInv, TypeOK
  <1>3. LocalTypes' /\ CallInv' /\ CompleteInv'
    BY <1>1 DEF IInv, LocalTypes, CallInv, CompleteInv, Completing
  <1>4. PutInv' /\ RecordedPartsReadable' /\ AloneInv' /\ OneObjectPerUpload'
    BY <1>1 DEF IInv, PutInv, Whole, Writing, RecordedPartsReadable, AloneInv, OneObjectPerUpload
  <1>5. OnceInv'
    BY <1>1 DEF IInv, OnceInv, Completing
  <1>6. BlobInv'
    BY <1>1 DEF IInv, BlobInv
  <1>7. ReadInv'
    <2>1. \A r \in Requests : pc[r] # "idle" => req[r].up \in Uploads
      BY DEF IInv, CallInv, Procs
    <2> QED  BY <1>1, <2>1 DEF IInv, ReadInv
  <1> QED  BY <1>2, <1>3, <1>4, <1>5, <1>6, <1>7 DEF IInv

\* The blob of a part is being written, or has been and its row is next.
LEMMA WriteInvariant ==
    ASSUME IInv, NEW r \in Procs, NEW p \in {"putting", "putRow"}, NEW c \in Contents \cup {None},
           pc[r] = IF p = "putting" THEN "putBlob" ELSE "putting",
           Goto(r, p), UNCHANGED <<upload, part, closing, overlap, made, req, faults>>,
           blob' = [blob EXCEPT ![req[r].up][req[r].n] = c],
           torn \subseteq torn', torn' \subseteq Uploads \X Numbers,
           p = "putting" => c \in {blob[req[r].up][req[r].n], None},
           p = "putRow" => /\ c \in {req[r].c, None}
                           /\ c = None => <<req[r].up, req[r].n>> \in torn \/ req[r].up \in closing
    PROVE  IInv'
  <1>1. /\ pc[r] \in {"putBlob", "putting"} /\ req' = req /\ closing' = closing
        /\ upload' = upload /\ part' = part /\ overlap' = overlap /\ made' = made /\ faults' = faults
    OBVIOUS
  <1>0. PICK u \in Uploads, n \in Numbers : u = req[r].up /\ n = req[r].n
    BY <1>1 DEF IInv, CallInv
  <1>2. /\ TypeOK /\ LocalTypes
        /\ r \in Requests /\ req[r].c \in Contents /\ req[r].c # None /\ upload[u] # "none"
    BY <1>0, <1>1, NoContentAssumption DEF IInv, CallInv
  <1>3. /\ pc' \in [Procs -> Steps] /\ pc'[r] = p
        /\ \A k \in Procs \ {r} : pc'[k] = pc[k]
    BY <1>1, <1>2 DEF Goto, TypeOK, Steps
  <1>4. /\ blob' \in [Uploads -> [Numbers -> Contents \cup {None}]]
        /\ blob'[u][n] = c
        /\ \A v \in Uploads, m \in Numbers : v # u \/ m # n => blob'[v][m] = blob[v][m]
    BY <1>0, <1>2 DEF TypeOK
  <1>5. TypeOK' /\ LocalTypes'
    BY <1>1, <1>2, <1>3, <1>4 DEF TypeOK, LocalTypes, Steps
  <1>6. CallInv' /\ CompleteInv'
    BY <1>1, <1>2, <1>3 DEF IInv, CallInv, CompleteInv, Completing
  <1>7. ASSUME Whole(u, n)' PROVE blob'[u][n] # None
    <2>1. p = "putRow"
      BY <1>0, <1>1, <1>2, <1>3, <1>7 DEF Whole, Writing
    <2> QED  BY <1>0, <1>1, <1>2, <1>4, <1>7, <2>1 DEF Whole
  <1>8. ASSUME NEW v \in Uploads, NEW m \in Numbers, v # u \/ m # n, Whole(v, m)' PROVE Whole(v, m)
    <2>1. Writing(v, m) \subseteq Writing(v, m)'
      BY <1>0, <1>1, <1>2, <1>3, <1>8 DEF Writing, Procs
    <2> QED  BY <1>1, <1>8, <2>1 DEF Whole
  <1>9. \A k \in Requests \ {r} : req[k].up = u => u \in overlap
    BY <1>0, <1>2 DEF IInv, AloneInv
  <1>10. PutInv'
    <2> SUFFICES ASSUME NEW k \in Procs, pc'[k] = "putRow"
                 PROVE  /\ Whole(req[k].up, req[k].n)' => blob'[req[k].up][req[k].n] # None
                        /\ req[k].up \notin overlap => blob'[req[k].up][req[k].n] \in {None, req[k].c}
      BY <1>1 DEF PutInv
    <2>1. CASE k = r
      <3>1. p = "putRow" /\ c \in {None, req[k].c}
        BY <1>3, <2>1
      <3> QED  BY <1>0, <1>4, <1>7, <2>1, <3>1
    <2>2. CASE k # r
      <3>1. k \in Requests /\ req[k].up \in Uploads /\ req[k].n \in Numbers /\ pc[k] = "putRow"
        BY <1>3, <2>2 DEF IInv, CallInv
      <3>2. CASE req[k].up = u /\ req[k].n = n
        BY <1>7, <1>9, <2>2, <3>1, <3>2
      <3>3. CASE ~(req[k].up = u /\ req[k].n = n)
        BY <1>4, <1>8, <3>1, <3>3 DEF IInv, PutInv
      <3> QED  BY <3>2, <3>3
    <2> QED  BY <2>1, <2>2
  <1>11. RecordedPartsReadable'
    <2> SUFFICES ASSUME NEW v \in Uploads, NEW m \in Numbers, Whole(v, m)', part[v][m] # None
                 PROVE  blob'[v][m] # None
      BY <1>1, WholePartsNext
    <2>1. CASE v = u /\ m = n
      BY <1>7, <2>1
    <2>2. CASE ~(v = u /\ m = n)
      BY <1>4, <1>8, <2>2, WholeParts DEF IInv
    <2> QED  BY <2>1, <2>2
  <1>12. AloneInv' /\ OneObjectPerUpload'
    BY <1>1 DEF IInv, AloneInv, OneObjectPerUpload
  <1>13. OnceInv'
    BY <1>1, <1>3 DEF IInv, OnceInv, Completing, Procs
  <1>14. BlobInv'
    <2> SUFFICES ASSUME NEW v \in Uploads \ overlap, NEW m \in Numbers, upload[v] # "gone"
                 PROVE  \/ blob'[v][m] \in {None, part[v][m]}
                        \/ \E k \in Requests : pc'[k] = "putRow" /\ req[k].up = v /\ req[k].n = m
                                               /\ blob'[v][m] = req[k].c
      BY <1>1 DEF BlobInv
    <2>1. CASE v = u /\ m = n /\ p = "putRow"
      BY <1>2, <1>0, <1>3, <1>4, <2>1
    <2>2. CASE v = u /\ m = n /\ p = "putting"
      <3>1. \A k \in Requests : pc[k] = "putRow" => req[k].up # u
        BY <1>0, <1>1, <1>3, <1>9, <2>2
      <3>2. blob[u][n] \in {None, part[u][n]}
        BY <2>2, <3>1 DEF IInv, BlobInv
      <3> QED  BY <1>0, <1>1, <1>4, <2>2, <3>2
    <2>3. CASE ~(v = u /\ m = n)
      BY <1>1, <1>3, <1>4, <2>3 DEF IInv, BlobInv, Procs
    <2> QED  BY <2>1, <2>2, <2>3
  <1>15. ReadInv'
    BY <1>1, <1>3 DEF IInv, ReadInv, Procs
  <1> QED  BY <1>5, <1>6, <1>10, <1>11, <1>12, <1>13, <1>14, <1>15 DEF IInv

\* storage.Put begins, and ends.
LEMMA PutBlobInvariant ==
    ASSUME IInv, NEW r \in Procs
    PROVE  PutOpen(r) \/ PutBlob(r) => IInv'
  <1> DEFINE u == req[r].up
             n == req[r].n
  <1>1. TypeOK /\ (pc[r] \in {"putBlob", "putting"} => u \in Uploads /\ n \in Numbers /\ req[r].c \in Contents)
    BY DEF IInv, CallInv
  <1>2. ASSUME PutOpen(r) PROVE IInv'
    <2>1. /\ pc[r] = "putBlob" /\ Goto(r, "putting")
          /\ UNCHANGED <<upload, part, closing, overlap, made, req, faults>>
      BY <1>2 DEF PutOpen, tableVars
    <2>2. PICK c \in {blob[u][n], None} : blob' = [blob EXCEPT ![u][n] = c]
      BY <1>2 DEF PutOpen
    <2>3. c \in Contents \cup {None}
      BY <1>1, <2>1 DEF TypeOK
    <2>4. torn \subseteq torn' /\ torn' \subseteq Uploads \X Numbers
      <3>1. torn' = torn \/ torn' = torn \cup {<<u, n>>}
        BY <1>2 DEF PutOpen, Tear
      <3> QED  BY <1>1, <2>1, <3>1 DEF TypeOK
    <2> QED  BY <2>1, <2>2, <2>3, <2>4, WriteInvariant
  <1>3. ASSUME PutBlob(r) PROVE IInv'
    <2>1. /\ pc[r] = "putting" /\ Goto(r, "putRow") /\ torn' = torn
          /\ UNCHANGED <<upload, part, closing, overlap, made, req, faults>>
      BY <1>3 DEF PutBlob, tableVars
    <2>2. PICK c \in {req[r].c, None} : /\ blob' = [blob EXCEPT ![u][n] = c]
                                        /\ c = None => c = req[r].c \/ <<u, n>> \in torn \/ u \in closing
      BY <1>3 DEF PutBlob
    <2>3. /\ c \in Contents \cup {None} /\ torn \subseteq Uploads \X Numbers
          /\ c = None => <<u, n>> \in torn \/ u \in closing
      BY <1>1, <2>1, <2>2, NoContentAssumption DEF TypeOK
    <2> QED  BY <2>1, <2>2, <2>3, WriteInvariant
  <1> QED  BY <1>2, <1>3

\* The row of a part, which tells of the blob just stored; without the upload
\* there is no row.
LEMMA PutRowInvariant ==
    ASSUME IInv, NEW r \in Procs, PutRow(r)
    PROVE  IInv'
  <1> DEFINE u == req[r].up
             n == req[r].n
             c == req[r].c
  <1>1. /\ pc[r] = "putRow" /\ Moves(r, "idle", NoReq)
        /\ part' = IF upload[u] \in {"open", "expired"} THEN [part EXCEPT ![u][n] = c] ELSE part
        /\ UNCHANGED <<upload, blob, torn, closing, overlap, made, faults>>
    BY DEF PutRow, Return, Moves
  <1>2. /\ TypeOK /\ LocalTypes
        /\ r \in Requests /\ u \in Uploads /\ n \in Numbers /\ c \in Contents
        /\ upload[u] # "none"
    BY <1>1 DEF IInv, CallInv
  <1>3. Whole(u, n) => blob[u][n] # None
    BY <1>1 DEF IInv, PutInv
  <1>4. u \notin overlap => \A k \in Requests : req[k].up = u => k = r
    BY <1>2 DEF IInv, AloneInv
  <1>5. u \notin overlap => blob[u][n] \in {None, c}
    BY <1>1 DEF IInv, PutInv
  <1>6. ASSUME u \notin overlap, upload[u] # "gone", NEW m \in Numbers, m # n
        PROVE  blob[u][m] \in {None, part[u][m]}
    BY <1>2, <1>4, <1>6 DEF IInv, BlobInv
  <1> HIDE DEF u, n, c
  <1>7. /\ pc' \in [Procs -> Steps] /\ LocalTypes'
        /\ pc'[r] = "idle" /\ req'[r] = NoReq
        /\ \A k \in Procs \ {r} : pc'[k] = pc[k] /\ req'[k] = req[k]
    BY <1>1, <1>2, NoCall, MoveFields DEF Steps
  <1>8. /\ part' \in [Uploads -> [Numbers -> Contents \cup {None}]]
        /\ \A v \in Uploads, m \in Numbers :
             v # u \/ m # n => part'[v][m] = part[v][m]
        /\ upload[u] # "gone" => part'[u][n] = c
        /\ part'[u][n] \in {part[u][n], c}
    BY <1>1, <1>2 DEF TypeOK
  <1>9. TypeOK'
    BY <1>1, <1>2, <1>7, <1>8, GotTypes DEF TypeOK, LocalTypes, Steps
  <1>10. CallInv' /\ CompleteInv'
    BY <1>1, <1>7, NoCall DEF IInv, CallInv, CompleteInv, Completing
  <1>11. \A v \in Uploads, m \in Numbers : Whole(v, m)' => Whole(v, m)
    BY <1>1, <1>7, WholeBefore
  <1>12. PutInv' /\ RecordedPartsReadable'
    <2>1. PutInv'
      BY <1>1, <1>7, <1>11 DEF IInv, PutInv, CallInv
    <2> QED  BY <1>1, <1>2, <1>3, <1>8, <1>11, <2>1, WholeParts, WholePartsNext DEF IInv
  <1>13. AloneInv' /\ OneObjectPerUpload'
    BY <1>1, <1>7, NoCall, NoContentAssumption DEF IInv, AloneInv, OneObjectPerUpload, Procs
  <1>14. OnceInv'
    BY <1>1, <1>7 DEF IInv, OnceInv, Completing, Procs
  <1>15. BlobInv'
    <2> SUFFICES ASSUME NEW v \in Uploads \ overlap, NEW m \in Numbers, upload[v] # "gone"
                 PROVE  \/ blob[v][m] \in {None, part'[v][m]}
                        \/ \E k \in Requests : pc'[k] = "putRow" /\ req'[k].up = v /\ req'[k].n = m
                                               /\ blob[v][m] = req'[k].c
      BY <1>1 DEF BlobInv
    <2>1. CASE v = u /\ m # n
      BY <1>6, <1>8, <2>1
    <2>2. CASE v = u /\ m = n
      BY <1>5, <1>8, <2>2
    <2>3. CASE v # u
      <3>1. \A k \in Requests : req[k].up = v => req'[k] = req[k] /\ pc'[k] = pc[k]
        BY <1>7, <2>3 DEF Procs, u
      <3> QED  BY <1>8, <2>3, <3>1 DEF IInv, BlobInv
    <2> QED  BY <2>1, <2>2, <2>3
  <1>16. ReadInv'
    <2> SUFFICES ASSUME NEW k \in Requests, pc'[k] \in {"read", "create"}, req'[k].up \notin overlap,
                        upload[req'[k].up] # "gone", NEW e \in req'[k].got
                 PROVE  part'[req'[k].up][e[1]] = e[2]
      BY <1>1 DEF ReadInv
    <2>1. k # r /\ pc'[k] = pc[k] /\ req'[k] = req[k]
      BY <1>7 DEF Procs
    <2>2. req[k].up # u
      BY <1>4, <2>1
    <2>3. req[k].up \in Uploads
      BY <2>1 DEF IInv, CallInv, Procs
    <2>4. req[k].got \subseteq Numbers \X Contents
      BY <1>2, GotTypes DEF LocalTypes, Procs
    <2>5. e[1] \in Numbers
      BY <2>1, <2>4
    <2> QED  BY <1>8, <2>1, <2>2, <2>3, <2>5 DEF IInv, ReadInv
  <1> QED  BY <1>7, <1>9, <1>10, <1>12, <1>13, <1>14, <1>15, <1>16 DEF IInv

\* The rows are listed: for Complete to read the parts, for Abort to delete them.
LEMMA ListPartsInvariant ==
    ASSUME IInv, NEW r \in Procs, ListParts(r)
    PROVE  IInv'
  <1> DEFINE u == req[r].up
             found == {n \in Numbers : part[u][n] # None}
  <1>1. /\ pc[r] = "list" /\ UNCHANGED <<tableVars, blob, overlap, made, faults>>
        /\ faults \in 0..MaxFaults /\ closing \subseteq Uploads /\ overlap \subseteq Uploads
        /\ torn \subseteq Uploads \X Numbers
        /\ u \in Uploads
    BY DEF ListParts, IInv, TypeOK, CallInv
  <1>2. req[r] \in Request /\ [req[r] EXCEPT !.parts = found] \in Request
        /\ [req[r] EXCEPT !.parts = found].up = u
    BY DEF IInv, LocalTypes, Request
  <1>3. CASE /\ req[r].op = "complete" /\ req[r].list \subseteq found
             /\ Call(r, [req[r] EXCEPT !.parts = found], "read")
             /\ UNCHANGED <<torn, closing>>
    <2>1. Moves(r, "read", [req[r] EXCEPT !.parts = found])
      BY <1>3 DEF Moves, Call
    <2>2. Completing(r)
      BY <1>1, <1>3 DEF Completing
    <2>3. [req[r] EXCEPT !.parts = found].got = {}
      BY <1>1, <1>2 DEF IInv, CompleteInv, Request
    <2> HIDE DEF found, u
    <2> QED  BY <1>1, <1>2, <1>3, <2>1, <2>2, <2>3, GoesOnInvariant DEF u
  <1>4. CASE Return(r) /\ UNCHANGED <<torn, closing>>
    <2>1. Moves(r, "idle", NoReq)
      BY <1>4 DEF Moves, Return
    <2> QED  BY <1>1, <1>4, <2>1, NoCall, GoesOnInvariant
  <1>5. CASE /\ req[r].op = "abort" /\ Close(u)
             /\ Call(r, [req[r] EXCEPT !.parts = found], "clean")
    <2>1. Moves(r, "clean", [req[r] EXCEPT !.parts = found])
      BY <1>5 DEF Moves, Call
    <2>2. u \in closing' /\ closing \subseteq closing' /\ closing' \subseteq Uploads
      BY <1>1, <1>5 DEF Close
    <2>3. torn' \subseteq Uploads \X Numbers /\ \A t \in torn : t \in torn' \/ t[1] \in closing'
      BY <1>1, <1>5 DEF Close
    <2> HIDE DEF found
    <2> QED  BY <1>1, <1>2, <2>1, <2>2, <2>3, GoesOnInvariant
  <1> QED  BY <1>3, <1>4, <1>5 DEF ListParts

\* A part is read: what is stored is what its row tells of, since nobody else
\* is writing that part.
LEMMA ReadPartInvariant ==
    ASSUME IInv, NEW r \in Procs, NEW n \in Numbers, ReadPart(r, n)
    PROVE  IInv'
  <1> DEFINE u == req[r].up
             c == blob[u][n]
             q == [req[r] EXCEPT !.list = @ \ {n}, !.got = @ \cup {<<n, c>>}]
  <1>1. /\ pc[r] = "read" /\ UNCHANGED <<tableVars, blob, torn, closing, overlap, made, faults>>
        /\ faults \in 0..MaxFaults /\ closing \subseteq Uploads /\ overlap \subseteq Uploads
        /\ torn \subseteq Uploads \X Numbers
        /\ u \in Uploads /\ r \in Requests /\ Completing(r)
    BY DEF ReadPart, IInv, TypeOK, CallInv, CompleteInv, Completing
  <1>2. CASE c = None
    <2>1. Moves(r, "idle", NoReq)
      BY <1>2 DEF Moves, Return, ReadPart
    <2> QED  BY <1>1, <2>1, NoCall, GoesOnInvariant
  <1>3. CASE c # None
    <2>1. PICK p \in {"read", "create"} : Moves(r, p, q)
      BY <1>3 DEF ReadPart, Moves, Call
    <2>2. c \in Contents
      BY <1>1, <1>3 DEF IInv, TypeOK
    <2>3. q \in Request /\ q.up = u /\ q.got = req[r].got \cup {<<n, c>>}
      <3>1. req[r] \in Request
        BY DEF IInv, LocalTypes
      <3> HIDE DEF u, c
      <3>2. <<n, c>> \in Numbers \X Contents
        BY <2>2
      <3> QED  BY <3>1, <3>2 DEF Request, u
    <2>4. ASSUME u \notin overlap, upload[u] # "gone" PROVE part[u][n] = c
      <3>1. \A k \in Requests : req[k].up = u => k = r
        BY <1>1, <2>4 DEF IInv, AloneInv
      <3>2. ~ \E k \in Requests : pc[k] = "putRow" /\ req[k].up = u
        BY <1>1, <3>1
      <3> QED  BY <1>1, <1>3, <2>4, <3>2 DEF IInv, BlobInv
    <2>5. ASSUME u \notin overlap, upload[u] # "gone", NEW e \in q.got PROVE part[u][e[1]] = e[2]
      <3>1. CASE e \in req[r].got
        BY <1>1, <2>5, <3>1 DEF IInv, ReadInv
      <3>2. CASE e = <<n, c>>
        BY <2>4, <2>5, <3>2
      <3> QED  BY <2>3, <2>5, <3>1, <3>2
    <2> HIDE DEF u, c, q
    <2> QED  BY <1>1, <2>1, <2>3, <2>5, GoesOnInvariant DEF u
  <1> QED  BY <1>2, <1>3

\* A step fails and the call with it.
LEMMA FailsInvariant ==
    ASSUME IInv, NEW r \in Procs, Fails(r)
    PROVE  IInv'
  <1>1. /\ pc[r] # "idle" /\ pc[r] # "putting" /\ Moves(r, "idle", NoReq) /\ overlap' = overlap \cup {req[r].up}
        /\ UNCHANGED <<tableVars, blob, torn, closing, made>>
    BY DEF Fails, Moves, Return
  <1>2. faults' \in 0..MaxFaults
    BY MultipartFaultsAssumption DEF Fails, Faulty, IInv, TypeOK
  <1>3. closing \subseteq Uploads /\ overlap' \subseteq Uploads /\ torn \subseteq Uploads \X Numbers
    BY <1>1 DEF IInv, TypeOK, CallInv
  <1> QED  BY <1>1, <1>2, <1>3, NoCall, GoesOnInvariant

\* A write fails half way, and whatever it leaves counts as torn.
LEMMA PutFailsInvariant ==
    ASSUME IInv, NEW r \in Procs, PutFails(r)
    PROVE  IInv'
  <1>0. PICK u \in Uploads, n \in Numbers : u = req[r].up /\ n = req[r].n
    BY DEF IInv, CallInv, PutFails
  <1>1. /\ pc[r] = "putting" /\ Moves(r, "idle", NoReq) /\ overlap' = overlap \cup {u} /\ Tear(u, n)
        /\ UNCHANGED <<upload, part, closing, made>>
    BY <1>0 DEF PutFails, Moves, Return, tableVars
  <1>2. TypeOK /\ LocalTypes /\ r \in Requests
    BY <1>1 DEF IInv, CallInv
  <1>3. faults' \in 0..MaxFaults
    BY <1>2, MultipartFaultsAssumption DEF PutFails, Faulty, TypeOK
  <1>4. PICK c \in {blob[u][n], None} : blob' = [blob EXCEPT ![u][n] = c]
    BY <1>0 DEF PutFails
  <1>5. c \in Contents \cup {None}
    BY <1>2 DEF TypeOK
  <1>6. /\ pc' \in [Procs -> Steps] /\ LocalTypes' /\ pc'[r] = "idle" /\ req'[r] = NoReq
        /\ \A k \in Procs \ {r} : pc'[k] = pc[k] /\ req'[k] = req[k]
    BY <1>1, <1>2, NoCall, MoveFields DEF Steps
  <1>7. /\ blob' \in [Uploads -> [Numbers -> Contents \cup {None}]]
        /\ \A v \in Uploads, m \in Numbers : v # u \/ m # n => blob'[v][m] = blob[v][m]
    BY <1>2, <1>4, <1>5 DEF TypeOK
  <1>8. torn \subseteq torn' /\ torn' \subseteq Uploads \X Numbers /\ ~Whole(u, n)'
    BY <1>1, <1>2 DEF Tear, TypeOK, Whole
  <1>9. TypeOK'
    BY <1>1, <1>2, <1>3, <1>6, <1>7, <1>8, GotTypes DEF TypeOK, LocalTypes, Steps
  <1>10. CallInv' /\ CompleteInv'
    BY <1>1, <1>6, NoCall DEF IInv, CallInv, CompleteInv, Completing
  <1>11. ASSUME NEW v \in Uploads, NEW m \in Numbers, Whole(v, m)'
         PROVE  Whole(v, m) /\ blob'[v][m] = blob[v][m]
    <2>1. v # u \/ m # n
      BY <1>8, <1>11
    <2>2. Writing(v, m) \subseteq Writing(v, m)'
      BY <1>0, <1>6, <2>1 DEF Writing, Procs
    <2> QED  BY <1>1, <1>7, <1>8, <1>11, <2>1, <2>2 DEF Whole
  <1>12. PutInv'
    <2> SUFFICES ASSUME NEW k \in Procs, pc'[k] = "putRow"
                 PROVE  /\ Whole(req[k].up, req[k].n)' => blob'[req'[k].up][req'[k].n] # None
                        /\ req'[k].up \notin overlap' => blob'[req'[k].up][req'[k].n] \in {None, req'[k].c}
      BY DEF PutInv
    <2>1. pc[k] = "putRow" /\ req'[k] = req[k] /\ req[k].up \in Uploads /\ req[k].n \in Numbers
      BY <1>6 DEF IInv, CallInv
    <2>2. req[k].up \notin overlap' => req[k].up # u /\ req[k].up \notin overlap
      BY <1>1
    <2> QED  BY <1>7, <1>11, <2>1, <2>2 DEF IInv, PutInv
  <1>13. RecordedPartsReadable'
    BY <1>1, <1>11, WholeParts, WholePartsNext DEF IInv
  <1>14. AloneInv' /\ OneObjectPerUpload'
    BY <1>1, <1>6, NoCall, NoContentAssumption DEF IInv, AloneInv, OneObjectPerUpload, Procs
  <1>15. OnceInv'
    <2>1. \A k \in Requests : Completing(k)' => Completing(k) /\ req'[k] = req[k]
      BY <1>6 DEF Completing, Procs
    <2>2. \A k \in Requests : pc[k] = "clean" => pc'[k] = "clean" /\ req'[k] = req[k]
      BY <1>1, <1>6 DEF Procs
    <2> QED  BY <1>1, <2>1, <2>2 DEF IInv, OnceInv
  <1>16. BlobInv'
    <2>1. \A k \in Requests : pc[k] = "putRow" => pc'[k] = pc[k] /\ req'[k] = req[k]
      BY <1>1, <1>6 DEF Procs
    <2>2. \A v \in Uploads \ overlap', m \in Numbers : blob'[v][m] = blob[v][m] /\ v \in Uploads \ overlap
      BY <1>1, <1>7
    <2> QED  BY <1>1, <2>1, <2>2 DEF IInv, BlobInv
  <1>17. ReadInv'
    BY <1>1, <1>6 DEF IInv, ReadInv, Procs
  <1> QED  BY <1>6, <1>9, <1>10, <1>12, <1>13, <1>14, <1>15, <1>16, <1>17 DEF IInv

\* A blob that cannot be deleted is left behind.
LEMMA DeletePartFailsInvariant ==
    ASSUME IInv, NEW r \in Procs, NEW n \in Numbers, DeletePartFails(r, n)
    PROVE  IInv'
  <1> DEFINE q == [req[r] EXCEPT !.parts = @ \ {n}]
  <1>1. /\ pc[r] = "clean" /\ pc' = pc /\ req' = [req EXCEPT ![r] = q]
        /\ UNCHANGED <<tableVars, blob, torn, closing, overlap, made>>
    BY DEF DeletePartFails
  <1>2. Moves(r, "clean", q)
    BY <1>1 DEF Moves, Goto, IInv, TypeOK
  <1>3. faults' \in 0..MaxFaults
    BY MultipartFaultsAssumption DEF DeletePartFails, Faulty, IInv, TypeOK
  <1>4. q \in Request /\ q.up = req[r].up /\ req[r].up \in closing
    BY <1>1 DEF IInv, LocalTypes, CallInv, Request
  <1>5. closing \subseteq Uploads /\ overlap \subseteq Uploads /\ torn \subseteq Uploads \X Numbers
    BY DEF IInv, TypeOK
  <1> HIDE DEF q
  <1> QED  BY <1>1, <1>2, <1>3, <1>4, <1>5, GoesOnInvariant

\* The object is made, the first one: another request of this upload would
\* have overlapped.
LEMMA CreateObjectInvariant ==
    ASSUME IInv, NEW r \in Procs, CreateObject(r)
    PROVE  IInv'
  <1> DEFINE u == req[r].up
             q == [req[r] EXCEPT !.got = {}]
  <1>1. /\ pc[r] = "create" /\ Moves(r, "clean", q)
        /\ made' = [made EXCEPT ![u] = @ + 1] /\ Close(u)
        /\ UNCHANGED <<upload, part, blob, overlap, faults>>
    BY DEF CreateObject, Moves, tableVars
  <1>2. /\ TypeOK /\ LocalTypes
        /\ r \in Requests /\ u \in Uploads /\ upload[u] # "none"
    BY <1>1 DEF IInv, CallInv, CompleteInv, Completing
  <1>3. q \in Request /\ q.up = u /\ q.got = {}
    BY <1>2 DEF LocalTypes, Request
  <1>4. u \notin overlap => made[u] = 0 /\ \A k \in Requests : req[k].up = u => k = r
    BY <1>1, <1>2 DEF IInv, OnceInv, AloneInv, Completing
  <1> HIDE DEF q, u
  <1>5. /\ pc' \in [Procs -> Steps] /\ LocalTypes'
        /\ pc'[r] = "clean" /\ req'[r] = q
        /\ \A k \in Procs \ {r} : pc'[k] = pc[k] /\ req'[k] = req[k]
    BY <1>1, <1>2, <1>3, MoveFields DEF Steps
  <1>6. /\ made' \in [Uploads -> Nat] /\ (u \notin overlap => made'[u] = 1)
        /\ \A v \in Uploads \ {u} : made'[v] = made[v]
        /\ closing' = closing \cup {u} /\ torn' \subseteq Uploads \X Numbers
        /\ \A t \in torn : t \in torn' \/ t[1] \in closing'
    BY <1>1, <1>2, <1>4 DEF TypeOK, Close
  <1>7. TypeOK'
    BY <1>1, <1>2, <1>5, <1>6, GotTypes DEF TypeOK, LocalTypes, Steps
  <1>8. req'[r].up = req[r].up
    BY <1>3, <1>5 DEF u
  <1>9. CallInv' /\ CompleteInv'
    BY <1>1, <1>2, <1>3, <1>5, <1>6 DEF IInv, CallInv, CompleteInv, Completing
  <1>10. PutInv' /\ RecordedPartsReadable'
    <2>1. \A v \in Uploads, m \in Numbers : Whole(v, m)' => Whole(v, m)
      BY <1>1, <1>5, <1>6, WholeBefore
    <2>2. PutInv'
      BY <1>1, <1>5, <2>1 DEF IInv, PutInv, CallInv
    <2> QED  BY <1>1, <2>1, <2>2, WholeParts, WholePartsNext DEF IInv
  <1>11. AloneInv'
    BY <1>1, <1>5, <1>8 DEF IInv, AloneInv, Procs
  <1>12. OneObjectPerUpload'
    BY <1>1, <1>6 DEF IInv, OneObjectPerUpload
  <1>13. OnceInv'
    <2> SUFFICES ASSUME NEW v \in Uploads \ overlap
                 PROVE  /\ made'[v] # 0 =>
                             upload[v] = "gone" \/ \E k \in Requests : pc'[k] = "clean" /\ req'[k].up = v
                        /\ \A k \in Requests : Completing(k)' /\ req'[k].up = v => made'[v] = 0
      BY <1>1 DEF OnceInv
    <2>1. CASE v = u
      BY <1>2, <1>3, <1>4, <1>5, <2>1 DEF Completing, Procs
    <2>2. CASE v # u
      <3>1. \A k \in Requests : /\ req'[k].up = v => pc'[k] = pc[k] /\ req'[k] = req[k]
                                /\ req[k].up = v => pc'[k] = pc[k] /\ req'[k] = req[k]
        BY <1>5, <1>8, <2>2 DEF Procs, u
      <3> QED  BY <1>6, <2>2, <3>1 DEF IInv, OnceInv, Completing
    <2> QED  BY <2>1, <2>2
  <1>14. BlobInv'
    BY <1>1, <1>5 DEF IInv, BlobInv, Procs
  <1>15. ReadInv'
    BY <1>1, <1>5 DEF IInv, ReadInv, Procs
  <1> QED  BY <1>5, <1>7, <1>9, <1>10, <1>11, <1>12, <1>13, <1>14, <1>15 DEF IInv

\* The cleanup deletes a blob: its upload is being removed, and whoever reads
\* the part finds nothing.
LEMMA DeletePartInvariant ==
    ASSUME IInv, NEW r \in Procs, NEW n \in Numbers, DeletePart(r, n)
    PROVE  IInv'
  <1> DEFINE u == req[r].up
             q == [req[r] EXCEPT !.parts = @ \ {n}]
  <1>1. /\ pc[r] = "clean" /\ blob' = [blob EXCEPT ![u][n] = None]
        /\ req' = [req EXCEPT ![r] = q]
        /\ UNCHANGED <<upload, part, torn, closing, overlap, made, pc, faults>>
    BY DEF DeletePart, tableVars
  <1>2. TypeOK /\ LocalTypes /\ u \in Uploads /\ u \in closing
    BY <1>1 DEF IInv, CallInv
  <1>3. q \in Request /\ q.up = u /\ q.op = req[r].op
    BY <1>2 DEF LocalTypes, Request
  <1>4. Moves(r, "clean", q)
    BY <1>1, <1>2 DEF Moves, Goto, TypeOK
  <1> HIDE DEF q, u
  <1>5. /\ LocalTypes' /\ pc'[r] = "clean" /\ req'[r] = q
        /\ \A k \in Procs \ {r} : pc'[k] = pc[k] /\ req'[k] = req[k]
    BY <1>2, <1>3, <1>4, MoveFields DEF Steps
  <1>6. /\ blob' \in [Uploads -> [Numbers -> Contents \cup {None}]]
        /\ \A v \in Uploads, m \in Numbers :
             blob'[v][m] = IF v = u /\ m = n THEN None ELSE blob[v][m]
    BY <1>1, <1>2 DEF TypeOK
  <1>7. TypeOK'
    BY <1>1, <1>2, <1>5, <1>6, GotTypes DEF TypeOK, LocalTypes
  <1>8. req'[r].up = req[r].up
    BY <1>3, <1>5 DEF u
  <1>9. CallInv' /\ CompleteInv'
    <2>1. CallInv'
      BY <1>1, <1>5, <1>8 DEF IInv, CallInv
    <2>2. \A k \in Procs : pc[k] = "list" => req'[k] = req[k]
      BY <1>1, <1>5
    <2>3. \A k \in Procs : Completing(k)' => Completing(k)
      BY <1>1, <1>5 DEF Completing
    <2> QED  BY <1>1, <2>1, <2>2, <2>3 DEF IInv, CompleteInv
  <1>16. ASSUME NEW v \in Uploads, NEW m \in Numbers, Whole(v, m)'
         PROVE  Whole(v, m) /\ blob'[v][m] = blob[v][m]
    <2>1. Whole(v, m)
      BY <1>1, <1>5, <1>16, WholeBefore
    <2> QED  BY <1>2, <1>6, <2>1 DEF Whole
  <1>10. PutInv'
    <2> SUFFICES ASSUME NEW k \in Procs, pc'[k] = "putRow"
                 PROVE  /\ Whole(req[k].up, req[k].n)' => blob'[req'[k].up][req'[k].n] # None
                        /\ req'[k].up \notin overlap => blob'[req'[k].up][req'[k].n] \in {None, req'[k].c}
      BY <1>1 DEF PutInv
    <2>1. pc[k] = "putRow" /\ req'[k] = req[k]
      BY <1>5
    <2>2. req[k].up \in Uploads /\ req[k].n \in Numbers
      BY <2>1 DEF IInv, CallInv
    <2> QED  BY <1>6, <1>16, <2>1, <2>2 DEF IInv, PutInv
  <1>11. RecordedPartsReadable'
    BY <1>1, <1>6, <1>16, WholeParts, WholePartsNext DEF IInv
  <1>12. AloneInv' /\ OneObjectPerUpload'
    BY <1>1, <1>5, <1>8 DEF IInv, AloneInv, OneObjectPerUpload, Procs
  <1>13. OnceInv'
    <2>1. \A k \in Requests : /\ pc'[k] = pc[k] /\ req'[k].up = req[k].up
                              /\ Completing(k)' => Completing(k)
      BY <1>1, <1>5, <1>8 DEF Completing, Procs
    <2> QED  BY <1>1, <2>1 DEF IInv, OnceInv
  <1>14. BlobInv'
    <2>1. \A k \in Requests : pc[k] = "putRow" => pc'[k] = "putRow" /\ req'[k] = req[k]
      BY <1>1, <1>5 DEF Procs
    <2> QED  BY <1>1, <1>6, <2>1 DEF IInv, BlobInv
  <1>15. ReadInv'
    BY <1>1, <1>5 DEF IInv, ReadInv, Procs
  <1> QED  BY <1>5, <1>7, <1>9, <1>10, <1>11, <1>12, <1>13, <1>14, <1>15 DEF IInv

\* The upload's row goes, and the rows of its parts with it.
LEMMA DeleteUploadInvariant ==
    ASSUME IInv, NEW r \in Procs, DeleteUpload(r)
    PROVE  IInv'
  <1> DEFINE u == req[r].up
             none == [n \in Numbers |-> None]
  <1>1. /\ pc[r] = "clean" /\ Moves(r, "idle", NoReq)
        /\ upload' = [upload EXCEPT ![u] = "gone"] /\ part' = [part EXCEPT ![u] = none]
        /\ UNCHANGED <<blob, torn, closing, overlap, made, faults>>
    BY DEF DeleteUpload, Moves, Return
  <1>2. TypeOK /\ LocalTypes /\ u \in Uploads
    BY <1>1 DEF IInv, CallInv
  <1> HIDE DEF u
  <1>3. /\ pc' \in [Procs -> Steps] /\ LocalTypes' /\ pc'[r] = "idle" /\ req'[r] = NoReq
        /\ \A k \in Procs \ {r} : pc'[k] = pc[k] /\ req'[k] = req[k]
    BY <1>1, <1>2, NoCall, MoveFields DEF Steps
  <1>4. /\ upload' \in [Uploads -> {"none", "open", "expired", "gone"}] /\ upload'[u] = "gone"
        /\ \A v \in Uploads \ {u} : upload'[v] = upload[v]
    BY <1>1, <1>2 DEF TypeOK
  <1>5. /\ part' \in [Uploads -> [Numbers -> Contents \cup {None}]]
        /\ \A m \in Numbers : part'[u][m] = None
        /\ \A v \in Uploads \ {u} : part'[v] = part[v]
    BY <1>1, <1>2 DEF TypeOK
  <1>6. TypeOK'
    BY <1>1, <1>2, <1>3, <1>4, <1>5, GotTypes DEF TypeOK, LocalTypes, Steps
  <1>7. CallInv' /\ CompleteInv'
    BY <1>1, <1>3, <1>4, NoCall DEF IInv, CallInv, CompleteInv, Completing
  <1>8. PutInv' /\ RecordedPartsReadable'
    <2>1. \A v \in Uploads, m \in Numbers : Whole(v, m)' => Whole(v, m)
      BY <1>1, <1>3, WholeBefore
    <2>2. PutInv'
      BY <1>1, <1>3, <2>1 DEF IInv, PutInv, CallInv
    <2>3. \A v \in Uploads, m \in Numbers : part'[v][m] # None => part[v][m] # None
      BY <1>5
    <2> QED  BY <1>1, <2>1, <2>2, <2>3, WholeParts, WholePartsNext DEF IInv
  <1>9. AloneInv' /\ OneObjectPerUpload'
    BY <1>1, <1>3, NoCall, NoContentAssumption DEF IInv, AloneInv, OneObjectPerUpload, Procs
  <1>10. OnceInv'
    <2> SUFFICES ASSUME NEW v \in Uploads \ overlap
                 PROVE  /\ made[v] # 0 =>
                             upload'[v] = "gone" \/ \E k \in Requests : pc'[k] = "clean" /\ req'[k].up = v
                        /\ \A k \in Requests : Completing(k)' /\ req'[k].up = v => made[v] = 0
      BY <1>1 DEF OnceInv
    <2>1. \A k \in Requests : Completing(k)' => Completing(k) /\ req'[k] = req[k]
      BY <1>3 DEF Completing, Procs
    <2>2. CASE v = u
      BY <1>4, <2>1, <2>2 DEF IInv, OnceInv
    <2>3. CASE v # u
      <3>1. \A k \in Requests : req[k].up = v => pc'[k] = pc[k] /\ req'[k] = req[k]
        BY <1>3, <2>3 DEF Procs, u
      <3> QED  BY <1>4, <2>1, <2>3, <3>1 DEF IInv, OnceInv
    <2> QED  BY <2>2, <2>3
  <1>11. BlobInv'
    <2>1. \A k \in Requests : pc[k] = "putRow" => pc'[k] = pc[k] /\ req'[k] = req[k]
      BY <1>1, <1>3 DEF Procs
    <2> QED  BY <1>1, <1>4, <1>5, <2>1 DEF IInv, BlobInv
  <1>12. ReadInv'
    <2> SUFFICES ASSUME NEW k \in Requests, pc'[k] \in {"read", "create"}, req'[k].up \notin overlap,
                        upload'[req'[k].up] # "gone", NEW e \in req'[k].got
                 PROVE  part'[req'[k].up][e[1]] = e[2]
      BY <1>1 DEF ReadInv
    <2>1. pc[k] = pc'[k] /\ req'[k] = req[k] /\ req[k].up \in Uploads
      BY <1>3 DEF IInv, CallInv, Procs
    <2>2. req[k].up # u
      BY <1>4, <2>1
    <2> QED  BY <1>4, <1>5, <2>1, <2>2 DEF IInv, ReadInv
  <1> QED  BY <1>3, <1>6, <1>7, <1>8, <1>9, <1>10, <1>11, <1>12 DEF IInv

\* PutPart, Complete, Abort and CleanupExpired begin.
LEMMA BeginInvariant ==
    ASSUME IInv, NEW r \in Procs, NEW u \in Uploads
    PROVE  /\ \A i \in Inputs : r \in Requests /\ PutPart(r, u, i[1], i[2]) => IInv'
           /\ \A list \in SUBSET Numbers : r \in Requests /\ Complete(r, u, list) => IInv'
           /\ Abort(r, u) => IInv'
           /\ r = Worker /\ CleanupExpired(u) => IInv'
  <1>1. ASSUME NEW i \in Inputs, r \in Requests, PutPart(r, u, i[1], i[2]) PROVE IInv'
    <2> DEFINE q == [NoReq EXCEPT !.op = "put", !.up = u, !.n = i[1], !.c = i[2]]
    <2>1. i[1] \in Numbers /\ i[2] \in Contents
      BY InputsAssumption
    <2>2. /\ pc[r] = "idle" /\ upload[u] = "open" /\ Enter(r, q, "putBlob")
          /\ UNCHANGED <<tableVars, blob, torn, closing, made, faults>>
      BY <1>1 DEF PutPart
    <2>3. q \in Request /\ q.up = u /\ q.got = {} /\ q.n = i[1] /\ q.c = i[2]
      BY <2>1 DEF NoReq, Request
    <2> HIDE DEF q
    <2> QED  BY <1>1, <2>1, <2>2, <2>3, EnterInvariant
  <1>2. ASSUME NEW list \in SUBSET Numbers, r \in Requests, Complete(r, u, list) PROVE IInv'
    <2> DEFINE q == [NoReq EXCEPT !.op = "complete", !.up = u, !.list = list]
    <2>1. /\ pc[r] = "idle" /\ upload[u] = "open" /\ Enter(r, q, "list")
          /\ UNCHANGED <<tableVars, blob, torn, closing, made, faults>>
      BY <1>2 DEF Complete
    <2>2. q \in Request /\ q.up = u /\ q.got = {}
      BY DEF NoReq, Request
    <2> HIDE DEF q
    <2> QED  BY <1>2, <2>1, <2>2, EnterInvariant
  <1>3. ASSUME Abort(r, u) \/ (r = Worker /\ CleanupExpired(u)) PROVE IInv'
    <2> DEFINE q == [NoReq EXCEPT !.op = "abort", !.up = u]
    <2>1. /\ pc[r] = "idle" /\ upload[u] # "none" /\ Enter(r, q, "list")
          /\ UNCHANGED <<tableVars, blob, torn, closing, made, faults>>
      BY <1>3 DEF Abort, CleanupExpired
    <2>2. q \in Request /\ q.up = u /\ q.got = {} /\ q.op = "abort"
      BY DEF NoReq, Request
    <2> HIDE DEF q
    <2> QED  BY <2>1, <2>2, EnterInvariant
  <1> QED  BY <1>1, <1>2, <1>3

\* A step that changes no variable keeps the inductive invariant.
LEMMA StutterInv == IInv /\ UNCHANGED vars => IInv'
  <1> SUFFICES ASSUME IInv, UNCHANGED vars PROVE IInv'
    OBVIOUS
  <1>1. UNCHANGED <<upload, part, blob, torn, closing, overlap, made, pc, req, faults>>
    BY DEF vars, tableVars
  <1>2. TypeOK' /\ LocalTypes' /\ CallInv' /\ CompleteInv'
    BY <1>1 DEF IInv, TypeOK, LocalTypes, CallInv, CompleteInv, Completing
  <1>3. PutInv' /\ RecordedPartsReadable' /\ AloneInv' /\ OnceInv' /\ OneObjectPerUpload'
    BY <1>1 DEF IInv, PutInv, Whole, Writing, RecordedPartsReadable, AloneInv, OnceInv, OneObjectPerUpload,
        Completing
  <1>4. BlobInv' /\ ReadInv'
    BY <1>1 DEF IInv, BlobInv, ReadInv
  <1> QED  BY <1>2, <1>3, <1>4 DEF IInv

\* Every step keeps the inductive invariant.
LEMMA StepInv == IInv /\ [Next]_vars => IInv'
  <1> SUFFICES ASSUME IInv, [Next]_vars PROVE IInv'
    OBVIOUS
  <1>1. ASSUME NEW u \in Uploads, Initiate(u) \/ Expire(u) PROVE IInv'
    BY <1>1, UploadInvariant
  <1>2. ASSUME NEW r \in Requests, NEW u \in Uploads, NEW i \in Inputs, PutPart(r, u, i[1], i[2])
        PROVE  IInv'
    BY <1>2, BeginInvariant DEF Procs
  <1>3. ASSUME NEW r \in Requests, NEW u \in Uploads, NEW list \in SUBSET Numbers, Complete(r, u, list)
        PROVE  IInv'
    BY <1>3, BeginInvariant DEF Procs
  <1>4. ASSUME NEW r \in Requests, NEW u \in Uploads, Abort(r, u) PROVE IInv'
    BY <1>4, BeginInvariant DEF Procs
  <1>5. ASSUME NEW u \in Uploads, CleanupExpired(u) PROVE IInv'
    BY <1>5, BeginInvariant DEF Procs
  <1>6. ASSUME NEW r \in Procs, Step(r) PROVE IInv'
    BY <1>6, PutBlobInvariant, PutRowInvariant, ListPartsInvariant, ReadPartInvariant,
       CreateObjectInvariant, DeletePartInvariant, DeleteUploadInvariant DEF Step
  <1>7. ASSUME NEW r \in Procs, Fails(r) PROVE IInv'
    BY <1>7, FailsInvariant
  <1>8. ASSUME NEW r \in Procs, PutFails(r) PROVE IInv'
    BY <1>8, PutFailsInvariant
  <1>9. ASSUME NEW r \in Procs, NEW n \in Numbers, DeletePartFails(r, n) PROVE IInv'
    BY <1>9, DeletePartFailsInvariant
  <1> QED  BY <1>1, <1>2, <1>3, <1>4, <1>5, <1>6, <1>7, <1>8, <1>9, StutterInv DEF Next

-----------------------------------------------------------------------------
(* The results.                                                            *)

\* Whatever clients, the worker and failures do, every reachable state has the
\* types of TypeOK and satisfies the inductive invariant.
THEOREM Invariance == Spec => []IInv
  <1> QED  BY InitInv, StepInv, PTL DEF Spec

\* PutPart stores before it records, and cleanup deletes only what it has begun to remove: a
\* recorded part of any other upload can be read, unless a PutPart of that very part is writing,
\* has failed in the middle of its write, or has overlapped another one.
THEOREM PartsAreReadable == Spec => []RecordedPartsReadable
  <1>1. IInv => RecordedPartsReadable
    BY DEF IInv
  <1> QED  BY <1>1, Invariance, PTL

\* CompleteMultipartUpload makes one object of an upload at most, as long as
\* no two requests overlap on it and none of them fails half way.
THEOREM UploadsMakeOneObject == Spec => []OneObjectPerUpload
  <1>1. IInv => OneObjectPerUpload
    BY DEF IInv
  <1> QED  BY <1>1, Invariance, PTL

\* Under that condition the object is made of what the rows of the parts tell
\* of when it is made, unless the cleanup has removed the upload meanwhile.
THEOREM ObjectsMatchTheirParts == Spec => CompletedFromRecordedParts
  <1>1. ASSUME IInv, NEW r \in Requests, pc[r] = "create",
               req[r].up \notin overlap, upload[req[r].up] # "gone"
        PROVE  \A p \in req[r].got : part[req[r].up][p[1]] = p[2]
    BY <1>1 DEF IInv, ReadInv
  <1>2. IInv /\ [Next]_vars =>
          [\A r \in Requests : LET u == req[r].up IN
             pc[r] = "create" /\ pc'[r] = "clean" /\ u \notin overlap /\ upload[u] # "gone" =>
                 \A p \in req[r].got : part[u][p[1]] = p[2]]_vars
    BY <1>1
  <1> QED  BY <1>2, Invariance, PTL DEF Spec, CompletedFromRecordedParts
=============================================================================
