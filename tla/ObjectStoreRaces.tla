-------------------------- MODULE ObjectStoreRaces --------------------------
(***************************************************************************)
(* ObjectStore with a history variable: the keys on which requests         *)
(* overlapped, or from which a background job took the version that is, or *)
(* is being made, the latest.  All other keys keep their promise.          *)
(***************************************************************************)
EXTENDS ObjectStore

VARIABLE disturbed  \* history: such keys

\* Requests under way on a key, and whether there are two of them.
On(k) == {r \in Requests : req[r].key = k}
Overlapping(k) == \E q, r \in On(k) : q # r

\* The expiry or the scanner soft-deletes a version of k which is the latest, or
\* which a request under way may be about to make the latest.
TakesAway(k) ==
    \E x \in RowsOf(k) :
        /\ rows[x].st = "live" /\ rows'[x].st = "deleted"
        /\ rows[x].latest \/ On(k) # {}

HInit == Init /\ disturbed = {}

HNext ==
    /\ Next
    /\ disturbed' = disturbed \cup {k \in Keys : Overlapping(k)' \/ TakesAway(k)}

HSpec == HInit /\ [][HNext]_<<vars, disturbed>>

\* A key with a version that is not soft-deleted has one of those as its latest,
\* so it is listed and can be read, deleted and held by key: DeleteVersion,
\* RestoreLatest and failed requests leave a successor behind, whatever happens
\* to other keys.  Overlapping DeleteVersions do not keep it (one may promote the
\* row the other deletes), and neither do the expiry and the scanner, which
\* soft-delete a latest version and promote none.
LiveKeyHasLatest ==
    \A k \in Keys \ disturbed :
        (\E x \in RowsOf(k) : rows[x].st = "live")
            => \E x \in RowsOf(k) : rows[x].st = "live" /\ rows[x].latest
=============================================================================
