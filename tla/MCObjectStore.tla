--------------------------- MODULE MCObjectStore ---------------------------
(* ObjectStore, with its history of disturbed keys, on small instances. *)
EXTENDS ObjectStoreRaces, TLC

CONSTANTS r1, r2, p1, p2, p3

PlainPuts == {[retained |-> FALSE, expires |-> FALSE]}
ProtectedPuts == {[retained |-> TRUE, expires |-> TRUE]}

Symmetry == Permutations(Paths) \cup Permutations(Requests)
=============================================================================
