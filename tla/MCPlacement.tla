---------------------------- MODULE MCPlacement ----------------------------
(* Placement on small instances. *)
EXTENDS Placement
=============================================================================
