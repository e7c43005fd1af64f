---------------------------- MODULE MCEnrollment ----------------------------
(* Enrollment on small instances: the first token is open to any endpoint. *)
EXTENDS Enrollment
MCBound == [t \in Tokens |-> 0]
=============================================================================
