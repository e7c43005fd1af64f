------------------------------ MODULE MCWrites ------------------------------
(* Writes on small instances. *)
EXTENDS Writes, TLC

CONSTANTS r1, r2

MCKindsOf == (r1 :> {"upload", "copy", "s3put"}) @@ (r2 :> {"complete", "s3copy"})
MCBucketQuotas == {[bytes |-> 2, objects |-> 2], [bytes |-> 1, objects |-> 1]}
=============================================================================
