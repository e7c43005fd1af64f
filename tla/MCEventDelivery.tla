-------------------------- MODULE MCEventDelivery --------------------------
(* EventDelivery on small instances. *)
EXTENDS EventDelivery

CONSTANTS w1, w2, e1, t1, t2
=============================================================================
