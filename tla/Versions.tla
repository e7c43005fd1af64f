------------------------------ MODULE Versions ------------------------------
(***************************************************************************)
(* What clients may rely on: an object version can be read from the moment *)
(* its Put is committed until it is deleted, and never comes back.  It     *)
(* does not matter where the bytes are.  Migration implements this.        *)
(***************************************************************************)
CONSTANT Objects
VARIABLE state

Init == state = [o \in Objects |-> "absent"]

Store(o) ==
    /\ state[o] = "absent"
    /\ state' = [state EXCEPT ![o] = "readable"]

Remove(o) ==
    /\ state[o] = "readable"
    /\ state' = [state EXCEPT ![o] = "deleted"]

Next == \E o \in Objects : Store(o) \/ Remove(o)

Spec == Init /\ [][Next]_state
=============================================================================
