\* Two active nodes; a third, the last by name, joins, drains and comes back; every
\* node is to hold every object; one fault.
SPECIFICATION FairPSpec
CONSTANTS
    NumNodes = 3
    NumObjects = 1
    PutReplicas = 1
    Replicas = 3
    InitActive = {1, 2}
    Operations = {"active", "draining"}
    Changeable = {3}
    MaxFailures = 1
INVARIANTS
    EveryObjectHasReplica
PROPERTIES
    ReplicasRestored
    PlacementsReachTargets
