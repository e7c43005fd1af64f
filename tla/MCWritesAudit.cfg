\* The S3 handlers beside those of the admin API.
SPECIFICATION WSpec
CONSTANTS
    r1 = r1
    r2 = r2
    Requests = {r1, r2}
    KindsOf <- MCKindsOf
    Keys = {"a"}
    Users = {"u"}
    Sizes = {2}
    BucketQuotas <- MCBucketQuotas
    UserQuotas = {1, 2}
    MaxRows = 4
    MaxFaults = 1
CHECK_DEADLOCK FALSE
INVARIANTS
    AuditTellsOutcome
