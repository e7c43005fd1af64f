\* Two requests with holds, retention, expiry, scanner and purge, two inserting transactions.
SPECIFICATION HSpec
CONSTANTS
    r1 = r1
    r2 = r2
    p1 = p1
    p2 = p2
    p3 = p3
    None = None
    Requests = {r1, r2}
    Keys = {"k"}
    Paths = {p1, p2}
    MaxTx = 2
    PutModes <- ProtectedPuts
    HoldInputs = {TRUE}
    Verdicts = {"infected"}
    ScanModes = {"enforcement"}
SYMMETRY Symmetry
INVARIANTS
    TypeOK
    NoDanglingVersion
    LiveKeyHasLatest
PROPERTY NoResurrection
CHECK_DEADLOCK FALSE
