\* Two concurrent requests on one key, three inserting transactions, no background work.
SPECIFICATION HSpec
CONSTANTS
    r1 = r1
    r2 = r2
    p1 = p1
    p2 = p2
    p3 = p3
    None = None
    Requests = {r1, r2}
    Keys = {"k"}
    Paths = {p1, p2, p3}
    MaxTx = 3
    PutModes <- PlainPuts
    HoldInputs = {}
    Verdicts = {}
    ScanModes = {}
SYMMETRY Symmetry
INVARIANTS
    OneLatest
    BlobsAccountedFor
CHECK_DEADLOCK FALSE
