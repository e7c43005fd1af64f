\* Two requests and the worker on one upload of two parts, one fault.
SPECIFICATION FairSpec
CONSTANTS
    r1 = r1
    r2 = r2
    a = a
    b = b
    u1 = u1
    Worker = Worker
    None = None
    Requests = {r1, r2}
    Uploads = {u1}
    NumParts = 2
    Contents = {a, b}
    Inputs <- SentParts
    MaxFaults = 1
INVARIANTS
    RecordedPartsReadable
    OneObjectPerUpload
PROPERTIES
    CompletedFromRecordedParts
    EveryUploadRemoved
