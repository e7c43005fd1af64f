\* Node 2 is configured, node 1 joins or is registered; two requests, a change of
\* certificate, one fault.
SPECIFICATION FairSpec
CONSTANTS
    NumNodes = 2
    Configured = {2}
    Plain = {1}
    Tokens = {t1}
    Bound <- MCBound
    RegisterAs = {"maintenance"}
    MaxReqs = 2
    MaxCerts = 2
    MaxFaults = 1
INVARIANTS
    CredentialsAgree
    NoSequentialReuse
PROPERTIES
    WorkerLearnsCredential
    VerdictConverges
