\* Four requests, an account made at the start and one that only OIDC knows.
SPECIFICATION FairSpec
CONSTANTS
    N = 4
    OpsOf <- MCOpsOf
    Emails = {"root", "other"}
    Bootstrap = "root"
    Roles = {"superadmin", "admin"}
    Passwords = {"p", "q"}
    FirstPassword = "p"
    Issuers = {"idpA", "idpB"}
    FirstIssuer = "idpA"
CHECK_DEADLOCK FALSE
INVARIANTS
    TokensAccountedFor
    SpentTokenRefused
    SessionFromHeldAccount
    AdminRoleWasGranted
    IssuerVerified
PROPERTIES
    EveryRequestEnds
