\* Two objects, two nodes, one migration at a time that takes one object on.
SPECIFICATION FairSpec
CONSTANTS
    NumObjects = 2
    NumNodes = 2
    Replicas = 1
    Migrators = {m1}
    Limit = 1
    Used = {1}
    MaxFaults = 1
PROPERTIES
    GetFailsOnlyAcrossSwitch
    VersionsKept
    LastNodeStays
    MigrationDrains
