SPECIFICATION FairSpec
CONSTANTS
    Migrators = {m1, m2, m3}
    NoOne = NoOne
    Files = 2
    Editions = {a, b}
    MaxFaults = 2
CHECK_DEADLOCK FALSE
INVARIANTS
    NoConflict
    SchemaIsRecorded
    DoneMeansMigrated
PROPERTIES
    MigratorsEnd
