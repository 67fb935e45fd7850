SPECIFICATION FairSpec
CONSTANTS
    Signals = {SIGINT, SIGTERM}
    Batch = 10
    MaxFaults = 6
INVARIANTS
    DatastoresOutliveUse
    ReadyIsHonest
PROPERTIES
    FirstSignalsAreHandled
    StopsInTheEnd
    DeadlinesAreServed
