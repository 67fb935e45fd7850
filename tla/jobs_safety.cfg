SPECIFICATION Spec
CONSTANTS
    Contestants = 4
    Workers = {w1, w2}
    MaxAttempts = 3
    MaxCommands = 1
    MaxFaults = 2
SYMMETRY Symmetric
CHECK_DEADLOCK FALSE
INVARIANTS
    DeadlineIsKept
    OneOwner
    OnlyRetriesLinger
    ClaimedWhenExpired
PROPERTIES
    AdvanceSpendsItsJob
    SettledJobsRest
