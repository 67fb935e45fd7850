SPECIFICATION Spec
CONSTANTS
    Sessions = {s1, s2, s3}
    NoOne = NoOne
    MatchCount = 1
    MaxVersion = 2
    MaxAttempts = 2
SYMMETRY Symmetric
CHECK_DEADLOCK FALSE
INVARIANTS
    NoDeadlock
    DeadlineIsKept
PROPERTIES
    AdvanceSpendsItsJob
