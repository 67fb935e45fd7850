SPECIFICATION Spec
CONSTANTS
    Players = {p1, p2, p3, p4}
    Callers = {p1, p2, p3}
    NoPlayer = NoPlayer
    MinimumReady = 4
    MaxRevision = 2
    MaxRounds = 1
CHECK_DEADLOCK FALSE
SYMMETRY Symmetric
PROPERTIES
    BallotMayChangeUntilDeadline
