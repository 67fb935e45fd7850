SPECIFICATION FairSpec
CONSTANTS
    Contestants = 4
    Workers = {w1, w2}
    MaxAttempts = 2
    MaxCommands = 1
    MaxFaults = 1
CHECK_DEADLOCK FALSE
PROPERTIES
    MatchEnds
