SPECIFICATION Spec
CONSTANTS
    Contestants = 4
    Workers = {w1}
    MaxAttempts = 2
    MaxCommands = 0
    MaxFaults = 2
CHECK_DEADLOCK FALSE
PROPERTIES
    RecoveryRestoresDeadline
