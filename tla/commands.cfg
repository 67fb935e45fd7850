SPECIFICATION FairSpec
CONSTANTS
    Clients = {c1, c2}
    Keys = {k1, k2}
    NoKey = NoKey
    Bodies = {b1, b2}
    NoBody = NoBody
    MaximumAttempts = 2
    MaxCalls = 3
    MaxDeadlines = 1
    MaxFaults = 1
CHECK_DEADLOCK FALSE
INVARIANTS
    EffectOnce
    OneAnswer
    LogIsGapless
PROPERTIES
    CallsEnd
    ImplementsAtomicCommands
