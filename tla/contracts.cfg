SPECIFICATION Spec
CONSTANTS
    Member = "status"
    Baseline <- Contract
    Edits <- Changes
CHECK_DEADLOCK FALSE
INVARIANTS
    BreakingChangesFail
