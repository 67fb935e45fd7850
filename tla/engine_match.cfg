SPECIFICATION Spec
CONSTANTS
    Players = {p1, p2, p3, p4}
    Callers = {p1, p2, p3}
    NoPlayer = NoPlayer
    MinimumReady = 4
    MaxRevision = 1
    MaxRounds = 2
CHECK_DEADLOCK FALSE
SYMMETRY Symmetric
INVARIANTS
    TypeOK
    CumulativeIsEveryVote
    OneVoteEach
    EliminationIsDeserved
    WinnerIsDeserved
    OneEliminationPerRound
    NeverInvalid
PROPERTIES
    Irrevocable
    ClosedVotesStand
    ImplementsLifecycle
    StoredMatchIsFaithful
