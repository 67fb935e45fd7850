SPECIFICATION FairSpec
CONSTANTS
    Events = {e1, e2}
    Workers = {w1, w2, w3}
    MaxFaults = 3
CHECK_DEADLOCK FALSE
INVARIANTS
    PublishedWasDelivered
    RepeatsAreFaults
PROPERTIES
    OwnersRelease
    EventsAreDelivered
