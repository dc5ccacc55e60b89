SPECIFICATION FairEventsSpec
CONSTANTS
    Events = {e1}
    Requests = {r1, r2}
    Passes = {w1, w2}
    NoEvent = NoEvent
    MaxAttempts = 3
    MaxDeliveries = 3
    MaxCrashes = 2
INVARIANTS
    EventsTypeOK
    FinishedMeansApplied
    GivenUpAfterTrying
PROPERTIES
    EverySettled
CHECK_DEADLOCK FALSE
