SPECIFICATION FairSpec
CONSTANTS
    Prices = {gold, silver}
    Free = Free
    Handlers = {h1}
    GraceDays = 2
    MaxSubs = 2
    MaxRevisions = 3
    MaxTime = 1
    MaxMishaps = 0
INVARIANTS
    PlanAnnounced
PROPERTIES
    GraceNotExtended
    
CHECK_DEADLOCK FALSE
