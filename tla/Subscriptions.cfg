SPECIFICATION Spec
CONSTANTS
    Prices = {gold, silver}
    Free = Free
    Handlers = {h1, h2}
    GraceDays = 2
    MaxSubs = 1
    MaxRevisions = 2
    MaxTime = 1
    MaxMishaps = 1
SYMMETRY Symmetry
INVARIANTS
    TypeOK
    NoUnpaidActivation
    
PROPERTIES
    LinkIsPermanent
CHECK_DEADLOCK FALSE
