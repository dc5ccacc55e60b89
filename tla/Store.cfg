SPECIFICATION StoreSpec
CONSTANTS
    Requests = {r1, r2}
    Tenants = {t1, t2}
    MaxCodes = 2
    MaxRotations = 1
    MaxFaults = 1
    Orders <- MCOrders
    Lines <- MCLines
    Malformed = {3}
    ReportBatch = 2
    MaxReports = 2
    MaxSelections = 2
    MaxMinor = 9
    ReportTroubles = 1
    Products <- MCProducts
    Sorted <- MCSorted
    ProductBatch = 2
    BodyLimit = 1
    PageSize = 1
    MaxProducts = 1
    MaxSaves = 2
    MaxRuns = 1
    MirrorTroubles = 1
    Threshold = 2
    Cooldown = 2
    MaxClock = 6
    MaxCount = 3
    Pairs = {1, 2, 3}
    Refused = {3}
    MaxViews = 2
    MaxPairs = 2
    MaxRows = 2
    MaxPages = 3
    MaxDrains = 2
    Schema <- MCSchema
    Events <- MCEvents
    MaxChanges = 4
    MaxLoads = 2
    MaxMishaps = 1
SYMMETRY Symmetry
CHECK_DEADLOCK FALSE
INVARIANTS
    StoreTypeOK
    
    
    
    CircuitHolds
PROPERTIES
    NothingIsReopened
