SPECIFICATION FairSpec
CONSTANTS
    Sets = {s1}
    Products = {p1}
    Syncs = {cron}
    MaxVersion = 2
    MaxCrashes = 1
PROPERTIES
    CatchesUp
CHECK_DEADLOCK FALSE
