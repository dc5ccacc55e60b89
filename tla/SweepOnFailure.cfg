SPECIFICATION FilesSpec
CONSTANTS
    Uploads = {1, 2, 3}
    Files <- MCFilesOf
    AcceptedTypes = {}
    MaxSize = 3
    MaxPixels = 2
    Orders = {1, 2}
    MaxFiles = 2
    MaxBytes = 3
    Batch = 1
    Overlapping = FALSE
    QueryFails = TRUE
    MaxTroubles = 1
    Lines = {1, 2, 3}
    OrderOf <- MCOrderOf
    BadScenes = {2}
    Incomplete = {1}
    Workers = {w1}
    Passes = {p1}
    RenderBatch = 2
    MaxAttempts = 2
    RenderTroubles = 2
CHECK_DEADLOCK FALSE
PROPERTY
    OrderedArtworkStays
