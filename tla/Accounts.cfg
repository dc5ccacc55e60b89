SPECIFICATION AccountsSpec
CONSTANTS
    Tabs = {r1, r2}
    AccessTtl = 1
    RefreshTtl = 1
    LockTtl = 1
    MaxTokens = 3
    MaxTime = 2
    MaxEvents = 2
    Requests = {r1, r2}
    People = {ann, bob}
    Founder = ann
    Sets = {s1, s2, s3}
    Products = {p1, p2}
    Limits = {1, 2}
    MaxWork = 4
    SeedNodes <- MCSeedNodes
    SeedRules <- MCSeedRules
    Drafts <- MCDrafts
    MaxSiblings = 2
    MaxRows = 11
    MaxRules = 2
    MaxEffort = 3
    HistoryLimit = 2
    MaxLayers = 2
    MaxActs = 3
    MaxOpens = 2
SYMMETRY Symmetry
CHECK_DEADLOCK FALSE
INVARIANTS
    AccountsTypeOK
    TabsKeepUp
    WorkspaceIsSound
    
PROPERTIES
    SessionsAreChains
