SPECIFICATION Spec
CONSTANTS
    Sets = {s1, s2}
    Products = {p1}
    Syncs = {cron}
    MaxVersion = 2
    MaxCrashes = 1
SYMMETRY Symmetry
INVARIANTS
    TypeOK
    AnswerCovers
    EtagTruthful
    IndexMatches
PROPERTIES
    HeldNeverRegresses
CHECK_DEADLOCK FALSE
