SPECIFICATION Spec
CONSTANTS
    Sets = {s1, s2}
    Products = {p1}
    Clients = {c1, c2}
    NoSet = NoSet
    MaxEdits = 2
    MaxBumps = 3
SYMMETRY Symmetry
INVARIANTS
    TypeOK
    HistorySound
PROPERTIES
    HistoryImmutable
    ImplementsClock
CHECK_DEADLOCK FALSE
