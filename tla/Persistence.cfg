CONSTANTS
    Callers = {c1, c2}
    MaxVMs = 2
    MaxRestarts = 1
    StoreFails = TRUE
    EtcdFails = TRUE
    SnapUsers = {c1, c2}
    MaxSnaps = 3
    MaxSnapRestarts = 1
SPECIFICATION Spec
VIEW View
SYMMETRY Interchangeable
INVARIANTS
    QuietIsStored
    OwedIsListed
PROPERTY SnapshotKept
CHECK_DEADLOCK FALSE
