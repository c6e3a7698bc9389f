SPECIFICATION FairSpec
CONSTANTS
    Threads = {t1, t2}
    MaxHandle = 2
    Core = "mock"
INVARIANTS
    ListedIffRegistered
    CacheNeverAhead
PROPERTIES
    ImplementsVMLife
    DestroyedLeavesList
CHECK_DEADLOCK FALSE
