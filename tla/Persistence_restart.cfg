CONSTANTS
    Callers = {c1}
    MaxVMs = 2
    MaxRestarts = 1
    StoreFails = FALSE
    EtcdFails = FALSE
    SnapUsers = {c1}
    MaxSnaps = 0
    MaxSnapRestarts = 0
SPECIFICATION Spec
INVARIANT DestroyedStaysGone
CHECK_DEADLOCK FALSE
