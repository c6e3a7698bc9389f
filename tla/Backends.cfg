\* Two slots and six pushes write every slot of the event ring three times;
\* three callers beside the heartbeat may all be inside when the breaker opens.
CONSTANTS
    QCallers = {c1, c2}
    MaxHandles = 2
    LCallers = {c1, c2}
    CNames = {a, b}
    MaxContainers = 2
    Conns = {k1, k2}
    Senders = {b1, b2}
    QueueSize = 2
    IdxWord = 4
    MaxRequests = 2
    MaxBlkFaults = 2
    Event = {e1, e2, e3}
    NoEvent = none
    Capacity = 2
    MaxPush = 6
    Callers = {c1, c2, c3, hb}
    Heartbeat = hb
    failureThreshold = 3
    Nodes = {local, n2}
    Local = local
    Backends = {rustvmm, qemu}
    Home = qemu
    MaxMigrations = 1
SPECIFICATION MCSpec
INVARIANTS
    ProcessHasVM
    PausedStandsStill
    RecordOwnsContainer
    NoWriteAfterClose
    HeadsConserved
    BuffersLive
    NoSlotRace
    LenInRange
    ClosedIffBelowThreshold
PROPERTIES
    ConsoleEnds
    WaitEnds
    ImplementsEventQueue
    Recovers
    MigrationEnds
CHECK_DEADLOCK FALSE
