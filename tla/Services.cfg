CONSTANTS
    Clients = {c1, c2}
    StoreUsers = {c1, c2}
    Admins = {c1, c2}
    Users = {c1, c2}
    Requesters = {c1, c2}
    Tenants = {c1, c2}
    Terminals = {c1, c2}
    Span = 2
    MaxMade = 2
    MaxLogins = 2
    Pools = {zfs}
    NoPool = nopool
    UsedAtStart = 1
    Sizes = {0, 2}
    BackupSize = 1
    Word = 6
    MaxVolumes = 3
    MaxSnapshots = 2
    MaxBackups = 1
    ImageNames = {i1, i2}
    SnapNames = {s1}
    MaxImages = 2
    MaxCephSnaps = 2
    Zones = {vx, si}
    VxlanZone = vx
    SimpleZone = si
    MaxVNets = 3
    MaxRules = 1
    PoolNames = {p}
    Top = 3
    PciDevices = {d1, d2}
    VMs = {0, 1}
    MaxImageID = 5
    MaxTemplateID = 4
    UserNames = {"admin"}
    NewRoles = {"viewer"}
    MaxTokens = 2
    MaxBoots = 2
    MaxCodes = 3
    MaxStarts = 2
    Unit = 2
    Rate = 1
    Burst = 2
    MaxClock = 6
SPECIFICATION Spec
VIEW View
SYMMETRY Interchangeable
INVARIANTS
    UsedIsSum
    TrackedHasImage
    ZoneOwnsIfaces
    WindowBound
    SuccessIsServed
    CodeUsedOnce
PROPERTIES
    OrphanStaysOrphan
    
    ExhaustedIsFull
    EntryNeverReplaced
    SpentTokenRefused
    ActsOnMeant
CHECK_DEADLOCK FALSE
