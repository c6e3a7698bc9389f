SPECIFICATION Spec
CONSTANTS
    Nodes = {local, n2}
    Local = local
    Backends = {rustvmm, qemu}
    Home = qemu
    MaxMigrations = 2
INVARIANTS
    NodeHasMigration
    NoStaleSuccess
PROPERTY EarlyCancelHolds
CHECK_DEADLOCK FALSE
