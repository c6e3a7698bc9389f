SPECIFICATION Spec
CONSTANTS
    Nodes = {local, n2}
    Local = local
    Backends = {rustvmm, qemu}
    Home = qemu
    MaxMigrations = 2
INVARIANT TaskTruthful
CHECK_DEADLOCK FALSE
