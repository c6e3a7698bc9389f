SPECIFICATION Spec
CONSTANTS
    Nodes = {local, n2}
    Local = local
    Backends = {rustvmm, qemu}
    Home = qemu
    MaxMigrations = 1
PROPERTY CompletedMeansMoved
CHECK_DEADLOCK FALSE
