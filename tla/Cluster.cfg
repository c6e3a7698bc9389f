CONSTANTS
    N = 3
    VMCount = 1
    MaxCrashes = 1
    MaxFaults = 1
    Policies = {"always"}
    Wired = TRUE
SPECIFICATION ClSpec
INVARIANTS OneMigrationPerVM OneMovePerCrash
PROPERTY LeaderEmerges
