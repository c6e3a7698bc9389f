CONSTANTS
    N = 2
    VMCount = 2
    MaxCrashes = 1
    MaxFaults = 0
    Policies = {"always", "never"}
    Wired = FALSE
SPECIFICATION FailoverSpec
PROPERTY CrashIsHandled
