SPECIFICATION CbSpec
CONSTANTS
    Callers = {c1, c2, c3, hb}
    Heartbeat = hb
    failureThreshold = 3
INVARIANT SingleTrial
