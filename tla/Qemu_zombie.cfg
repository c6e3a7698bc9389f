CONSTANTS
    QCallers = {c1}
    MaxHandles = 1
SPECIFICATION QmSpec
PROPERTY DeadIsStopped
