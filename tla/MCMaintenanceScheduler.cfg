SPECIFICATION MaintSpec
CONSTANTS
    Sources = {a, b, c, d}
    MaxQueue = 3
    MaxConcurrent = 2
INVARIANT NoIdleSlot
PROPERTY EveryJobStarts
