SPECIFICATION MigSpec
CONSTANTS
    o1 = o1
    o2 = o2
    i1 = i1
    i2 = i2
    Ops = {o1, o2}
    Invs = {i1, i2}
    NoOp = NoOp
    NoInv = NoInv
    ModeOf <- ApplyAndRollback
    Suspends = FALSE
    MaxReadbacks = 10
    MaxFaults = 1
INVARIANTS
    MutateOnce
    
    HostAccepts
PROPERTY VerdictTrue
CHECK_DEADLOCK FALSE
