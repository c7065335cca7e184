SPECIFICATION FairRelaySpec
CONSTANTS
    d1 = d1
    Devices = {d1}
    MaxSockets = 2
    SocketOf <- MCSocketOf
    Requests = {1, 2}
    TargetOf <- MCTargetOf
    StaleAfter = 1
    MaxCrashes = 1
    None = None
INVARIANTS
    SuccessIsTrue
    
    MapIsCurrent
PROPERTIES
    EveryRequestAnswered
    DeadConnectionDropped
CHECK_DEADLOCK FALSE
