SPECIFICATION RelaySpec
CONSTANTS
    d1 = d1
    Devices = {d1}
    MaxSockets = 2
    SocketOf <- MCSocketOf
    Requests = {1, 2}
    TargetOf <- MCTargetOf
    StaleAfter = 1
    MaxCrashes = 1
    None = None
INVARIANT ReconnectedIsServed
CHECK_DEADLOCK FALSE
