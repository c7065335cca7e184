SPECIFICATION FairFreshSpec
CONSTANTS
    Sources = {a}
    PolicyBound = {a}
    None = None
    MaxQueue = 1
    MaxConcurrent = 1
    MaxHead = 1
    RetryLimit = 1
    MaxFailures = 2
    MaxEdits = 2
    MaxCrashes = 1
INVARIANT IndexingIsLive
 
CHECK_DEADLOCK FALSE
