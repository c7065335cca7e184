SPECIFICATION ExecSpec
CONSTANTS
    p1 = p1
    p2 = p2
    r1 = r1
    x1 = x1
    x2 = x2
    w1 = w1
    w2 = w2
    Packets = {p1, p2}
    Runs = {r1}
    RunOf <- OneRun
    Delegated = {}
    Workers = {w1, w2}
    NoWorker = NoWorker
    NoPacket = NoPacket
    MaxPacketRecords = 2
    MaxReservations = 2
    MaxClaims = 2
    Paths = {x1, x2}
    PathOf <- OwnPath
    Committing = {p1, p2}
    GoalCommands = {p1}
    TaskOf <- SameTask
    Base = Base
    NoJournal = NoJournal
    MayExpire = TRUE
    RunWriteFails = FALSE
    ControlActions = {"pause", "resume", "cancel", "close"}
    MaxCrashes = 0
    MaxControls = 2
SYMMETRY WorkerSymmetry
INVARIANTS
    
    CancelSticks
    CompletedApplied
 
CHECK_DEADLOCK FALSE
