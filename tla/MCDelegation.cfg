SPECIFICATION FairDelegSpec
CONSTANTS
    Goal = Goal
    r1 = r1
    Codex = Codex
    Local = Local
    Packets = {Goal}
    Runs = {r1}
    RunOf <- MCRunOf
    Delegated = {Goal}
    Workers = {Codex, Local}
    NoWorker = NoWorker
    NoPacket = NoPacket
    MaxPacketRecords = 1
    MaxReservations = 1
    MaxClaims = 3
    Kinds = {"read_only", "mutation", "commit"}
    MaxFaults = 2
    MaxControls = 2
INVARIANTS
    SpawnOnce
    CancelHonoured
PROPERTIES
    DelegImplementsStore
    DelegationSettles
CHECK_DEADLOCK FALSE
