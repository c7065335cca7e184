SPECIFICATION AdmissionSpec
CONSTANTS
    s1 = s1
    s2 = s2
    a = a
    b = b
    None = None
    Lost = Lost
    w1 = w1
    w2 = w2
    Requests = {1, 2, 3}
    Sources = {a, b}
    SourceOf <- MCSourceOf
    Mutations = {1}
    Sessions = {s1, s2}
    SessionOf <- MCSessionOf
    MaxTime = 2
    MaxLeases = 2
    Workers = {w1, w2}
    OperationOf <- MCOperationOf
    GlobalLimit = 3
    SourceLimit = 2
    ClassLimit <- MCClassLimit
    MaxFaults = 1
    RunStatuses = {"running", "cancelled"}
SYMMETRY WorkerSymmetry
INVARIANTS
    BudgetRespected
    NothingLeaked
    CompletedSessionQuiet
    MutualExclusion
    HolderCanComplete
PROPERTIES
    ImplementsLock
    NoOvertaking
CHECK_DEADLOCK FALSE
