SPECIFICATION PlanSpec
CONSTANTS
    N = 3
    DependsOn <- MCDependsOn
    Mutating = {}
    Clashes <- MCClashes
    Heavy = {1}
    Capacity = 2
    Sessions = {s1, s2}
    MaxFaults = 2
    None = None
SYMMETRY MCSymmetry
INVARIANTS
    
    DependenciesPassed
    RunOnce
    
PROPERTY CancelAndVerdictStick
CHECK_DEADLOCK FALSE
