SPECIFICATION Spec
CONSTANTS
    None = None
    p1 = p1
    p2 = p2
    Procs = {p1, p2}
    MaxRecords = 3
    MaxCommands = 6
    MaxCrashes = 1
CHECK_DEADLOCK FALSE
SYMMETRY Symmetry
INVARIANTS
    TypeOK
    LogInOrder
    LogWithinCap
    NothingIsForgotten
