SPECIFICATION Spec
CONSTANTS
    p1 = p1
    p2 = p2
    Procs = {p1, p2}
    MaxCommands = 3
    MaxCrashes = 1
    None = None
SYMMETRY Symmetry
CHECK_DEADLOCK FALSE
INVARIANTS
    TypeOK
    OneInitMadeIt
    InitReplacesNothing
    CommitsAreKept
    EveryChangeIsCommitted
    LockFileNotTracked
