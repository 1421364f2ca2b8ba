SPECIFICATION PowerSpec
CONSTANTS
    None = None
    a = a
    b = b
    old = old
    new = new
    t = t
    k0 = k0
    k1 = k1
    Procs = {p1, p2}
    Names = {a, b}
    Temps = {t1}
    Values = {old, new}
    Tags = {t}
    MasterKeys = {k0, k1}
    FirstKey = k0
    Commands <- PowerCommands
    MaxCommands = 4
    MaxCrashes = 1
    MaxLosses = 1
CHECK_DEADLOCK FALSE
INVARIANTS
    NoLostUpdate
    NothingToLose
    ReindexRepairs
    RotationIsDurable
