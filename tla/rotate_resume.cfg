SPECIFICATION Spec
CONSTANTS
    None = None
    a = a
    b = b
    old = old
    new = new
    t = t
    k0 = k0
    k1 = k1
    k2 = k2
    k3 = k3
    k4 = k4
    Procs = {p1, p2}
    Names = {a, b}
    Temps = {}
    Values = {old, new}
    Tags = {t}
    MasterKeys = {k0, k1, k2, k3, k4}
    FirstKey = k0
    Commands <- ReadCommands
    MaxCommands = 3
    MaxCrashes = 1
CHECK_DEADLOCK FALSE
INVARIANT
    RotationResumes
