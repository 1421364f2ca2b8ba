SPECIFICATION FairSpec
CONSTANTS
    None = None
    a = a
    b = b
    old = old
    new = new
    t = t
    k0 = k0
    k1 = k1
    k2 = k2
    k3 = k3
    k4 = k4
    Procs = {p1, p2}
    Names = {a, b}
    Temps = {t1}
    Values = {old, new}
    Tags = {t}
    MasterKeys = {k0, k1, k2, k3, k4}
    FirstKey = k0
    Commands <- RotateCommands
    MaxCommands = 4
    MaxCrashes = 2
CHECK_DEADLOCK FALSE
INVARIANTS
    IInv
    SecretsOpen
    ManifestReadable
    CommitIsComplete
    NoStaleCommit
    IndexMatchesStore
PROPERTIES
    OnlyForceReplaces
    ImplementsSecretIndex
    EveryCommandEnds
