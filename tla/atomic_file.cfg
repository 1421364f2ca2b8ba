SPECIFICATION Spec
CONSTANTS
    Writes = {w1, w2, w3}
    Old = Old
    Torn = Torn
    DirSync = TRUE
    MaxLosses = 2
CHECK_DEADLOCK FALSE
INVARIANTS
    ReturnedIsDurable
    NoStrayTemps
PROPERTY
    ImplementsDurableFile
