SPECIFICATION TransferSpec
CONSTANTS
    a = a
    b = b
    x = x
    y = y
    t = t
    Names = {a, b}
    Values = {x, y}
    Tags = {t}
    Dumps <- SmallDumps
    MaxEdits = 1
    MaxRuns = 2
    MaxSourceEdits = 2
    MaxBothEdits = 2
    None = None
CHECK_DEADLOCK FALSE
INVARIANTS
    
    DumpHoldsWhatWas
    
PROPERTY
    ExistingAreSkipped
