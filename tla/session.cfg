SPECIFICATION FairSpec
CONSTANTS
    Unlocks = {u1, u2, u3}
    Commands = {c1}
    Vaults = {v, w}
    u1 = u1
    u2 = u2
    u3 = u3
    c1 = c1
    v = v
    w = w
    VaultOf <- TwoVaults
    MaxDeaths = 1
    None = None
CHECK_DEADLOCK FALSE
INVARIANTS
    SessionHasCleaner
    WakingSparesOthers
    OwnKey
PROPERTY
    SessionExpires
