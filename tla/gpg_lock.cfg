SPECIFICATION Spec
CONSTANTS
    g1 = g1
    g2 = g2
    g3 = g3
    d1 = d1
    d2 = d2
    here = here
    there = there
    Calls = {g1, g2, g3}
    Daemons = {d1, d2}
    Hosts = {here, there}
    HostOf <- TwoHosts
    None = None
CHECK_DEADLOCK FALSE
INVARIANT
    OneWorkerPerHost
PROPERTY
    EveryCallEnds
