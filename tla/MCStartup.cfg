CONSTANTS
    d1 = d1
    d2 = d2
    d3 = d3
    a1 = a1
    a2 = a2
    a3 = a3
    None = None
    Daemons = {d1, d2, d3}
    Calls = {a1, a2, a3}
    Ops = {"connect", "start", "stop", "restart"}
    Together = {TRUE, FALSE}
    MaxFaults <- FaultsWhenAlone
SPECIFICATION FairSpec
INVARIANTS
    OneDaemonPerHost
    ServingIsReachable
PROPERTY
    EveryCallConnects
CHECK_DEADLOCK FALSE
