CONSTANTS
    p1 = p1
    p2 = p2
    None = None
    Pids = {p1, p2}
    Requests = {1, 2, 3}
    SessionOf <- PidOf
    MaxShells = 2
    MaxRequests = 2
    Completes = {p1}
    MaxCompletes = 1
    IdleStops = TRUE
SPECIFICATION FairSpec
INVARIANTS
    ShellInheritsNothing
PROPERTIES
    OnlyHauntedShellsAreDropped
    SparesEarlierSessions
    ExitsAreNoticed
    EmptyDaemonStops
CHECK_DEADLOCK FALSE
