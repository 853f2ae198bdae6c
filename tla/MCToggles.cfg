CONSTANTS
    s1 = s1
    s2 = s2
    git = git
    c1 = c1
    c2 = c2
    c3 = c3
    Sessions = {s1, s2}
    Names = {git}
    Callers = {c1, c2, c3}
    SessionOf <- TwoSessions
    Boot = {}
    Edits <- AddsGit
    MaxSaves = 1
    MaxClears = 1
    MaxEnds = 1
    Overlap = TRUE
SPECIFICATION FairSpec
INVARIANTS
    UsersWordStands
    LiveShellsHaveGains
PROPERTY
    GainsArrive
CHECK_DEADLOCK FALSE
