CONSTANTS
    r1 = r1
    r2 = r2
    s1 = s1
    path1 = path1
    path2 = path2
    Reloader = Reloader
    Worker = Worker
    Nobody = Nobody
    ZeroID = ZeroID
    Reloads = {Reloader}
    Requests <- Two
    Sessions = {s1}
    SessionOf <- OneSession
    PathOf <- OnePath
    Kinds = {"hard", "soft"}
    Overlap = FALSE
    MayExit = {}
    MayDisconnect = FALSE
    MaxSaves = 1
    Saves = {"older"}
SPECIFICATION AnsweringSpec
PROPERTY
    EveryReloadEnds
CHECK_DEADLOCK FALSE
