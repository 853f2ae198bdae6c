SPECIFICATION SpecParts
CONSTANTS
    Sessions = {s1, s2}
    Folders = {f1, f2}
    Heads = {main, dev}
    Segments <- MCDefinitions
    TTLs = {1}
    Never <- Forever
    MaxAsks = 3
    MaxTime = 2
    MaxCheckouts = 1
    Branches <- MCBranches
    Files = {file}
    Changes <- MCChanges
    Remotes <- MCRemotes
    Options <- MCOptions
    Layouts <- MCLayouts
    MaxSteps = 2
    MaxCommands = 3
    Settings <- MCSettings
    Home <- MCHome
    Tree <- MCTree
    Repos <- MCRepos
    Documents <- MCDocuments
    Config = "config"
    Targets = {"a", "b"}
    DirOf <- MCDirOf
    MaxSaves = 2
    Types = {"git", "text"}
    Renders <- MCRenders
INVARIANTS
    SegmentTellsTheRepository
    PathNamesTheDirectory
    DocumentIsReadAsWritten
    ReuseIsInScope
    NewsIsOwed
    ShownAsListed
    DrawingNeverWaitsInVain
CHECK_DEADLOCK FALSE
