CONSTANTS
    c1 = c1
    c2 = c2
    g1 = g1
    g2 = g2
    Readers <- MCReaders
    Renders <- MCRenders
    AnyRender = AnyRender
    HistoryLimit = 1
    MaxPublish = 3
    MaxStale = 1
SPECIFICATION FairSpec
INVARIANTS
    EveryChannelIsAnswered
PROPERTIES
    ImplementsLog
    EveryStreamCatchesUp
CHECK_DEADLOCK FALSE
