SPECIFICATION FairSpec
CONSTANTS
    Callers <- MCCallers
    Tasks <- MCTasks
    Prio <- MCPrio
    Queues <- MCQueues
    Sems <- MCSems
    QSize <- MCQSize
    NoMsg = NoMsg
    MsPerTick = 2
    ArpMs = 6
    DhcpsMs = 4
    SelTicks = 1
    PostTries = 2
    PostDly = 1
    NumTimeout = 4
    MaxPackets = 2
    MaxCalls = 2
    MaxStarts = 1
PROPERTY
    FetchTimeTrue
