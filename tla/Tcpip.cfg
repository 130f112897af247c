SPECIFICATION FairSpec
CONSTANTS
    Callers <- MCCallers
    Tasks <- MCTasks
    Prio <- MCPrio
    Queues <- MCQueues
    Sems <- MCSems
    QSize <- MCQSize
    NoMsg = NoMsg
    MsPerTick = 2
    ArpMs = 2
    DhcpsMs = 1
    SelTicks = 1
    PostTries = 2
    PostDly = 1
    NumTimeout = 4
    MaxPackets = 2
    MaxCalls = 1
    MaxStarts = 2
INVARIANTS
    WaitsSound
    MessagesInOrder
    SelectWorks
    
PROPERTIES
    ApiReturns
