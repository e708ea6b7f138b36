CONSTANTS
    t1 = t1
    t2 = t2
    t3 = t3
    Nobody = Nobody
    Tasks <- MCTasks
    Core <- MCCore
    Prio <- MCPrio
    Size = 4
    FrameLen = 5
    MaxCalls = 1
    Faults = {"ticker", "reenter"}
SPECIFICATION FairSpec
INVARIANTS TypeOK OneLogger FramesWhole NothingLost UnreadIsLatest
PROPERTIES FlushIsComplete CallsReturn
CHECK_DEADLOCK FALSE
