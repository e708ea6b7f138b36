CONSTANTS
    Buffers = 2
    SocketRoom = 2
    StackPool = 2
    MirrorPool = 1
    MaxArrived = 4
    MaxFailures = 1
SPECIFICATION FairSpec
INVARIANTS TypeOK StackBuffersConserved NeverBothHeldUp FramesAreAnnounced EchoedInOrder
PROPERTIES DatagramsAreEchoed
CHECK_DEADLOCK FALSE
