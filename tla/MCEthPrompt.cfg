SPECIFICATION FairSpec
CONSTANTS
    MaxSent = 3
    MaxArrived = 2
    RxBuffers = 1
    TxRing = 1
    RxRing = 2
    MaxRetries = 2
    Faults <- NoFaults
PROPERTIES FramesAreRead ImplementsFrameService
CHECK_DEADLOCK FALSE
