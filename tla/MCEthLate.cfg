SPECIFICATION Spec
CONSTANTS
    MaxSent = 1
    MaxArrived = 0
    RxBuffers = 0
    TxRing = 2
    RxRing = 1
    MaxRetries = 2
    Faults <- Slow
INVARIANTS TransmitAssertHolds
CHECK_DEADLOCK FALSE
