SPECIFICATION Spec
CONSTANTS
    MaxSent = 2
    MaxArrived = 2
    RxBuffers = 2
    TxRing = 2
    RxRing = 1
    MaxRetries = 2
    Faults <- AllFaults
INVARIANTS TypeOK BuffersConserved FramesConserved NoAssertFails AnsweredAfterTransmitted SendingIsTimed
CHECK_DEADLOCK FALSE
