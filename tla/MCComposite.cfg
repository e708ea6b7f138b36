SPECIFICATION Spec
CONSTANTS
    NumTasks = 2
    Bits <- BitsAB
    Supported <- BitsAB
    MaxMessages = 0
    Awaits <- AwaitsComposite
    ForeignWakes = FALSE
    KernelErrors = FALSE
INVARIANTS NoSleepOnAnsweredAwait
CHECK_DEADLOCK FALSE
