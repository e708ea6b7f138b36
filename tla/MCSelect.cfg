SPECIFICATION Spec
CONSTANTS
    NumTasks = 2
    Bits <- BitsAB
    Supported <- BitsAB
    MaxMessages = 2
    Awaits <- AwaitsSelect
    ForeignWakes = FALSE
    KernelErrors = FALSE
INVARIANTS PanicsOnlyAsDocumented
CHECK_DEADLOCK FALSE
