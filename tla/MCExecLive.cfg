SPECIFICATION FairSpec
CONSTANTS
    NumTasks = 3
    Bits <- BitsA
    Supported <- BitsA
    MaxMessages = 1
    Awaits <- AwaitsOneReader
    ForeignWakes = FALSE
    KernelErrors = FALSE
INVARIANTS IdleOnlyWhenNothingReady
PROPERTIES EventAwaitReturns MessageAwaitReturns ImplementsContract
CHECK_DEADLOCK FALSE
