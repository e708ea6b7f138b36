SPECIFICATION FairSpec
CONSTANTS
    NumTasks = 2
    Bits <- BitsA
    Supported <- BitsA
    MaxMessages = 0
    Awaits <- AwaitsEvents1
    ForeignWakes = TRUE
    KernelErrors = FALSE
PROPERTIES WokenIsPolled
CHECK_DEADLOCK FALSE
