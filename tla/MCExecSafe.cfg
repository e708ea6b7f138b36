SPECIFICATION Spec
CONSTANTS
    NumTasks = 2
    Bits <- BitsABC
    Supported <- BitsAB
    MaxMessages = 2
    Awaits <- AwaitsMixed
    ForeignWakes = TRUE
    KernelErrors = TRUE
INVARIANTS TypeOK NeverAwaitedAndTriggered SleepersCanBeWoken NoSleepOnAnsweredBit MessagesConserved FailureEndsTheRun
PROPERTIES TakenInOrder ReturnedIsFinal DroppedOnlyUnawaited
CHECK_DEADLOCK FALSE
