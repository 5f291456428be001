SPECIFICATION Spec
CONSTANTS
    MaxThreads = 5
    MaxTasks = 3
    HardwareThreads = 2
    Sizes <- MCSizes
INVARIANTS NoLostWakeup
PROPERTIES EveryTaskServed KillReturns ImplementsTaskPool
CHECK_DEADLOCK FALSE
