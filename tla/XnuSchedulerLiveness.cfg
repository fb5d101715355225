\* Fairness of the round robin: one base priority, timeshare threads.
SPECIFICATION LiveSpec
CONSTANTS
    Threads = {1, 2}
    ProcessorCount = 1
    RealtimeQueuePriority = 3
    MaxPriority = 3
    ProcessOf <- OneProcess
    InitialThread = 1
    QuantumTicks = 2
    SchedulerTickTicks = 3
    MaxKernelPriority = 1
    DefaultBasePriority = 1
    MaxUnsafeQuanta = 1
    FailsafeReleaseTicks = 1
    UsageDecayTicks = 2
    TickLimit = 3
    SuspendLimit = 0
    TaskPriorities = {1}
    BasePriorities = {1}
    TickCounts = {1}
    Timeshares = {}
    Bindings = {}
    DepressDurations = {2}
    RealtimeParameters <- NoRealtime
PROPERTY ThreadsGoOn
