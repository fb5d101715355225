\* Policies, depression, fail-safe and aging on one processor.
SPECIFICATION PolicySpec
CONSTANTS
    Threads = {1, 2}
    ProcessorCount = 1
    RealtimeQueuePriority = 3
    MaxPriority = 3
    ProcessOf <- OneProcess
    InitialThread = 1
    QuantumTicks = 1
    SchedulerTickTicks = 2
    MaxKernelPriority = 1
    DefaultBasePriority = 1
    MaxUnsafeQuanta = 1
    FailsafeReleaseTicks = 1
    UsageDecayTicks = 2
    TickLimit = 2
    SuspendLimit = 0
    TaskPriorities = {1}
    BasePriorities = {1}
    TickCounts = {1}
    Timeshares = {TRUE, FALSE}
    Bindings = {}
    DepressDurations = {2}
    RealtimeParameters <- TwoRealtimes
INVARIANTS
    CachesExact
    PreemptionSwitches
