\* Threads come and go, wait, are woken, suspended, resumed and bound, on two
\* processors with their own queues.
SPECIFICATION Spec
CONSTANTS
    Threads = {1, 2}
    ProcessorCount = 2
    RealtimeQueuePriority = 3
    MaxPriority = 3
    ProcessOf <- OneProcess
    InitialThread = 1
    QuantumTicks = 1
    SchedulerTickTicks = 2
    MaxKernelPriority = 1
    DefaultBasePriority = 1
    MaxUnsafeQuanta = 1
    FailsafeReleaseTicks = 1
    UsageDecayTicks = 2
    TickLimit = 1
    SuspendLimit = 2
    TaskPriorities = {0, 1}
    BasePriorities = {0}
    TickCounts = {1}
    Timeshares = {}
    Bindings = {0}
    DepressDurations = {}
    RealtimeParameters <- NoRealtime
INVARIANTS
    TypeOK
    QueuesMatchThreads
    CountersExact
    SuspendedThreadsWait
    NoThreadStranded
PROPERTY ChoosesHighestPriority
