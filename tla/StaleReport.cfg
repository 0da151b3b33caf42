SPECIFICATION Spec
CONSTANTS
    t1 = t1
    t2 = t2
    w1 = w1
    w2 = w2
    NoTask = NoTask
    NoWorker = NoWorker
    Task <- TwoTasks
    Worker <- OneWorker
    Priority <- CriticalLow
    MaxRetries <- NoRetries
    TicksPerMilli = 1
    MaxTime = 0
    Batch = 500
    Slots <- OneSlot
    Capable <- AllTypes
    HasHandler <- AllTypes
    Retriable <- TwoTasks
    Delays = {0}
    HighWatermark = 1
    Cancellable = {}
    Rejected = {}
    MaxAttempts = 3
    MaxFaults = 0
    MaxCrashes = 0
    MaxStalls = 0
    MaxExpiries = 0
    MaxDeadRetries = 0
INVARIANTS VerdictFromOwnRun
