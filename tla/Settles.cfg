SPECIFICATION FairSpec
CONSTANTS
    t1 = t1
    t2 = t2
    w1 = w1
    w2 = w2
    NoTask = NoTask
    NoWorker = NoWorker
    Task <- TwoTasks
    Worker <- OneWorker
    Priority <- NormalLow
    MaxRetries <- OneRetry
    TicksPerMilli = 1
    MaxTime = 0
    Batch = 500
    Slots <- OneSlot
    Capable <- AllTypes
    HasHandler <- OnlyT2
    Retriable <- OneTask
    Delays = {0}
    HighWatermark = 1
    Cancellable = {}
    Rejected <- AsDeployed
    MaxAttempts = 4
    MaxFaults = 0
    MaxCrashes = 1
    MaxStalls = 0
    MaxExpiries = 1
    MaxDeadRetries = 0
PROPERTIES EveryTaskSettles
