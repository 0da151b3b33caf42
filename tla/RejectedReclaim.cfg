SPECIFICATION FairSpec
CONSTANTS
    t1 = t1
    t2 = t2
    w1 = w1
    w2 = w2
    NoTask = NoTask
    NoWorker = NoWorker
    Task <- OneTask
    Worker <- OneWorker
    Priority <- AllNormal
    MaxRetries <- NoRetries
    TicksPerMilli = 1
    MaxTime = 0
    Batch = 500
    Slots <- OneSlot
    Capable <- AllTypes
    HasHandler <- AllTypes
    Retriable <- OneTask
    Delays = {0}
    HighWatermark = 1
    Cancellable = {}
    Rejected <- AsDeployed
    MaxAttempts = 3
    MaxFaults = 1
    MaxCrashes = 0
    MaxStalls = 0
    MaxExpiries = 1
    MaxDeadRetries = 0
PROPERTIES LapsedIsReclaimed
