SPECIFICATION Spec
CONSTANTS
    t1 = t1
    t2 = t2
    w1 = w1
    w2 = w2
    NoTask = NoTask
    NoWorker = NoWorker
    Task <- OneTask
    Worker <- OneWorker
    Priority <- AllNormal
    MaxRetries <- OneRetry
    TicksPerMilli = 1
    MaxTime = 1
    Batch = 500
    Slots <- OneSlot
    Capable <- AllTypes
    HasHandler <- AllTypes
    Retriable <- OneTask
    Delays = {0, 1}
    HighWatermark = 1
    Cancellable <- OneTask
    Rejected = {}
    MaxAttempts = 3
    MaxFaults = 1
    MaxCrashes = 1
    MaxStalls = 1
    MaxExpiries = 1
    MaxDeadRetries = 1
INVARIANTS NoReadyTaskLost  OrphansHaveCause
