SPECIFICATION QSpec
CONSTANTS
    t1 = t1
    t2 = t2
    t3 = t3
    Task <- MCTask
    NoTask = NoTask
    Worker = {}
    NoWorker = NoWorker
    Priority <- MCPriority
    MaxRetries <- MCMaxRetries
    TicksPerMilli = 2
    MaxTime = 3
    Batch = 2
INVARIANTS QTypeOK QueueConsistent
PROPERTY MemoryQueueSpec
