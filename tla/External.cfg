SPECIFICATION Spec
CONSTANTS
    t1 = t1
    t2 = t2
    w1 = w1
    NoTask = NoTask
    NoWorker = NoWorker
    Task = {t1, t2}
    Worker = {w1}
    Priority <- OnePriority
    MaxRetries <- NoRetries
    TicksPerMilli = 1
    MaxTime = 0
    Batch = 500
    Key = {"k"}
    NoKey = "none"
    Keys <- SharedOrNone
    Slots <- TwoSlots
    MaxObjects = 2
    MaxAttempts = 2
    MaxTroubles = 1
INVARIANTS TypeOK IdempotentAnswers ReadyIsQueued ClosedOnce UnreportedIsUndecided StaleOnlyAfterReplacement SlotsRespected
SYMMETRY Alike
