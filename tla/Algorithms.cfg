SPECIFICATION Spec
CONSTANTS
    Task = {}
    NoTask = NoTask
    Worker = {}
    NoWorker = NoWorker
    Priority <- NoRanks
    MaxRetries <- NoRanks
    TicksPerMilli = 1
    MaxTime = 0
    Batch = 500
    HighWatermark = 3
    NoId = 0
    Definitions <- SmallDefinitions
    TicksPerSecond = 2
    SecondsPerMinute = 2
    MinutesPerHour = 2
    HoursPerDay = 2
    MonthDays <- TwoMonths
    WeekDays = 3
    LimitDays = 6
    Policies <- MixedPolicies
    Starts <- SomeStarts
    Lags = {0, 1}
    Cap = 20
    MaxFailures = 6
INVARIANTS  CronRetryInMinute  BoundedBypass LayersAreTight 
CHECK_DEADLOCK FALSE
