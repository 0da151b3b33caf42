SPECIFICATION Spec
CONSTANTS
    NoId = 0
    NodeCount = 3
    Requests <- Mixed
    MaxLaunches = 2
    MaxTroubles = 1
INVARIANTS TypeOK DependenciesFirst AggregateSound NoneWaitingAfterEnd SerialLaunchesOnce SerialDagConcludes
CHECK_DEADLOCK FALSE
