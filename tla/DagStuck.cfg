SPECIFICATION FairSpec
CONSTANTS
    NoId = 0
    NodeCount = 3
    Requests <- FanInSkip
    MaxLaunches = 2
    MaxTroubles = 0
PROPERTY DagConcludes
CHECK_DEADLOCK FALSE
