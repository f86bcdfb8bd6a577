CONSTANTS
    noBar = noBar
    NoBar = noBar
    Requests <- MCRequests
    Metrics <- MCMetrics
    Unscored = Unscored
    KeepFloorBase = 1
    KeepNum = 2
    KeepDen = 3
SPECIFICATION Spec
INVARIANTS OutcomesHold BarrierIsFair
PROPERTIES BarrierStays AbortDrains BatchEnds
CHECK_DEADLOCK FALSE
