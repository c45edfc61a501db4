SPECIFICATION FairService
CONSTANTS
    MinBackoff = 1
    MaxBackoff = 3
    WakerMax = 2
    Interval = 9
    MaxFaults = 3
    MaxEvents = 2
    TableCount = 2
    Parent <- ChildFirst
INVARIANTS ServiceTypeOK NudgeKept WaitsItsTurn Covered ReadyMeansCurrent
PROPERTIES Arrives ShutsDown
CHECK_DEADLOCK FALSE
