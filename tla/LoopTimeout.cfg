SPECIFICATION LoopSpec
CONSTANTS
    MinBackoff = 1
    MaxBackoff = 3
    WakerMax = 3
    Interval = 9
    MaxFaults = 2
    MaxEvents = 1
INVARIANTS FailedPassKeepsLoop

CHECK_DEADLOCK FALSE
