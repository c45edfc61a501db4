SPECIFICATION BackfillSpec
CONSTANTS
    Class = "append_only"
    CursorColumn = "id"
    Filtering = "fixed"
    Refusals = TRUE
    MaxRow = 3
    MaxRev = 1
    MaxTime = 1
    MaxGone = 3
    Skew = 0
    Legacy = 2
    Overlap = 0
    BatchSize = 1
    OpenLimit = 1
    ChunkSize = 1
    RowFaults = TRUE
    MaxFaults = 1
    MaxRefilters = 0
INVARIANTS InterruptionLosesNothing
