SPECIFICATION BackfillSpec
CONSTANTS
    Class = "mutable"
    CursorColumn = "updated_at"
    Filtering = "none"
    Refusals = FALSE
    MaxRow = 2
    MaxRev = 2
    MaxTime = 3
    MaxGone = 0
    Skew = 0
    Legacy = 0
    Overlap = 1
    BatchSize = 3
    OpenLimit = 1
    ChunkSize = 1
    RowFaults = FALSE
    MaxFaults = 0
    MaxRefilters = 0
INVARIANTS RerunIsSafe
