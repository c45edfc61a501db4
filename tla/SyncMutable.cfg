SPECIFICATION MCSpec
CONSTANTS
    Class = "mutable"
    CursorColumn = "updated_at"
    Filtering = "moving"
    Refusals = FALSE
    MaxRow = 2
    MaxRev = 3
    MaxTime = 3
    MaxGone = 0
    Skew = 1
    Legacy = 2
    Overlap = 1
    BatchSize = 1
    OpenLimit = 1
    ChunkSize = 1
    RowFaults = FALSE
    MaxFaults = 1
INVARIANTS NothingLost FreshAsOfStart
PROPERTIES Converges ImplementsReplica
