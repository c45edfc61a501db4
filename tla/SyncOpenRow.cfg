SPECIFICATION MCSpec
CONSTANTS
    Class = "open_row"
    CursorColumn = "id"
    Filtering = "none"
    Refusals = FALSE
    MaxRow = 2
    MaxRev = 3
    MaxTime = 1
    MaxGone = 2
    Skew = 0
    Legacy = 0
    Overlap = 0
    BatchSize = 1
    OpenLimit = 2
    ChunkSize = 1
    RowFaults = FALSE
    MaxFaults = 1
INVARIANTS TypeOK NothingLost FreshAsOfStart
PROPERTIES Converges ImplementsReplica
