SPECIFICATION Spec
CONSTANTS
    Class = "open_row"
    CursorColumn = "finished_at"
    Filtering = "none"
    Refusals = FALSE
    MaxRow = 2
    MaxRev = 2
    MaxTime = 2
    MaxGone = 2
    Skew = 0
    Legacy = 0
    Overlap = 1
    BatchSize = 2
    OpenLimit = 2
    ChunkSize = 2
    RowFaults = FALSE
    MaxFaults = 0
INVARIANTS RescanFindsUnstarted
