SPECIFICATION FairSpec
CONSTANTS
    Class = "open_row"
    CursorColumn = "id"
    Filtering = "state"
    Refusals = FALSE
    MaxRow = 2
    MaxRev = 2
    MaxTime = 1
    MaxGone = 2
    Skew = 0
    Legacy = 0
    Overlap = 0
    BatchSize = 2
    OpenLimit = 2
    ChunkSize = 2
    RowFaults = FALSE
    MaxFaults = 0
PROPERTIES SettledArrives
