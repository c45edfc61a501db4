SPECIFICATION Spec
CONSTANTS
    Class = "append_only"
    CursorColumn = "created_at"
    Filtering = "none"
    Refusals = FALSE
    MaxRow = 2
    MaxRev = 1
    MaxTime = 2
    MaxGone = 2
    Skew = 0
    Legacy = 0
    Overlap = 1
    BatchSize = 2
    OpenLimit = 2
    ChunkSize = 2
    RowFaults = FALSE
    MaxFaults = 0
INVARIANTS SameStampAbsorbed
