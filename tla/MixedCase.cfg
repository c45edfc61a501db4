\* The same jobs, of which one has an extra field spelled with a capital.
SPECIFICATION Spec
CONSTANTS
    TableCount = 2
    Column <- MCColumn
    InstanceColumn = "apiary_instance"
    Class <- MCClass
    Key <- MCKey
    Cursor <- MCCursor
    State <- MCState
    Parent <- MCParent
    TimeColumn <- MCTimeColumn
    JSONColumns <- MCJSONColumns
    Process = {p}
    Jobs <- MCJobs
    Releases <- MCReleases
    Latest = 2
    Handmade <- MCHandmade
    Folded <- MCFolded
    Nobody = Nobody
INVARIANTS SecondRunIsANoOp
