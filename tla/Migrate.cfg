\* Two processes with any of fourteen jobs, over a target that is
\* empty or has a table made by hand, beside an Apiary that is upgraded.
SPECIFICATION Spec
CONSTANTS
    TableCount = 2
    Column <- MCColumn
    InstanceColumn = "apiary_instance"
    Class <- MCClass
    Key <- MCKey
    Cursor <- MCCursor
    State <- MCState
    Parent <- MCParent
    TimeColumn <- MCTimeColumn
    JSONColumns <- MCJSONColumns
    Process = {p, q}
    Jobs <- MCJobs
    Releases <- MCReleases
    Latest = 2
    Handmade <- MCHandmade
    Folded <- MCFolded
    Nobody = Nobody
INVARIANTS MigrationTypeOK SinkFits ApprovedIsFollowable NoDeadlock
PROPERTIES AdditiveOnly WholePlans MigratesInOneStep
