SPECIFICATION Spec
CONSTANTS
    NetIdx = {0, 1}
    AppIdx = {0, 1}
    Key = {k1, k2}
    PrimaryKey = k1
    NetSlot = {1, 2}
    AppSlot = {1}
    NoKey = NoKey
    MaxCommands = 1
    Element <- TwoElements
    MaxItems = 2
INVARIANTS
    TypeOK
    HeapExact
    KeysAgree
    SlotsNotLost
    ReleasesValid
    FailureReleases
    DescribedIsWhole
PROPERTIES
    RequestsEnd
CHECK_DEADLOCK FALSE
