\* Two lines of any shape after one another, with three attempts for every
\* operation and one configuration by the gateway thread in between.
SPECIFICATION FairSpec
CONSTANTS
    Line <- AllLines
    MaxLines = 2
    Node <- TwoNodes
    Composition <- ThreeModels
    U8Max = 3
    U16Max = 7
    ULongMax = 31
    MinGroup = 6
    MaxPeriod = 1
    MaxPayload = 4
    MeshRetryCount = 3
    CdbSubnet = {0}
    CdbAppKey = {0}
    MaxOther = 1
INVARIANTS
    TypeOK
    ActsAsTyped
    ProvisionedIsKnown
PROPERTIES
    SuccessMeansDone
    CleanUpKeepsUsed
    LineEnds
\* After the last line nothing is left to do.
CHECK_DEADLOCK FALSE
