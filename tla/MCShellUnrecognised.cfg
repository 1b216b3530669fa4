SPECIFICATION Spec
CONSTANTS
    Line <- AllLines
    MaxLines = 2
    Node <- TwoNodes
    Composition <- ThreeModels
    U8Max = 3
    U16Max = 7
    ULongMax = 31
    MinGroup = 6
    MaxPeriod = 1
    MaxPayload = 4
    MeshRetryCount = 3
    CdbSubnet = {0}
    CdbAppKey = {0}
    MaxOther = 1
INVARIANTS
    UnrecognisedDoesNothing
