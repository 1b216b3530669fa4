SPECIFICATION Spec
CONSTANTS
    ConnectMax = 2
PROPERTIES
    CycleOnlyUnassociated
