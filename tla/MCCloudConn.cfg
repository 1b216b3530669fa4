\* The number of attempts is the one of Kconfig: the instance is the program's own.
SPECIFICATION FairSpec
CONSTANTS
    ConnectMax = 8
INVARIANTS
    TypeOK
    AttemptsBounded
    SessionState
    NoStaleReboot
    NeverStranded
PROPERTIES
    ReassociationEnds
    EventErrorReboots
