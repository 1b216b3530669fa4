\* Three devices for two places in each list: both lists fill up, every position
\* of an insertion and of a removal occurs, and timers expire during scans.
SPECIFICATION FairSpec
CONSTANTS
    Uuid <- ThreeDevices
    MaxBeacon = 2
    MaxBlocked = 2
INVARIANTS
    TypeOK
    ListSorted
    TimersMatch
    FreeTimerFound
    NoneForgotten
    BlockedExact
PROPERTIES
    BlockedNotAdmitted
    SilentForgotten
