\* Three requests and one shell command for two devices: enough for a request
\* to wait behind another, for a third to overtake a queued PROV_RESP, and for
\* a device to be provisioned twice.
SPECIFICATION FairSpec
CONSTANTS
    Uuid = {u1, u2}
    ZeroUuid = ZeroUuid
    MaxRequests = 3
    MaxCli = 1
INVARIANTS
    TypeOK
    SemNotLost
    NoFalseSuccess
    ReportsOnlyRequested
PROPERTIES
    ThreadReturns
    SemReleased
\* Once the bounded requests are used up and served, nothing is left to do.
CHECK_DEADLOCK FALSE
