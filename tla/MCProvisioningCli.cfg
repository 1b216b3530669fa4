\* One cloud request and one shell command for the same device.
SPECIFICATION Spec
CONSTANTS
    Uuid = {u1}
    ZeroUuid = ZeroUuid
    MaxRequests = 1
    MaxCli = 1
PROPERTIES
    ReportsOnlyGatewayAttempts
CHECK_DEADLOCK FALSE
