SPECIFICATION Spec
CONSTANTS
    MaxConn = 3
    Requests <- NoRequests
    AutoOnOff = FALSE
INVARIANT
    ExistingUserReachable
