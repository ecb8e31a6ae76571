SPECIFICATION Spec
CONSTANTS
    MaxConn = 2
    Requests <- RoleRequests
    AutoOnOff = FALSE
INVARIANT
    ConnectionHasItsThread
