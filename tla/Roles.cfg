SPECIFICATION Spec
CONSTANTS
    MaxConn = 3
    Requests <- RoleRequests
    AutoOnOff = TRUE
INVARIANTS
    TypeOK
    CountsThreads
    RolesHeldByThreads
    PilotAvailable
    OwnEntry
PROPERTY
    PilotRoleKept
