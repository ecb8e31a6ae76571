SPECIFICATION Spec
CONSTANTS
    MaxConn = 3
    Requests <- LaptopRequests
    AutoOnOff = FALSE
INVARIANT
    ModesAgree
PROPERTY
    LogoutAnnounced
