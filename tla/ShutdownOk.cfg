SPECIFICATION Spec
CONSTANTS
    MaxConn = 3
    Requests <- ShutdownRequests
    AutoOnOff = FALSE
PROPERTY
    ShutdownOkMeansLaptopLeft
