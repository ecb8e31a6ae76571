SPECIFICATION FairSpec
CONSTANTS
    MaxConn = 2
    Requests <- PairRequests
    AutoOnOff = TRUE
PROPERTIES
    LeaverEnds
    AcceptedServed
    ScanEnds
