SPECIFICATION MCSpec
CONSTANTS
    MaxConn = 3
    NLines = 2
    Reverse = TRUE
    Words = {"key_power", "key_push", "key2_down", ""}
    Scenes = {"lines", "routing"}
    LinesConn = 2
INVARIANTS
    TypeOK
    FilesTrue
    MutexHeldInSections
PROPERTIES
    SetAnnounced
    LastGpioLeavesDark
    KeysReachHolder
CHECK_DEADLOCK FALSE
