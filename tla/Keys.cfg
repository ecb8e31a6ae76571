SPECIFICATION FairSpec
CONSTANTS
    Keyboards = {w0, w1}
    Keys = {"a", "b"}
    MaxThreads = 4
    MaxPresses = 4
    Unplugs = FALSE
INVARIANTS
    TypeOK
    OneSender
    KeysHaveSender
PROPERTIES
    ImplementsQueue
    BufferSent
CHECK_DEADLOCK FALSE
