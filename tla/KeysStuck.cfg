SPECIFICATION FairSpec
CONSTANTS
    Keyboards = {w0, w1}
    Keys = {"a", "b"}
    MaxThreads = 1
    MaxPresses = 2
    Unplugs = FALSE
PROPERTY
    BufferSent
CHECK_DEADLOCK FALSE
