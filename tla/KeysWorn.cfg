SPECIFICATION Spec
CONSTANTS
    Keyboards = {w0, w1}
    Keys = {"a", "b"}
    MaxThreads = 2
    MaxPresses = 3
    Unplugs = TRUE
PROPERTY
    ImplementsQueue
CHECK_DEADLOCK FALSE
