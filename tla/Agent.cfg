SPECIFICATION MCSpec

CONSTANTS
  Pressed <- SomeKeys
  MaxKeys = 2
  MaxFds = 2
  Pids <- SomePids

INVARIANTS
  KeysObeyedInOrder
  OneByHand
  LockFileNamesHolder
  OneServer

PROPERTY FindsServer

CHECK_DEADLOCK FALSE
