SPECIFICATION CallerSpec
CONSTANTS
  Parallelism = 3
  Blocks = 3
  MaxPackets = 4
  Kinds <- MCKinds
CHECK_DEADLOCK FALSE
INVARIANTS
  EachBlockOnce
PROPERTIES
  ReturnsAvailable
  FirstServed
