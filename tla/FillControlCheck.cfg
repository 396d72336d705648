SPECIFICATION FillFairSpec
CONSTANTS
  Size = 5
  MinWaterMark = 2
  MaxWaterMark = 3
  DataInterval = 2
  Timeout = 3
  MaxResets = 1
INVARIANTS
  FillTypeOK
  MarkWithinLimits
PROPERTIES
  NeverSleepsOnData
