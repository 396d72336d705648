\* VDR stops a service with two pids.
SPECIFICATION Spec
CONSTANTS
  c1 = c1  c2 = c2
  Pids = {1, 2}
  PatchGap = 1
  Cancellers = {}
  MaxPeriod = 2
  MaxSleeps = 1
  MaxResets = 1
CHECK_DEADLOCK FALSE
PROPERTY
  StopUnmapsService
