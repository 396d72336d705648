\* The control words of a service with two pids over three crypto periods.
SPECIFICATION Spec
CONSTANTS
  c1 = c1  c2 = c2
  Pids = {1, 2}
  PatchGap = 1
  Cancellers = {}
  MaxPeriod = 3
  MaxSleeps = 1
  MaxResets = 1
CHECK_DEADLOCK FALSE
INVARIANT
  TypeOK
PROPERTY
  HeldUntilCwArrives
