\* Two threads cancel the waits of Decrypt.
SPECIFICATION FairSpec
CONSTANTS
  c1 = c1  c2 = c2
  Pids = {1}
  PatchGap = 1
  Cancellers = {c1, c2}
  MaxPeriod = 3
  MaxSleeps = 1
  MaxResets = 0
CHECK_DEADLOCK FALSE
INVARIANT
  NoAbortLeaks
PROPERTIES
  CancelEndsWait
  DecryptReturns
  CancelWaitReturns
