CONSTANTS
  Threads = {t1}
  MaxCreds = 1
  MaxFaults = 0
  MaxRestarts = 0
  MaxRemovals = 1
SPECIFICATION Spec
INVARIANT DeleteFailsOnlyIfNotFound
CHECK_DEADLOCK FALSE
