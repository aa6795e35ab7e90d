CONSTANTS
  Threads = {t1, t2}
  Requested = {"ViewSystemConfig", "AddCredential"}
  TTLs <- MCTTLs
  MinTTL = 1
  MaxTTL = 3
  MaxTime = 4
  MaxUnlocks = 2
  MaxFaults = 1
SPECIFICATION Spec
SYMMETRY ThreadSymmetry
INVARIANTS
  TypeOK
  LockedSessionIsEmpty
  LifetimeWithinPolicy
  AnswersAreAudited
  RefusalsNameTheRole
PROPERTY LapsedUntilUnlock
