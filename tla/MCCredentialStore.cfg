CONSTANTS
  Threads = {t1, t2}
  MaxCreds = 2
  MaxFaults = 1
  MaxRestarts = 1
  MaxRemovals = 1
SPECIFICATION Spec
SYMMETRY ThreadSymmetry
INVARIANTS
  TypeOK
  MetadataHasSecret
  NoOrphanedSecret
  DoneIsAudited
  OneDeleteWins
PROPERTY DeletedStaysDeleted
