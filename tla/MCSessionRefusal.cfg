CONSTANTS
  Main = Main
  Threads = {Main}
  Requested = {"AddCredential"}
  TTLs <- MCTTLs
  MinTTL = 1
  MaxTTL = 3
  MaxTime = 3
  MaxUnlocks = 1
  MaxFaults = 0
  MaxRequests = 3
SPECIFICATION FairSpecView
PROPERTY RefusalLocksStore
CHECK_DEADLOCK FALSE
