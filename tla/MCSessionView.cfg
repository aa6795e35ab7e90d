CONSTANTS
  Main = Main
  Threads = {Main}
  Requested = {"AddCredential"}
  TTLs <- MCTTLs
  MinTTL = 1
  MaxTTL = 3
  MaxTime = 3
  MaxUnlocks = 2
  MaxFaults = 1
  MaxRequests = 4
SPECIFICATION FairSpecView
INVARIANTS
  TypeOKView
  ShownRoleIsGranted
  ShownSessionIsWatched
PROPERTY LapseIsShown
CHECK_DEADLOCK FALSE
