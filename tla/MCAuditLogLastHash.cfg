CONSTANTS
  w1 = w1
  w2 = w2
  app = app
  Writers = {w1, w2}
  Instances = {app}
  InstanceOf <- MCOneCopy
  NoWriter = NoWriter
  InitialFiles <- MCFiles
  MaxEntries = 3
  MaxFaults = 1
  MaxEdits = 0
SPECIFICATION Spec
INVARIANT LastHashIsLastEntry
CHECK_DEADLOCK FALSE
