CONSTANTS
  w1 = w1
  w2 = w2
  app = app
  Writers = {w1, w2}
  Readers = {r1}
  Instances = {app}
  InstanceOf <- MCOneCopy
  NoWriter = NoWriter
  InitialFiles <- MCFiles
  MaxEntries = 4
  MaxFaults = 2
  MaxEdits = 2
SPECIFICATION FairReaderSpec
INVARIANTS
  ReaderTypeOK
  UngluedReadVerifies
  IntactReportListsAcked
  EditsStayDetected
PROPERTIES
  LockIsReleased
  ImplementsTrail
CHECK_DEADLOCK FALSE
