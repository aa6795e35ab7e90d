CONSTANTS
  Keys = {k1, k2}
  FirstKey = k1
  Items = {problem}
  NoKey = NoKey
  Absent = Absent
  MaxActions = 4
  MaxFaults = 1
SPECIFICATION Spec
INVARIANTS
  TypeOK
  ViewsMatchStore
  ReportIsTrue
PROPERTIES
  MarksLandWhereDrawn
  RoutinesEnd
CHECK_DEADLOCK FALSE
