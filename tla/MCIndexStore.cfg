CONSTANTS
  Limited <- MCLimited
  Burst <- MCBurst
  PerMinute <- MCPerMinute
  Ticks = {10}
  MaxTime = 20
  Threads = {t1, t2}
  Locations = {a, b}
  DefaultUri = a
  MaxFaults = 1
SPECIFICATION FairSpec
INVARIANTS
  TypeOK
  OneInitialization
  RateHolds
  ResultStands
  ErrorIsOfLocation
PROPERTY FlightEnds
