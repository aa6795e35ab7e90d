CONSTANTS
  Limited <- MCLimited
  Burst <- MCBurst
  PerMinute <- MCPerMinute
  Ticks = {10}
  MaxTime = 0
  Threads = {t1}
  Locations = {a}
  DefaultUri = a
  MaxFaults = 0
SPECIFICATION Spec
INVARIANT ReachableIsShown
