\* Two calls of two activities; the clock passes two and a half times to live.
SPECIFICATION Spec
CONSTANTS
  Calls = {c1, c2}
  Activities = {a1, a2}
  None = None
  TTL = 5
  Second = 2
  Slack = 1
  MaxClock = 8
  MaxLeases = 2
  MaxMishaps = 2
SYMMETRY LeaseSymmetry
INVARIANTS
  LeaseNeverLapses
  ActiveLeaseHasHolder
PROPERTIES
  ImplementsLock
CHECK_DEADLOCK FALSE
