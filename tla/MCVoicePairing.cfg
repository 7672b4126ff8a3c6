\* The clock stops at MaxNow, and every id may be used up.
CHECK_DEADLOCK FALSE
CONSTANTS
  a1 = a1
  a2 = a2
  i1 = i1
  i2 = i2
  c1 = c1
  c2 = c2
  None = None
  Apps = {a1, a2}
  Ids = {i1, i2}
  Claims = {c1, c2}
  Ttl = 2
  RateGap = 1
  MaxPending = 2
  MaxNow = 3
  MaxCrashes = 1
SPECIFICATION Spec
SYMMETRY Symmetry
INVARIANTS
  SessionIsApproved
  OneLiveRequest
PROPERTY
  AsksOnce
