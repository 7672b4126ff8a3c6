CHECK_DEADLOCK FALSE
CONSTANTS
  a1 = a1
  a2 = a2
  i1 = i1
  i2 = i2
  c1 = c1
  c2 = c2
  None = None
  Apps = {a1}
  Ids = {i1}
  Claims = {c1, c2}
  Ttl = 2
  RateGap = 1
  MaxPending = 2
  MaxNow = 1
  MaxCrashes = 0
SPECIFICATION Spec
SYMMETRY Symmetry
INVARIANT
  NoRequestOverlooked
