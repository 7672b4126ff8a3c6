CHECK_DEADLOCK FALSE
CONSTANTS
  s1 = s1
  s2 = s2
  Sids = {s1, s2}
  MaxActive = 1
  Retained = 2
  MaxBytes = 0
  PageSize = 1
SPECIFICATION Spec
INVARIANT
  ActiveBound
