\* The clock stops at MaxClock and every token expires, so the system may stop.
CHECK_DEADLOCK FALSE
CONSTANTS
  p1 = p1
  p2 = p2
  n1 = n1
  n2 = n2
  NoNonce = NoNonce
  Procs = {p1}
  Nonces = {n1, n2}
  Issued <- MCIssued
  Expires <- MCExpires
  MaxAge = 2
  MaxEntries = 1
  PruneInterval = 1
  MaxClock = 3
  MaxCrashes = 1
SPECIFICATION Spec
INVARIANT AtMostOnce
