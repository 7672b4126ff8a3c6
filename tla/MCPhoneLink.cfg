\* The owner may stop the service for good.
CHECK_DEADLOCK FALSE
CONSTANTS
  i1 = i1
  i2 = i2
  s1 = s1
  s2 = s2
  None = None
  Dead = Dead
  Insts = {i1, i2}
  Socks = {s1, s2}
  MaxQueue = 2
  MaxFetch = 1
  MaxEnds = 1
SPECIFICATION FairSpec
INVARIANTS
  NeverIdle
PROPERTIES
  StatusHeals
  ReconnectsUnlessStuck
