\* The service may be stuck for good, which is what this run shows.
CHECK_DEADLOCK FALSE
CONSTANTS
  i1 = i1
  i2 = i2
  s1 = s1
  s2 = s2
  None = None
  Dead = Dead
  Insts = {i1, i2}
  Socks = {s1, s2}
  MaxQueue = 1
  MaxFetch = 1
  MaxEnds = 0
SPECIFICATION ConnectedSpec
PROPERTY
  Reconnects
