\* Every session may have ended.
CHECK_DEADLOCK FALSE
CONSTANTS
  s1 = s1
  s2 = s2
  Sids = {s1, s2}
  MaxActive = 1
  Retained = 2
  MaxBytes = 3
  PageSize = 1
SPECIFICATION FairSpec
INVARIANTS
  LiveIsHeld
  PageIsFaithful
PROPERTIES
  OutcomeIsFinal
  LifetimeIsEnforced
