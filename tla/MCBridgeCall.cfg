\* Every call ends: answered, or lost in a crash.
CHECK_DEADLOCK FALSE
CONSTANTS
  c1 = c1
  c2 = c2
  c3 = c3
  t1 = t1
  t2 = t2
  NoToken = NoToken
  Calls = {c1, c2, c3}
  Tokens = {t1, t2}
  Caps <- MCCaps
  Tier <- MCTier
  Declared <- MCDeclared
  Granted <- MCCaps
  Bound <- MCBound
  MaxCrashes = 1
SPECIFICATION Spec
SYMMETRY Symmetry
INVARIANTS
  EffectIsReceipted
  EffectOwnsConsent
  AnswerIsHonest
  ReceiptsAreHonest
