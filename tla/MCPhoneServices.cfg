CONSTANTS
  Commands = {c1, c2}
  Chats = {c2}
  Arrivals = {t1, t2}
  MaxInstance = 2
  Orders = {o1, o2}
  SeenLimit = 1
  MaxService = 2
  MaxSends = 4
  Nonces = {"n1", "n2"}
  Workers = {"w1", "w2"}
  MaxArms = 2
  Downloads = {d1, d2}
  MaxFiles = 4
  Callers = {q1, q2}
  Streams = {"a", "b"}
  Controllers = {"x", "y"}
  Handlings = {w1, w2}
  MaxSockets = 2
SPECIFICATION PhoneSpec
SYMMETRY PhoneSymmetry
CHECK_DEADLOCK FALSE
INVARIANTS
  ActsOnce
  HandedOncePerArm
  LoneInstallsAreWhole
  SpeakingEnds
  PrintedIsReceipted
  ReceiptsAreKept
PROPERTIES
  KeepsDevicePromise
