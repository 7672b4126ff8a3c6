CONSTANTS
  Searches = {s1, s2}
  Trees <- MCTrees
  ActiveSearches = 1
  AllSearches = 2
  MaxResults = 2
  MaxEntries = 3
  Observations = {o1, o2}
  UiCalls = {u1, u2}
  Texts = {"x", "y"}
  MaxObservations = 1
  MaxChanges = 1
  Files = {"a", "b", "z"}
  Device <- MCDevice
  FileCalls = {f1, f2, f3}
  MaxInodes = 3
  Appends = {a1, a2}
  Paths = {n1, n2}
  MaxFiles = 2
  Logins = {l1, l2}
  VoiceCalls = {v1}
  HealthChecks = {h1}
  LoginLimit = 2
  LoginWindow = 2
  SessionTime = 2
  MaxGateTime = 2
  Requests = {r1, r2}
  Controls = {k1, k2}
  Ids = {"i1", "i2"}
  Handlers = {g1}
  Window = 1
  ReplayLimit = 1
  Skew = 1
  MaxClock = 3
  Jobs = {j1, j2}
  Collections = {c1}
  OutputLimit = 1
  MaxOutput = 2
  Listing <- MCListing
  TopFolder = "top"
  Lines <- MCLines
  Size <- MCSize
  Symlinks = {"link"}
  Unfit = {"huge"}
  MatchingNames <- MCNames
  FindLimits = {1, 4}
  FileLimit = 2
  ByteLimit = 3
  DepthLimit = 1
  WindowLimit = 5
  RowLimit = 3
  MaxReceipts = 5
  Forwards = {q1}
  BodyLimit = 2
  MaxBody = 3
  McpRequests = {p1, p2}
SPECIFICATION HostSpec
CHECK_DEADLOCK FALSE
INVARIANTS
  HostTypes
  CompleteFindsAll
  SentWasReadBack
  NothingLost
  AppendedIsThere
  LoginsAreLimited
  OptOutHolds
  AdmittedOnce
  UntruncatedFindsAll
  HistoryIsTrue
  ResponseIsWhole
  InstanceOutlastsAnswer
PROPERTIES
  LastPageIsLast
  ProofYieldsToOlder
  OutcomesStand
