\* A component may be done, as a broker that is dead.
CHECK_DEADLOCK FALSE
SPECIFICATION Spec
CONSTANTS
  NoSession = NoSession
  None = None
  Session = {s1, s2}
  CdpResource = {"events", "emulation"}
  TraceResource = {"tracing", "screencast"}
  MaxStray = 1
  Operation = {o1, o2}
  Host = {h1}
  HistoryLimit = 1
  MaxNavigations = 1
  MaxRestarts = 1
  MaxHandlers = 3
  MaxRecords = 2
  MaxItems = 1
  RequestId = {o1, o2, o3}
  Content = {k1, k2}
  MaxRequests = 2
  MaxBytes = 4
  MaxConfirmed = 1
  Size = {1, 3}
  Client = {c1, c2}
  Broker = {b1, b2, b3}
  MaxCrashes = 1
  MaxTabs = 3
  MaxWindows = 2
  Profile = {p1, p2}
  Token = {t1, t2, t3}
  Code = {d1, d2}
  MaxPairingAttempts = 2
  MaxFaults = 1
INVARIANTS
  TypeOK
  ActionableHasWaiter
  DownloadsAccounted
  CacheWithinBudget
  RuntimeNamesServer
  GuessesPerCode
  FailsClosed
PROPERTIES
  ForeignClaimsSurvive
  EffectNeedsApproval
SYMMETRY Symmetry
