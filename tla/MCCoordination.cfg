\* Sessions, and the tab of the user, get closed: then nothing is left to do.
CHECK_DEADLOCK FALSE
SPECIFICATION AllSpec
CONSTANTS
  f1 = f1
  f2 = f2
  u1 = u1
  n1 = n1
  c1 = c1
  c2 = c2
  s1 = s1
  s2 = s2
  t1 = t1
  t2 = t2
  a1 = a1
  a2 = a2
  b1 = b1
  b2 = b2
  e1 = e1
  NoTab = NoTab
  NoSession = NoSession
  NoRecord = NoRecord
  Session <- MCSession
  FullProfile <- MCSession
  Tab <- MCTab
  UserTab <- MCUserTab
  Offered <- Every
  Op <- MCOp
  Updater <- Popup
  MaxTimeouts = 1
  MaxDeaths = 1
INVARIANTS
  TypeOK
  GateTypeOK
  HoldsWhatRuns
  NothingLeftWaiting
  NoWorkWithoutAccess
  RevocationReleases
  PreservesUserTabs
  ClosedSessionOwnsNothing
PROPERTIES
  ExclusiveBarrier
  GateIsolation
  AdoptionTakesNothing
SYMMETRY Symmetry
