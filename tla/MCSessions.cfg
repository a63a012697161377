SPECIFICATION MCSpec
CONSTANTS
  s1 = s1
  s2 = s2
  t1 = t1
  t2 = t2
  c1 = c1
  c2 = c2
  NoTab = NoTab
  NoOwner = NoOwner
  Session <- MCSession
  Tab <- MCTab
  Call <- MCCall
  Ttl = 1
  Pin = 5
  Timeouts <- MCTimeouts
  Short = 1
  MaxComing = 1
INVARIANTS
  TypeOK
  CleanupFollowsAcceptedWork
  TabsAreExclusive
  PinCoversCleanup
  ClosedIsReleased
  WaitsForAcceptedWork
SYMMETRY Symmetry
