CHECK_DEADLOCK FALSE
SPECIFICATION MCSpec
CONSTANTS
  f1 = f1
  f2 = f2
  u1 = u1
  n1 = n1
  c1 = c1
  c2 = c2
  NoSession = NoSession
  NoTab = NoTab
  NoRecord = NoRecord
  Session <- MCSession
  FullProfile <- MCSession
  Tab <- MCTab
  UserTab <- MCUserTab
  Offered <- Every
  Op <- MCOp
  Updater <- Both
  MaxTimeouts = 0
  MaxDeaths = 0
PROPERTIES
  RevocationSticks
SYMMETRY Symmetry
