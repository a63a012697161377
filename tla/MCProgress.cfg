\* stop() ends the scheduler for good: its final states have no successor.
CHECK_DEADLOCK FALSE
SPECIFICATION MCSpec
CONSTANTS
  s1 = s1
  s2 = s2
  t1 = t1
  a1 = a1
  a2 = a2
  b1 = b1
  g1 = g1
  g2 = g2
  g3 = g3
  h1 = h1
  NoSession = NoSession
  NoTab = NoTab
  Session <- MCSession
  Tab <- MCTab
  Op <- MCOp
  Command <- MCCommand
  Options <- MCOptions
  s3 = s3
  a3 = a3
  c1 = c1
  p1 = p1
  p2 = p2
  k1 = k1
  k2 = k2
  k3 = k3
  d1 = d1
  d2 = d2
  None = None
INVARIANTS
  TypeOK
  AdmissionAccounting
  RingsListWaitingWork
  WorkConserving
PROPERTIES
  AdmissionOrder
  SchedulerIsolation
  WatchedLeavesQueue
  PairedReconnects
