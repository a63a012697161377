SPECIFICATION MCSpec
CONSTANTS
  s1 = s1
  s2 = s2
  s3 = s3
  t1 = t1
  t2 = t2
  a1 = a1
  a2 = a2
  b1 = b1
  b2 = b2
  c1 = c1
  NoSession = NoSession
  NoTab = NoTab
  Session <- MCSession
  Tab <- MCTab
  Op <- MCOp
  Command <- MCCommand
  Options <- MCOptions
PROPERTIES
  SparseSessionServed
