\* Nobody may be doing anything.
CHECK_DEADLOCK FALSE
SPECIFICATION Spec
CONSTANTS
  s1 = s1
  s2 = s2
  Session <- MCSession
  NoSession = NoSession
  MaxTabs = 3
  MaxWindows = 2
PROPERTIES
  ForeignTabsSurvive
