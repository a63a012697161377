\* Everything may be done, or failed.
CHECK_DEADLOCK FALSE
SPECIFICATION Spec
CONSTANTS
  None = None
  Operation = {o1}
  Host = {h1}
  HistoryLimit = 1
  MaxNavigations = 1
  MaxRestarts = 0
PROPERTIES
  ApprovalHolds
