\* Once every request is answered and nothing is in flight, nothing happens.
CHECK_DEADLOCK FALSE
SPECIFICATION Spec
CONSTANTS
  click = click
  read = read
  Op <- Both
  ReadOnly <- Read
  MaxRequests = 2
  MaxConfirmed = 1
  OutboxLimit = 1
  MaxAsked = 2
  MaxFaults = 1
INVARIANTS
  TypeOK
  OnceAndTruthfully
  AcknowledgedIsRetained
