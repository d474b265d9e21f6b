CONSTANTS
  d1 = d1
  d2 = d2
  Destinations <- TwoDestinations
  MaxRequests = 5
  None = None
SPECIFICATION Spec
INVARIANTS
  AcknowledgedIsOnDisk
  SessionIsOnDisk
  RefusedEditUndone
CHECK_DEADLOCK FALSE
