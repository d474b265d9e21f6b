SPECIFICATION Spec
CONSTANTS
  c1 = c1
  c2 = c2
  none = none
  Callbacks <- MCTwoCallbacks
  Capacity = 1
  Prefill = 1
  MaxVersion = 2
  None <- none
INVARIANTS
  RingIsExclusive
  CancellationHitsItsTarget
  PositionSurvives
  SucceededIsReal
PROPERTIES
  NobodyWaitsForEver
CHECK_DEADLOCK FALSE
