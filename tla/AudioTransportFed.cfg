SPECIFICATION Spec
CONSTANTS
  c1 = c1
  c2 = c2
  none = none
  Callbacks <- MCCallbacks
  Capacity = 2
  Prefill = 1
  MaxVersion = 2
  None <- none
INVARIANTS
  PlayingIsFed
CHECK_DEADLOCK FALSE
