\* One instance, as under operator.lock, with the limits within reach.
SPECIFICATION Spec
CONSTANTS
  w1 = w1
  w2 = w2
  Writers <- OneWriter
  PendingLimit = 2
  FinalLimit = 2
  MaxAppends = 6
INVARIANTS
  PendingIsBounded
