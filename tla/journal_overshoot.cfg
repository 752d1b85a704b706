SPECIFICATION Spec
CONSTANTS
  w1 = w1
  w2 = w2
  Writers <- MCWriters
  PendingLimit = 2
  FinalLimit = 2
  MaxAppends = 3
INVARIANTS
  PendingIsBounded
