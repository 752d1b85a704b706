SPECIFICATION Spec
CONSTANTS
  w1 = w1
  w2 = w2
  Writers <- OneWriter
  PendingLimit = 2
  FinalLimit = 2
  MaxAppends = 2
INVARIANTS
  ReadsAreDurable
