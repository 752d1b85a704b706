SPECIFICATION Spec
CONSTANTS
  w1 = w1
  w2 = w2
  Writers <- MCWriters
  PendingLimit = 3
  FinalLimit = 2
  MaxAppends = 3
INVARIANTS
  TypeOK
  ReportsAreTrue
  NoFalseAlarm
PROPERTIES
  ImplementsPort
SYMMETRY Symmetry
