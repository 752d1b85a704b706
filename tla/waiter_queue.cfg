SPECIFICATION FairSpec
CONSTANTS
  c1 = c1
  c2 = c2
  c3 = c3
  c4 = c4
  c5 = c5
  Callers <- MCCallers
  Capacity = 2
  MaxWaiters = 2
INVARIANTS
  TypeOK
  LeasesAreCounted
  NobodyIsStranded
PROPERTIES
  LeasesInOrder
  EveryWaitEnds
