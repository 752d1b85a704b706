SPECIFICATION StoresSpec
CONSTANTS
  a = a
  b = b
  t1 = t1
  t2 = t2
  u = u
  v = v
  o1 = o1
  o2 = o2
  o3 = o3
  k1 = k1
  k2 = k2
  Stores <- MCStoreSet
  GrantTasks <- MCGrantTasks
  Home <- MCHome
  NSlots = 2
  Uuids <- MCUuids
  GrantStages = 2
  HeaderStages = 1
  UsedStages = 2
  UuidAttempts = 2
  MaxGrantFaults = 1
  None = None
  Calls <- MCCalls
  Keys <- MCKeys
  MaxOpen = 2
  MaxProposalFaults = 1
INVARIANTS
  StoresTypeOK
  AnswersAreDurable
  GrantIdsUnique
  HeldStagesExist
  AuditTellsTheTruth
  OneProposalPerKey
  NoRecordIsRefused
  UnsettledIsDecidable
PROPERTY SingleUse
SYMMETRY MCSymmetry
CHECK_DEADLOCK FALSE
