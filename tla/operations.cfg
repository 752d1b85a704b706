SPECIFICATION OperationsSpec
CONSTANTS
  v1 = v1
  v2 = v2
  g1 = g1
  g2 = g2
  lamp = lamp
  r1 = r1
  r2 = r2
  r3 = r3
  c1 = c1
  c2 = c2
  h1 = h1
  h2 = h2
  h3 = h3
  p1 = p1
  Versions <- MCVersions
  MaxArchives = 1
  MaxLiveGrants = 1
  MaxEdits = 1
  MaxEpochFaults = 2
  Plans <- MCPlans
  Targets <- MCTargets
  ArchivePlan = history
  RecordLimit = 2
  MaxGuardedFaults = 1
  Requests <- MCRequests
  MaxConnections = 3
  Keepers <- MCKeepers
  LiveLimit = 2
  Clients <- MCClients
  HttpRequests <- MCHttpRequests
  ClientLimit = 1
  GlobalLimit = 2
  FlightLimit = 2
  NoSession = NoSession
  NoClient = NoClient
INVARIANTS
  OperationsTypeOK
  EpochsAreKept
  RotationIsResumable
  OnlyShownIsApplied
  AnswersAreHonest
  OneUncertainPerTarget
  OutcomesAreTrue
  CustodyWasExclusive
  ResourcesAreKept
PROPERTIES
  ShutdownEnds
  EveryCustodyCallEnds
  RevokedClientsLeave
CHECK_DEADLOCK FALSE
