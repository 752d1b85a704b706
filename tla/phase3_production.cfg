\* DurablePhase3Journal: its conflicts are not Phase3CoordinatorErrors.
SPECIFICATION FairSpec
CONSTANTS
  Targets <- MCTargets
  CoordinatorErrors = FALSE
  OrphanOverlaps = FALSE
  MaxFaults = 3
INVARIANTS
  TypeOK
  RequestsAreLegal
  VerificationIsAdmitted
  SettledMeansReal
  RollbackReloadFlagSound
PROPERTIES
  EffectsAreAnnounced
  KeepsPromise
  EventuallySettled
