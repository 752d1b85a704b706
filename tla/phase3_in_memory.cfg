\* InMemoryPhase3Journal: its conflicts are Phase3CoordinatorErrors.
SPECIFICATION Spec
CONSTANTS
  Targets <- MCTargets
  CoordinatorErrors = TRUE
  OrphanOverlaps = FALSE
  MaxFaults = 3
PROPERTIES
  CallsSettle
