\* A recovery that starts while the dead apply's helper still runs.
SPECIFICATION Spec
CONSTANTS
  Targets <- AutomationOnly
  CoordinatorErrors = FALSE
  OrphanOverlaps = TRUE
  MaxFaults = 1
INVARIANTS
  SettledMeansReal
