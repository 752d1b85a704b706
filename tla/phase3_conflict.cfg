\* The same question asked of DurablePhase3Journal.
SPECIFICATION Spec
CONSTANTS
  Targets <- AutomationOnly
  CoordinatorErrors = FALSE
  OrphanOverlaps = FALSE
  MaxFaults = 1
PROPERTIES
  CallsSettle
