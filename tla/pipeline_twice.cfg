SPECIFICATION Spec
CONSTANTS
  MaxHeight = 4
  MaxReorgs = 0
  MaxReorgDepth = 1
  PoolHeights = {1}
  MaxFaults = 0
  FaultKinds = {}
  ConfirmDepth = 2
  ExtractOutcomes = {"some"}
  MaxRetries = 1
  PeriodicRecovery = TRUE
  MaxCrashes = 0
INVARIANT PaidAtMostOnce
