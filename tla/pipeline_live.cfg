SPECIFICATION FairSpec
CONSTANTS
  MaxHeight = 3
  MaxReorgs = 1
  MaxReorgDepth = 1
  PoolHeights = {1}
  MaxFaults = 2
  FaultKinds = {"header"}
  ConfirmDepth = 2
  ExtractOutcomes = {"none", "some"}
  MaxRetries = 2
  PeriodicRecovery = TRUE
  MaxCrashes = 1
PROPERTIES RowsAreBackfilled PaidUnlessCrashed
