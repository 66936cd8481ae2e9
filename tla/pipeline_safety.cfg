SPECIFICATION Spec
CONSTANTS
  MaxHeight = 4
  MaxReorgs = 1
  MaxReorgDepth = 2
  PoolHeights = {1}
  MaxFaults = 2
  FaultKinds = {"db", "commit", "block", "header"}
  ConfirmDepth = 2
  ExtractOutcomes = {"none", "some"}
  MaxRetries = 1
  PeriodicRecovery = TRUE
  MaxCrashes = 1
INVARIANTS TypeOK PaymentsFinal LedgerAgreesWithBlocks OwnedUntilPaid
PROPERTY LedgerSpec
