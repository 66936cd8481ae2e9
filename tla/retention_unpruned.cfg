SPECIFICATION FairSpec
CONSTANTS
  Miners = {m1}
  NoMiner = NoMiner
  Exports = {e1, e2}
  YearLength = 2
  FreeAge = 1
  PaidAge = 2
  Duration = 1
  Grace = 1
  PrunerRuns = FALSE
  MaxRows = 1
  LastPayment = 1
  LastBucket = 0
  MaxFaults = 1
  MaxNukes = 1
  MaxGrants = 2
  MaxTime = 4
PROPERTY DeletionTakesEffect
CHECK_DEADLOCK FALSE
