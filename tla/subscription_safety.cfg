SPECIFICATION FairSpec
CONSTANTS
  Txs = {t1, t2}
  Miners = {m1, m2}
  NoMiner = NoMiner
  Payees = {{m1}, {m2}}
  EarnedTiers = {"supporter", "champion"}
  DurationDays = 2
  MaxTime = 1
  MaxFaults = 1
  FaultKinds = {"wallet", "db"}
  MaxNukes = 0
  MaxCrashes = 1
INVARIANTS TypeOK CreditedAtMostOnce
PROPERTIES EntitlementSpec ActivatedUnlessInterrupted
