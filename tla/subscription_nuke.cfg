SPECIFICATION Spec
CONSTANTS
  Txs = {t1}
  Miners = {m1, m2}
  NoMiner = NoMiner
  Payees = {{m1}, {m1, m2}}
  EarnedTiers = {"free", "supporter", "champion"}
  DurationDays = 2
  MaxTime = 1
  MaxFaults = 1
  FaultKinds = {"select", "db"}
  MaxNukes = 2
  MaxCrashes = 1
INVARIANTS TierMatchesExpiry FundedWasCredited
