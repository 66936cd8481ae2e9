SPECIFICATION FairSpec
CONSTANTS
  Miners = {m1, m2, m3}
  Rates = {0, 1, 2, 8}
  PoolRates = {0, 1, 3, 4, 12}
  Rewards = {0, 5, 10}
  WordSize = 64
  Calls = {r1, r2}
  CacheTTL = 1
  Backoff = 2
  HttpTimeout = 1
  MaxClock = 3
  Payers = {m1, m2}
  NoPayer = NoPayer
  MaxIndex = 2
  Payments = {p1, p2}
  Transfers = {t1}
  Days = {1, 2}
  Backfills = {b1}
  Nodes = {n1}
  NodeNames = {x}
  Visitors = {v1, v2}
  MaxConns = 3
  MaxChecks = 3
INVARIANTS TypeOK SharesWithinReward ProportionalWithinWord
INVARIANTS HitsAreFresh HandedOutIsKept AddressesAreDistinct
INVARIANTS OneLookupPerDay NoHalfPriceIsStuck StatsFollowStatus
PROPERTIES PriceFallsBackOneRequest CreditedPriceKept NodeVisitsEnd
CHECK_DEADLOCK FALSE
