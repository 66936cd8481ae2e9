SPECIFICATION PayoutSpec
CONSTANTS
  Miners = {m1, m2}
  Rates = {1, 2}
  PoolRates = {5}
  Rewards = {10}
  WordSize = 64
INVARIANT ShareOfPool
CHECK_DEADLOCK FALSE
