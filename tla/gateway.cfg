SPECIFICATION GatewaySpec
CONSTANTS
  Miners = {m1}
  Keys = {k1, k2}
  NoMiner = NoMiner
  NoKey = NoKey
  Lookups = {l1, l2}
  Requests = {r1}
  TTL = 1
  SetDelay = 1
  Duration = 2
  Grace = 1
  MaxGrace = 5
  MaxTime = 3
  Handlers = {h1, h2, h3}
  Burst = 2
  Second = 2
  Timeout = 1
  Expiry = 4
  MaxArrivals = 4
  MaxFaults = 2
  MaxClock = 5
INVARIANTS TypeOK AnswersAreRecent PaymentTakesEffect
INVARIANTS LimiterTypeOK  KeysCleanUpUnlessLost
SYMMETRY Symmetry
CHECK_DEADLOCK FALSE
