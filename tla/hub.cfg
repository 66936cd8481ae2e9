SPECIFICATION TunnelFairSpec
CONSTANTS
  Conns = {c1, c2}
  IPs = {ip1, ip2}
  NoIP = NoIP
  MaxConnsPerIP = 1
INVARIANTS TunnelTypeOK CountsAreExact LimitHolds OnlyLiveHandlersRegistered
PROPERTY GoneBrowsersAreForgotten
