CONSTANTS
  h = h  a = a  b = b  e1 = e1  e2 = e2
  Host = h
  Server = {h, a, b}
  Event = {e1}
  Origin <- OneFromMirror
  RelayAttempts = 3
  PoolSize = 8
  MaxTroubles = 0
SPECIFICATION FairSpec
CHECK_DEADLOCK FALSE
PROPERTIES FanOutReachesEveryMirror
