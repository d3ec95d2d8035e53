CONSTANTS
  h = h  a = a  b = b
  o = o  v = v  x = x  z = z
  None = None
  Host = h
  Owner = o
  Server = {h, a, b}
  User = {o, v, x, z}
  Home <- HomeOf
  MaxOps = 3
  MaxTroubles = 1
SPECIFICATION FairSpec
CHECK_DEADLOCK FALSE
INVARIANTS TypeOK ImportHeals MirrorsFollow
PROPERTIES OpsEnd
