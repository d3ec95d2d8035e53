CONSTANTS
  A = A  B = B  C = C  b = b  u = u  v = v
  Server = {A, B, C}
  Name = {u, v}
  Address = {A, B, C, b}
  Reaches <- ReachesAll
  Before <- ThreeBefore
  Someone <- OneOfThem
  Own <- TwoOwn
  Met <- TwoMet
  Cached <- OneCached
  Made = 5
  MaxTasks = 2
  MaxLoad = 6
SPECIFICATION Spec
CHECK_DEADLOCK FALSE
INVARIANTS TypeOK PinsAreReal CachedKeysAreGenuine RegisteredIsStored OneChat
