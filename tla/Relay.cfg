CONSTANTS
  h = h  a = a  b = b  e1 = e1  e2 = e2
  Host = h
  Server = {h, a, b}
  Event = {e1, e2}
  Origin <- OriginOf
  RelayAttempts = 3
  PoolSize = 2
  MaxTroubles = 1
SPECIFICATION FairSpec
CHECK_DEADLOCK FALSE
INVARIANTS TypeOK NoDuplicateRows FilesFollow AnswerIsPromise NothingDropped
PROPERTIES ImplementsRoomLog RelaySettles
