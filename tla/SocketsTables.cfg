CONSTANTS
  o = o  u = u  r1 = r1  r2 = r2  s1 = s1  s2 = s2  s3 = s3
  User = {o, u}
  Room = {r1, r2}
  RoomOwner <- OwnedByO
  Socket = {s1, s2}
  Uid <- UserOf
  MaxFrames = 2
  MaxChanges = 2
SPECIFICATION Spec
CHECK_DEADLOCK FALSE
INVARIANTS
  TypeOK
  TablesAgree
  SubscribersAreMembers
  WriterIsSubscribed
