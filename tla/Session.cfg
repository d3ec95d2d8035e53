CONSTANTS
  us = us  ut = ut  uo = uo  u = u  s1 = s1  s2 = s2  s3 = s3
  None = None
  Account = {us, ut, uo}
  Name <- NameOfAll
  Home <- HomeOfAll
  Before <- TwoBefore
  MaxKeys = 2
  Password = {1, 2}
  MaxTroubles = 1
SPECIFICATION Spec
INVARIANTS TypeOK SessionIsOwn BodiesAreOwn
PROPERTIES FormsEnd
