CONSTANTS
  x = x  z = z
  Recipient = {x, z}
  Namesake = {z}
  MaxSends = 3
  Overlap = 2
  RotationInterval = 2
  MaxSkip = 1
  KeepGenerations = 2
  MaxChanges = 2
  MaxTroubles = 2
SPECIFICATION Spec
CHECK_DEADLOCK FALSE
INVARIANTS TypeOK KeysUsedOnce KeyStaysInRoster CurrentIsReadable
