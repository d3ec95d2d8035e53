CONSTANTS
  alice = alice  bob = bob
  page = page  socket = socket
  Peer = {alice, bob}
  Course = {page, socket}
  MaxSkip = 2
  MaxEntries = 2
  MaxEvents = 5
SYMMETRY Symmetry
SPECIFICATION Spec
CHECK_DEADLOCK FALSE
INVARIANTS TypeOK KeysUsedOnce AnyOrderIsReadable SessionsHeal
