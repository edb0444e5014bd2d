SPECIFICATION Spec
CONSTANTS
  e1 = e1
  None = None
  Clients <- MCClients
  Pictures <- MCPictures
  RingLimit = 2
  Overlap = 1
  Rewind = 1
  MaxRows = 2
  MaxClock = 3
  MaxRare = 3
  MaxChannel = 2
INVARIANTS
  ReadersOwned
  NothingMissing
\* A phone may stop opening conversations, and the host writing.
CHECK_DEADLOCK FALSE
