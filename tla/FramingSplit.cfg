CONSTANTS
  HeaderSize = 2
  Lengths = {2, 3}
  BufferSize = 4
  MaxMessages = 3
  MaxSessions = 2
SPECIFICATION Spec
CHECK_DEADLOCK FALSE
INVARIANTS
  NothingLost
PROPERTIES
  EventuallyHandled
