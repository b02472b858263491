CONSTANTS
  HeaderSize = 2
  Lengths = {2, 3}
  BufferSize = 4
  MaxMessages = 2
  MaxSessions = 1
SPECIFICATION Spec
CHECK_DEADLOCK FALSE
INVARIANTS
  KeepsReading
