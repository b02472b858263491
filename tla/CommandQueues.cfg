CONSTANTS
  Sent = {"CloseOrder", "OpenOrder", "ModifyOrder"}
  Limit = 8
  Garbage = {0, 3, 7}
  MaxReceived = 4
  MaxRestarts = 1
SPECIFICATION Spec
CHECK_DEADLOCK FALSE
INVARIANTS
  CountIsExact
  RoundDrains
  Placed
  SkippedOnce
PROPERTIES
  PipeSpec
  EventuallyExecuted
