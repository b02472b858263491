CONSTANTS
  Retries = {2}
  MaxWaits = 1
  MaxOrders = 3
  Named = {1, 2}
  MaxCommands = 2
SPECIFICATION Spec
CHECK_DEADLOCK FALSE
INVARIANTS
  ReportedOnce
  OKMeansDone
  ErrorMeansUnheard
  OpensCounted
PROPERTIES
  EventuallyReported
