CONSTANTS
  Symbols = {s1, s2}
  Prices = {p1, p2}
  Unset = Unset
  MaxCommands = 3
  MaxSessions = 2
  MaxRestarts = 1
  MaxPackets = 2
SPECIFICATION Spec
INVARIANTS
  ResultsAreFresh
  PricesNeverStale
  TableHolds
PROPERTIES
  EventuallyServed
