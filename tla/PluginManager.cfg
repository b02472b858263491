CONSTANTS
  Plugins = {p1, p2, p3}
  Names = {n1, n2}
  Calls = {c1, c2}
SPECIFICATION Spec
CHECK_DEADLOCK FALSE
INVARIANTS
  ListedExactly
PROPERTIES
  EventuallyReturns
