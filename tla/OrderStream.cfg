CONSTANTS
  MaxOrders = 2
  Watched = {w1, w2}
  Rest = {r1, r2}
  MaxChanges = 3
  MaxSessions = 2
SPECIFICATION Spec
PROPERTIES
  NoPhantomClose
  DeltaSpec
  Follows
