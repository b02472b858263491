CONSTANTS
  Companies = {k1, k2}
  Conns = {c1, c2, c3}
  None = None
  MaxLosses = 1
SPECIFICATION Spec
CHECK_DEADLOCK FALSE
INVARIANTS
  NoGhosts
  Tracked
  AnnouncedOnce
  PluginMissesNone
PROPERTIES
  EventuallyRegistered
