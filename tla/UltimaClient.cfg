CONSTANTS
  Orders = {o1, o2}
  None = None
  HostName = TRUE
  MaxBuffers = 2
  MaxFaults = 2
SPECIFICATION Spec
CHECK_DEADLOCK FALSE
INVARIANTS
  ConnectingIsExact
  NeverStranded
  ServerNeverStale
  FrontIsInFlight
  SingleReader
PROPERTIES
  OverlapOnlyAtLogin
  EventuallyRegistered
  ChangeReachesServer
