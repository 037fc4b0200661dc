SPECIFICATION Spec
CONSTANTS
  FrameSize = 26
  VecSize = 1
  Requests <- MCRequests
  Payload <- MCPayload
  Answer <- MCAnswer
  Stale <- MCStale
  HostSize = 5
  MayRunDry = TRUE
  None = None
INVARIANTS AlwaysRoom RequestExact RelayInOrder
PROPERTIES RelayEnds
CHECK_DEADLOCK FALSE
