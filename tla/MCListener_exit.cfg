SPECIFICATION FairSpec
CONSTANTS
  Lst = {l1, l2}
  Conn = {c1, c2}
  Mute = {l2}
  Watcher = {l1, l2, c1, c2}
  Sent = {"sigint", "sighup"}
  None = None
  MaxFired = 1
INVARIANTS LoopCountsApplication
PROPERTIES NoAcceptAfterExit LoopEnds EveryoneAccepted
CHECK_DEADLOCK FALSE
