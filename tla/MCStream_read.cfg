SPECIFICATION Spec
CONSTANTS
  VecSize = 2
  MoreVecs = 1
  SndBuf = 1
  MaxReadLoops = 2
  MaxWriteLoops = 0
  Cntl = {"WRITE", "READ_START", "READ_STOP", "READ_PAUSE", "READ_RESUME", "ABORT", "SET_PARTIAL"}
  MaxBytes = 4
  MaxWrites = 1
  MaxPause = 2
  MaxAborts = 2
  MaxDepth = 6
INVARIANTS ReadWatchExact QuietAfterError NothingDropped
PROPERTIES EosIsLast
CHECK_DEADLOCK FALSE
