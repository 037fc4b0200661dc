SPECIFICATION FairSpec
CONSTANTS
  VecSize = 2
  MoreVecs = 0
  SndBuf = 2
  MaxReadLoops = 1
  MaxWriteLoops = 1
  Cntl = {"WRITE", "WRITE_START", "WRITE_STOP", "READ_PAUSE", "READ_RESUME", "ABORT", "FINI"}
  MaxBytes = 1
  MaxWrites = 3
  MaxPause = 1
  MaxAborts = 1
  MaxDepth = 6
INVARIANTS WriteWatchSound SentInOrder AssertionsHold
PROPERTIES EverythingSent EosArrives
CHECK_DEADLOCK FALSE
