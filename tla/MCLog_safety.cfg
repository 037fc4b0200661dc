SPECIFICATION Spec
CONSTANTS
  FrameSize = 9
  VecSize = 1
  Overhead = 2
  Sizes <- MCSizes
  Headers <- MCHeaders
  Frames = 2
  FlushMax = 2
  MaxRecords = 3
  MaxChanges = 3
  None = None
INVARIANTS OnceInOrder LostOnlyWithCause FramesAccounted
PROPERTIES SyslogDrains
CHECK_DEADLOCK FALSE
