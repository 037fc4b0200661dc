SPECIFICATION Spec
CONSTANTS
  MoreVecs = 1
  MaxLoops = 1
  Kinds = {"two", "data+control", "eos"}
  Cntl = {"READ_STOP", "READ_START", "READ_PAUSE", "READ_RESUME", "WRITE_START", "WRITE_STOP", "FLUSH", "CONNECT", "FINI"}
  MaxDatagrams = 2
  MaxWrites = 2
  MaxPause = 1
  MaxDepth = 4
INVARIANT VecIsThere
CHECK_DEADLOCK FALSE
