SPECIFICATION FairSpec
CONSTANTS
  Zone = {z1, z2, z3}
  Allocators = {"hugetlb", "custom"}
  LowFrames = 1
  HighFrames = 1
  HugeFrames = 2
  CustomFrames = 1
  LowmemLimit = 1
  MaxTotal = 4
  FreeTimeout = 1
INVARIANTS OneHolder LowmemNeverUnderstates
PROPERTIES UnmapOnlyAfterTimeout StoreSpec IdleZoneIsUnmapped
CHECK_DEADLOCK FALSE
