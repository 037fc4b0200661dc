SPECIFICATION FairSpec
CONSTANTS
  Thread = {t1, t2}
  Node = {n1, n2, n3}
  MaxCalls = 5
  NULL = NULL
  None = None
INVARIANTS SizeExact
PROPERTIES StackSpec CallsEnd
CHECK_DEADLOCK FALSE
