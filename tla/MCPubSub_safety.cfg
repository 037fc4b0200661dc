SPECIFICATION Spec
CONSTANTS
  Sub = {s1, s2, s3, q}
  Pubsub = {p1, p2}
  Topic = {t1}
  Silent = {q}
  None = None
  MaxDepth = 2
  MaxCalls = 4
SYMMETRY SubSymmetry
INVARIANTS ChainsExact CalledOnce
PROPERTIES EveryoneCalled
CHECK_DEADLOCK FALSE
