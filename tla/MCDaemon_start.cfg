SPECIFICATION DaemonSpec
CONSTANTS
  Launch = {l1, l2}
  Old = Old
  MaxFaults = 2
  MaxReused = 1
  Nil = Nil
INVARIANTS HandshakeTrue OneServer
PROPERTIES LaunchEnds
CHECK_DEADLOCK FALSE
