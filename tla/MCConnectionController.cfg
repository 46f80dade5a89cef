SPECIFICATION Spec
CONSTANTS
  c1 = c1
  c2 = c2
  t1 = t1
  t2 = t2
  t3 = t3
  None = None
  Controllers <- MCControllers
  Threads <- MCThreads
  Linux = TRUE
INVARIANTS
  TypeOK
  XrayReachable
  FailedConnectLeavesNothing
CHECK_DEADLOCK FALSE
