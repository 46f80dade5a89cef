SPECIFICATION Spec
CONSTANTS
  p1 = p1
  p2 = p2
  p3 = p3
  a1 = a1
  s1 = s1
  alias = alias
  None = None
  Procs <- MCProcs
  Data <- MCData
  Sections <- MCSections
  Backend = "dnspython"
  DefaultTtl = 2
  LockWait = 1
  MaxNow = 3
SYMMETRY MCSymmetry
INVARIANTS
  TypeOK
  LeftoversAreRecent
  DoneScanIsCached
  CachedInOrder
PROPERTY
  NoFreshRowDeleted
CHECK_DEADLOCK FALSE
