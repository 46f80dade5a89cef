SPECIFICATION Spec
CONSTANTS
  MaxManagers <- MCMaxManagers
  SmokeTries <- MCSmokeTries
INVARIANTS
  TypeOK
  NoXrayLeft
  OneXray
PROPERTY
  Supervised
CHECK_DEADLOCK FALSE
