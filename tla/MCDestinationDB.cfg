SPECIFICATION Spec
CONSTANTS
  p1 = p1
  p2 = p2
  p3 = p3
  h1 = h1
  h2 = h2
  None = None
  Procs <- MCProcs
  Hosts <- MCHosts
INVARIANTS
  TypeOK
  LostOnlyToOverlap
  TornOnlyByAccident
PROPERTY
  UnreadableNotReplaced
CHECK_DEADLOCK FALSE
