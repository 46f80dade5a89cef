SPECIFICATION Spec
CONSTANTS
  MaxRestarts <- MCMaxRestarts
  PollRounds <- MCPollRounds
  ForeignListener = TRUE
  Interruptible = TRUE
INVARIANTS
  TypeOK
  NoOrphan
  OneLiveChild
  CrashHasExitCode
PROPERTIES
  CallReturns
  ImplementsManagedXray
