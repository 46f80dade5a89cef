SPECIFICATION Spec
CONSTANTS
  MaxRestarts <- MCMaxRestarts
  PollRounds <- MCPollRounds
  ForeignListener = TRUE
  Interruptible = FALSE
PROPERTY
  ReadyPortIsOurs
