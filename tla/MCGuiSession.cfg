SPECIFICATION GuiSpec
CONSTANTS
  c1 = c1
  c2 = c2
  c3 = c3
  c4 = c4
  t1 = t1
  t2 = t2
  t3 = t3
  t4 = t4
  None = None
  Controllers <- MCControllers
  Threads <- MCThreads
  Linux = TRUE
  MaxClicks = 1
INVARIANTS
  GuiTypeOK
  NothingLeftBehind
  ReplacedOwnNothing
  ConnectedOffersDisconnect
PROPERTY
  ButtonComesBack
CHECK_DEADLOCK FALSE
