SPECIFICATION GuiSpec
CONSTANTS
  c1 = c1
  c2 = c2
  c3 = c3
  c4 = c4
  t1 = t1
  t2 = t2
  t3 = t3
  t4 = t4
  None = None
  Controllers <- MCTwoControllers
  Threads <- MCTwoThreads
  Linux = TRUE
  MaxClicks = 2
INVARIANT
  DisconnectTearsDown
CHECK_DEADLOCK FALSE
