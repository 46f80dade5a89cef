SPECIFICATION Spec
CONSTANTS
  MaxTaps <- MCMaxTaps
  MaxKills <- MCMaxKills
INVARIANT
  DisconnectTearsDown
CHECK_DEADLOCK FALSE
