SPECIFICATION Spec
CONSTANTS
  MaxTaps <- MCMaxTaps
  MaxKills <- MCMaxKills
INVARIANTS
  TypeOK
  NoVpnLeftBehind
  OneTunnel
  PageSettles
PROPERTY
  ServiceSettles
CHECK_DEADLOCK FALSE
