SPECIFICATION Spec
CONSTANTS
  c4 = c4
  f4 = f4
  x4 = x4
  d4 = d4
  c6 = c6
  b6 = b6
  cfName = cfName
  cloudflare = cloudflare
  fastly = fastly
  None = None
  Addr <- MCAddr
  Data <- MCData
  V6 = {c6, b6}
  Class <- MCClass
  Blocklist = {b6}
  Providers <- MCProviders
  Ranges <- MCRanges
  Owner <- MCOwner
  Backend = "dig"
  Iran = {}
  BlockNets = {x4, b6}
  Sections <- MCSections
  Sans <- MCSans
  MaxChanges = 1
INVARIANT
  BestIsReachable
CHECK_DEADLOCK FALSE
