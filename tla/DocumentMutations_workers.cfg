CONSTANTS
  p1 = p1
  p2 = p2
  a = a
  b = b
  m = m
  Process = {p1, p2}
  Call = {a, b, m}
  Doc = {1, 2}
  Home <- Together
  Document <- SameDocument
  Targets <- OneLock
  Conditional = {}
  Workers = 2
  Nobody = Nobody
  MaxCancels = 0
  MaxFaults = 0
  MaxCrashes = 0
  MaxBarriers = 0
SPECIFICATION FairSpec
PROPERTY CallsEnd
CHECK_DEADLOCK FALSE
