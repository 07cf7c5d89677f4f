CONSTANTS
  p1 = p1
  p2 = p2
  a = a
  b = b
  m = m
  Process = {p1, p2}
  Call = {a, b, m}
  Doc = {1, 2}
  Home <- TwoAndOne
  Document <- SameDocument
  Targets <- OneOrBoth
  Conditional = {m}
  Workers = 2
  Nobody = Nobody
  MaxCancels = 1
  MaxFaults = 1
  MaxCrashes = 1
  MaxBarriers = 1
SPECIFICATION FairSpec
INVARIANTS KeepsAcked FailedUndone NoDeadlock
PROPERTIES KeepsEdits ConditionalFits BarrierQuiets CallsEnd
CHECK_DEADLOCK FALSE
