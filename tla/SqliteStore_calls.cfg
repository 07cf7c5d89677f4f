CONSTANTS
  p1 = p1
  p2 = p2
  t1 = t1
  t2 = t2
  u1 = u1
  e1 = e1
  e2 = e2
  Process = {p1, p2}
  Thread = {t1, t2, u1}
  Home <- TwoAndOne
  Entry = {e1, e2}
  Old = {e1}
  Cleaners = {p1}
  Cancelled = {t1}
  MaxSize = 2
  Retries = 1
  NoThread = NoThread
  NoConn = NoConn
  NoItem = NoItem
  MaxCalls = 3
  MaxCleanups = 1
  MaxConflicts = 1
  MaxFaults = 1
  MaxCrashes = 1
SPECIFICATION FairSpec
INVARIANTS TypeOK AckedStored LeftoversEmpty
PROPERTIES KeepsLedger PurgesArchived CallsEnd
CHECK_DEADLOCK FALSE
