SPECIFICATION FairSpec
CONSTANTS
  t1 = t1
  t2 = t2
  t3 = t3
  t4 = t4
  Thread = {t1, t2, t3, t4}
  Timed = {t4}
  Conn = {c1, c2, c3}
  MaxSize = 2
  MaxCalls = 5
  MaxCreateFailures = 1
  MaxBroken = 1
  NoConn = NoConn
INVARIANTS TypeOK SlotsAnnounced
PROPERTIES KeepsSlots WaitsEndUnlessUnannounced
CHECK_DEADLOCK FALSE
