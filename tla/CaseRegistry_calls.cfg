CONSTANTS
  p1 = p1
  p2 = p2
  a = a
  b = b
  l = l
  r = r
  e = e
  f = f
  Process = {p1, p2}
  Call = {a, b, l, r, e, f}
  Home <- Homes
  Tool <- Tools
  Target <- Targets
  Landing <- Lands
  Sets <- Fronts
  Kind = {"BUG"}
  KindOf <- Bugs
  Earlier <- FirstOnly
  Nobody = Nobody
  Left = Left
  MaxSeq = 3
  MaxCalls = 3
  MaxFaults = 1
  MaxCrashes = 1
SPECIFICATION FairSpec
INVARIANTS TypeOK UniqueIds RowsExplained
PROPERTY CallsEnd
CHECK_DEADLOCK FALSE
