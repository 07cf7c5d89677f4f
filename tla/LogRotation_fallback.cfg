SPECIFICATION Spec
CONSTANTS
  p1 = p1
  p2 = p2
  r1 = r1
  r2 = r2
  r3 = r3
  archive = archive
  Proc = {p1}
  Rotator = {r1}
  ProcOf <- OneAlone
  UsesTool = {r1}
  Name = {archive}
  NameOf <- SameName
  Op = {o1, o2}
  MaxRotations = 1
  MaxFaults = 0
  MaxCrashes = 0
  Header = Header
  Nobody = Nobody
INVARIANTS AckedKept
CHECK_DEADLOCK FALSE
