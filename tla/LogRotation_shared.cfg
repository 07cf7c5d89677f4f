SPECIFICATION FairSpec
CONSTANTS
  p1 = p1
  p2 = p2
  r1 = r1
  r2 = r2
  r3 = r3
  archive = archive
  Proc = {p1, p2}
  Rotator = {r1, r2, r3}
  ProcOf <- TwoAndOne
  UsesTool = {r1}
  Name = {archive}
  NameOf <- SameName
  Op = {o1, o2, o3}
  MaxRotations = 2
  MaxFaults = 1
  MaxCrashes = 1
  Header = Header
  Nobody = Nobody
INVARIANT LockedKept
PROPERTIES KeepsRotatedLog RotationEnds
CHECK_DEADLOCK FALSE
