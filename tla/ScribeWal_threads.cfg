SPECIFICATION Spec
CONSTANTS
  p1 = p1
  p2 = p2
  t1 = t1
  t2 = t2
  o1 = o1
  o2 = o2
  o3 = o3
  Proc = {p1, p2}
  Thread = {t1, t2}
  ProcOf <- TwoInOne
  Op = {o1, o2, o3}
  Id = {1, 2}
  Stamp <- SameLine
  Digest = {"a", "b", "c"}
  DigestOf <- SameLineDigest
  Posix = TRUE
  ReplayPasses = 1
  MaxCrashes = 1
  MaxFaults = 1
  MaxEvictions = 1
  Tears = FALSE
  NoProof = NoProof
  NoOp = NoOp
INVARIANTS TypeOK AckedDurable ProofsTrue CommittedOnce
PROPERTY KeepsAuditTrail
CHECK_DEADLOCK FALSE
SYMMETRY LikeThreadsAndLines
