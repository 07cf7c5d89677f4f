SPECIFICATION FairSpec
CONSTANTS
  p1 = p1
  p2 = p2
  t1 = t1
  t2 = t2
  o1 = o1
  o2 = o2
  o3 = o3
  Proc = {p1, p2}
  Thread = {t1}
  ProcOf <- TwoInOne
  Op = {o1, o2, o3}
  Id = {1, 2}
  Stamp <- Clash
  Digest = {"a", "b", "c"}
  DigestOf <- ClashDigest
  Posix = FALSE
  ReplayPasses = 1
  MaxCrashes = 2
  MaxFaults = 1
  MaxEvictions = 0
  Tears = TRUE
  NoProof = NoProof
  NoOp = NoOp
PROPERTY StartupReplays
CHECK_DEADLOCK FALSE
