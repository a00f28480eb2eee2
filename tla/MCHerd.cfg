SPECIFICATION TimedSpec
CONSTANTS
  r1 = r1
  r2 = r2
  r3 = r3
  s1 = s1
  s2 = s2
  p1 = p1
  p2 = p2
  ip1 = ip1
  ip2 = ip2
  pod1 = pod1
  DefaultPod = DefaultPod
  NoRequest = NoRequest
  NoEntry = NoEntry
  NoIp = NoIp
  Request = {r1, r2, r3}
  Sidecar = {s1, s2}
  Prefix = {p1}
  Ip = {ip1, ip2}
  Pod = {}
  PrefixOf <- OnePrefix
  SidecarOf <- TwoSidecar
  DefaultIp <- OwnIp
  PolicyOf <- AllFixed
  RetryMax = 4
  WarmTicks = 4
  Env <- Drops
SYMMETRY R2R3Alike
INVARIANT TypeOK
INVARIANT HerdOnlyAfterExhaustion
INVARIANT ShouldHitNow
CHECK_DEADLOCK FALSE
INVARIANT FleetCountersAgree
INVARIANT HitCountBounded
PROPERTY PatienceSuffices
