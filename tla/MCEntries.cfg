SPECIFICATION FairSpec
CONSTANTS
  r1 = r1
  r2 = r2
  r3 = r3
  s1 = s1
  s2 = s2
  p1 = p1
  p2 = p2
  ip1 = ip1
  ip2 = ip2
  pod1 = pod1
  DefaultPod = DefaultPod
  NoRequest = NoRequest
  NoEntry = NoEntry
  NoIp = NoIp
  Request = {r1, r2, r3}
  Sidecar = {s1, s2}
  Prefix = {p1, p2}
  Ip = {ip1, ip2}
  Pod = {}
  PrefixOf <- TwoPrefix
  SidecarOf <- TwoSidecar
  DefaultIp <- OwnIp
  PolicyOf <- Mixed
  RetryMax = 1
  Env <- Forgets
INVARIANT HitFollowsWarmup
PROPERTY InfiniteEntriesStay
CHECK_DEADLOCK FALSE
PROPERTY ImplementsAffinity
PROPERTY WarmupPublishes
