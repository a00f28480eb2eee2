SPECIFICATION FairSpec
CONSTANTS
  p1 = p1
  p2 = p2
  c1 = c1
  c2 = c2
  h1 = h1
  h2 = h2
  Absent = Absent
  NoPod = NoPod
  Pod = {p1, p2}
  Replica = {c1, c2}
  Beat = {h1, h2}
  ReplicaOf <- OwnReplica
  Unreliable = {c1}
  Load = {1}
  LagOf <- Clocks
  Ttl = 2
  Punctual = {p1}
  Period = 1
INVARIANT TypeOK
INVARIANT SilentPodsUnroutable
PROPERTY PunctualPodsStay
PROPERTY ImplementsPodLoads
PROPERTY DeadPodsForgotten
