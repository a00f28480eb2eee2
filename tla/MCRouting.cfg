SPECIFICATION RouteSpec
CONSTANTS
  r1 = r1
  r2 = r2
  p1 = p1
  p2 = p2
  DefaultPod = DefaultPod
  Unread = Unread
  NoTarget = NoTarget
  Request = {r1, r2}
  TokensOf <- Short
  Pod = {p1, p2}
  Util = {0, 2}
  Half = 1
  Ttl = 2
SYMMETRY PodsAlike
INVARIANT GaugeFresh
INVARIANT SavingsRounded
PROPERTY LeastOfSteady
PROPERTY BlindOnlyOverBusy
CHECK_DEADLOCK FALSE
