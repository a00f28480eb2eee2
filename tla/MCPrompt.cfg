SPECIFICATION Spec
CONSTANTS
  Start <- Starts0
  ItemsOf <- Items
  MaxItems <- Limits
CHECK_DEADLOCK FALSE
INVARIANT PrefixSeparates
INVARIANT SourceOrderIgnored
INVARIANT VolatileIgnored
INVARIANT PolicyFollowsPrefix
INVARIANT CachePointsStable
INVARIANT SamePrefixSameCachePoints
