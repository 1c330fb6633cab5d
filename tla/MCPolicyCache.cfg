CONSTANTS
  Families = {"v4"}
  Bits = {"b0", "b1"}
  Servers = {"s1", "s2", "zero"}
  ZeroIP = "zero"
  Macs = {"m1"}
  NoMac = "nomac"
  LB_POL_DIVISOR = 2
  LB_MAX_CACHE = 2
  MAX_RECV = 1
  HashCode <- HashLow
  PolicyFiles <- TwoFiles
  CounterMod = 1
SPECIFICATION FairSpec
INVARIANTS CachePartition CacheCoherent
PROPERTIES ImplementsDistribution PatrolEnds PatrolReclaims
