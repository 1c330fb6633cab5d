CONSTANTS
  Families = {"v4"}
  Bits = {"b0", "b1"}
  Servers = {"s1", "zero"}
  ZeroIP = "zero"
  Macs = {"m1"}
  NoMac = "nomac"
  LB_POL_DIVISOR = 2
  LB_MAX_CACHE = 1
  MAX_RECV = 1
  HashCode <- HashLow
  PolicyFiles <- SharedFile
  CounterMod = 2
SPECIFICATION Spec
INVARIANTS HitsAgree
