CONSTANTS
  Clients = {1, 2, 3, 4, 5}
  NoAddr = 0
  CLI_CACHE = 3
  CLI_DIVISOR = 2
  HashCode <- HashParity
  CounterMod = 2
SPECIFICATION Spec
INVARIANTS FreeListIntact OneEntryPerClient InUseReachable
