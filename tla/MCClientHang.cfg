CONSTANTS
  Clients = {1, 2, 3, 4}
  NoAddr = 0
  CLI_CACHE = 2
  CLI_DIVISOR = 2
  HashCode <- HashParity
  CounterMod = 2
SPECIFICATION FairSpec
PROPERTY PacketCounted
