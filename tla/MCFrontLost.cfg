CONSTANTS
  Threads = {1, 2}
  NoThread = 0
  Clients = {"c1"}
  MaxVersion = 0
  MaxHups = 0
SPECIFICATION FairSpec
PROPERTIES CompleteMeansReloaded
CHECK_DEADLOCK FALSE
