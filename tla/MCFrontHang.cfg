CONSTANTS
  Threads = {1, 2}
  NoThread = 0
  Clients = {"c1", "c2"}
  MaxVersion = 0
  MaxHups = 0
SPECIFICATION FairSpec
PROPERTIES RequestAnswered
CHECK_DEADLOCK FALSE
