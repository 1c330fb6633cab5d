CONSTANTS
  Threads = {1, 2}
  NoThread = 0
  Clients = {"c1"}
  MaxVersion = 1
  MaxHups = 2
SPECIFICATION FairSpec
INVARIANTS TablesReadyWhenUsed NoSocketLeak
PROPERTIES CompleteTellsLoaded HupReloads ReloadEnds AnsweredUnlessHung
CHECK_DEADLOCK FALSE
