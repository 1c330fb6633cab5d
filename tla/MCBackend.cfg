CONSTANTS
  Families = {"v4", "v6"}
  Macs = {"m1", "m2"}
  NoMac = "nomac"
  CreateMayFail = FALSE
  OpenMayFail = TRUE
SPECIFICATION FairSpec
INVARIANTS BothSocketsOpen FramesHaveMac EnabledReachServer
PROPERTIES MacsStay StartEnds
CHECK_DEADLOCK FALSE
