CONSTANTS
  Macs = {"m1", "m2"}
  NoMac = "nomac"
  Ifs = {"ingress", "egress"}
  If = "egress"
  Target = "target"
  Gateways = {"gateway"}
  NoHop = "nohop"
  NoArp <- OneNoArp
  Foreign = TRUE
  MaxLost = 2
SPECIFICATION FairSpec
INVARIANTS SocketsClosed MacOfNextHop
PROPERTIES ResolutionEnds
CHECK_DEADLOCK FALSE
