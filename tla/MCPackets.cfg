CONSTANTS
  OwnMac = "own"
  Unknown = "unknown"
  Zero6 = "::"
  Multi6 = {"ff02::1"}
  Group <- Groups
  Configs <- TheConfigs
  Frames <- TheFrames
  B = 6
  MaxRest = 9
  MaxHops = 2
SPECIFICATION PacketsSpec
INVARIANTS AnswerEchoes NoAddressTaken VipAnswered HeaderVerifies NaVerifies
CHECK_DEADLOCK FALSE
