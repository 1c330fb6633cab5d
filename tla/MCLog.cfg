CONSTANTS
  Writers = {w1, w2}
  MAX = 2
  SeqMod = 4
  HasSwitch = TRUE
  MaxCalls = 4
  TMP_SIZE = 512
  STAT_MAX = 3
  CLI_CACHE = 3
  MaxEntries = 5
SPECIFICATION AllSpec
INVARIANTS PosHeals SerialCallsKept DumpInOrder OverrunBounded FileComplete
SYMMETRY WritersAlike
CHECK_DEADLOCK FALSE
