CONSTANTS
  Procs = {"p", "q"}
  Backends = {"q"}
  Cmds = {"c"}
  None = "none"
  MaxStarts = 4
  Absent = "absent"
  Values = {"10.0.0.1", "2001::1"}
  MaxLoads = 2
  Files <- TheFiles
  Defaults <- TheDefaults
  AddrLists <- TheLists
  Bad = "bad"
  Zero = "zero"
  Garbage = {"zero", "s", "x"}
  MaxLines = 3
  Lines <- TheLines
  W = 2
  Words4 = 1
  Words6 = 2
SPECIFICATION StartupSpec
INVARIANTS OneTranslator LastIsReached SuccessMeansHandled AddressIsCurrent WellFormedKept OneServerEach ModeIsNet
CHECK_DEADLOCK FALSE
