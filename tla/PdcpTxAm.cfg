SPECIFICATION Spec
CONSTANTS
  w1 = w1
  w2 = w2
  None = None
  SnMod = 8
  HfnMod = 2
  MaxCountNotify = 2
  MaxCountHard = 4
  RlcMode = "am"
  DiscardTicks = 0
  MaxTick = 0
  UeQueueSize = 1
  SduBufferSize = 1
  CryptoFails = FALSE
  StatusReports = TRUE
  MaxRetransmit = 1
  DataRecoveries = TRUE
  MaxKey = 1
  MaySuspend = FALSE
  MayRelease = FALSE
  CryptoSlots <- TwoSlots
  StartCounts <- NoStart
SYMMETRY SlotSymmetry
INVARIANTS
  WindowOrdered
PROPERTIES
  KeptUntilSettled
CHECK_DEADLOCK FALSE
