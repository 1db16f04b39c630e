SPECIFICATION Spec
CONSTANTS
  w1 = w1
  w2 = w2
  None = None
  SnMod = 8
  HfnMod = 2
  MaxCountNotify = 2
  MaxCountHard = 3
  RlcMode = "um"
  DiscardTicks = 2
  MaxTick = 4
  UeQueueSize = 1
  SduBufferSize = 1
  CryptoFails = FALSE
  StatusReports = FALSE
  MaxRetransmit = 0
  DataRecoveries = FALSE
  MaxKey = 1
  MaySuspend = TRUE
  MayRelease = FALSE
  CryptoSlots <- TwoSlots
  StartCounts <- NoStart
SYMMETRY SlotSymmetry
INVARIANTS
  OldestHasTimer
PROPERTIES
  KeptUntilSettled
CHECK_DEADLOCK FALSE
