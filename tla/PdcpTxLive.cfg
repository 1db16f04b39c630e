SPECIFICATION FairSpec
CONSTANTS
  w1 = w1
  w2 = w2
  None = None
  SnMod = 8
  HfnMod = 2
  MaxCountNotify = 2
  MaxCountHard = 3
  RlcMode = "um"
  DiscardTicks = 0
  MaxTick = 0
  UeQueueSize = 1
  SduBufferSize = 1
  CryptoFails = TRUE
  StatusReports = FALSE
  MaxRetransmit = 0
  DataRecoveries = FALSE
  MaxKey = 2
  MaySuspend = TRUE
  MayRelease = TRUE
  CryptoSlots <- TwoSlots
  StartCounts <- NoStart
INVARIANTS
  NoCountReuse
PROPERTIES
  PduLeaves
  RoutineCompletes
CHECK_DEADLOCK FALSE
