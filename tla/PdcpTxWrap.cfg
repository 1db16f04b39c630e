SPECIFICATION Spec
CONSTANTS
  w1 = w1
  w2 = w2
  None = None
  SnMod = 8
  HfnMod = 2
  MaxCountNotify = 2
  MaxCountHard = 9
  RlcMode = "am"
  DiscardTicks = 0
  MaxTick = 0
  UeQueueSize = 1
  SduBufferSize = 1
  CryptoFails = FALSE
  StatusReports = FALSE
  MaxRetransmit = 1
  DataRecoveries = FALSE
  MaxKey = 2
  MaySuspend = FALSE
  MayRelease = FALSE
  CryptoSlots <- OneSlot
  StartCounts <- BeforeWrap
INVARIANTS
  ConfirmedLeaves
PROPERTIES
  KeysReplacedWhenDrained
CHECK_DEADLOCK FALSE
