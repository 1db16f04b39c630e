SPECIFICATION Spec
CONSTANTS
  w1 = w1
  w2 = w2
  None = None
  SnMod = 4
  HfnMod = 4
  MaxCountNotify = 6
  MaxCountHard = 14
  RbType = "drb"
  RlcMode = "am"
  TReordering = "ms0"
  IntegrityEnabled = FALSE
  UeQueueSize = 1
  PduBufferSize = 1
  PeerInWindow = TRUE
  MaxKey = 1
  MaySuspend = FALSE
  CryptoSlots <- TwoSlots
  PeerCounts <- CountsTo8
  Removals <- Session
SYMMETRY SlotSymmetry
INVARIANTS
  Authentic
PROPERTIES
  InOrder
CHECK_DEADLOCK FALSE
