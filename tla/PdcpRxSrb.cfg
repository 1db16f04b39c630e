SPECIFICATION Spec
CONSTANTS
  w1 = w1
  w2 = w2
  None = None
  SnMod = 4
  HfnMod = 3
  MaxCountNotify = 3
  MaxCountHard = 10
  RbType = "srb"
  RlcMode = "am"
  TReordering = "infinity"
  IntegrityEnabled = TRUE
  UeQueueSize = 1
  PduBufferSize = 1
  PeerInWindow = FALSE
  MaxKey = 2
  MaySuspend = FALSE
  CryptoSlots <- TwoSlots
  PeerCounts <- CountsTo4
  Removals <- NoRemoval
SYMMETRY SlotSymmetry
PROPERTIES
  KeepsDeliveryPromise
CHECK_DEADLOCK FALSE
