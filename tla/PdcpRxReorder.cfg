SPECIFICATION Spec
CONSTANTS
  w1 = w1
  w2 = w2
  None = None
  SnMod = 8
  HfnMod = 2
  MaxCountNotify = 6
  MaxCountHard = 12
  RbType = "drb"
  RlcMode = "am"
  TReordering = "finite"
  IntegrityEnabled = TRUE
  UeQueueSize = 1
  PduBufferSize = 1
  PeerInWindow = FALSE
  MaxKey = 2
  MaySuspend = TRUE
  CryptoSlots <- TwoSlots
  PeerCounts <- WithGaps
  Removals <- NoRemoval
SYMMETRY SlotSymmetry
INVARIANTS
  WindowBounded
  FirstMissing
  GapHasTimer
PROPERTIES
  NoSilentLoss
CHECK_DEADLOCK FALSE
