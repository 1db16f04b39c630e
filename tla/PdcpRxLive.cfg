SPECIFICATION FairSpec
CONSTANTS
  w1 = w1
  w2 = w2
  None = None
  SnMod = 4
  HfnMod = 3
  MaxCountNotify = 3
  MaxCountHard = 10
  RbType = "drb"
  RlcMode = "um"
  TReordering = "finite"
  IntegrityEnabled = TRUE
  UeQueueSize = 1
  PduBufferSize = 1
  PeerInWindow = FALSE
  MaxKey = 2
  MaySuspend = TRUE
  CryptoSlots <- TwoSlots
  PeerCounts <- Counts02
  Removals <- Release
INVARIANTS
  TypeOK
  DestroyedWhenDrained
PROPERTIES
  KeysReplacedWhenDrained
  KeepsDeliveryPromise
  StoredIsReleased
  RoutineCompletes
  StoppedIsDestroyed
CHECK_DEADLOCK FALSE
