SPECIFICATION FairSpec
CONSTANTS
  None = None
  SNs <- Evens
  Lens <- Mixed
  Capacity = 2
  ByteLimit = 6
  CounterMod = 16
  HeadFull = 1
  HeadNotFirst = 1
  MaxDlPdu = 2
  Grants <- OneTwo
  DeferMayFail = FALSE
INVARIANTS
  SlotHeld
  CountersAgree
  MacKnows
PROPERTIES
  KeepsOrder
  AcceptedLeaves
CHECK_DEADLOCK FALSE
