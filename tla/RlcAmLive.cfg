SPECIFICATION FairSpec
CONSTANTS
  SnMod = 4
  Window = 2
  Start = 3
  Lens <- Long
  MaxInFlight = 1
  QueueSize = 1
  MayDiscard = FALSE
  Grants <- One
  PollPdu = 0
  PollByte = 0
  MaxRetx = 1
  MaxSnPerStatus = 1
  MayBeLost = {}
INVARIANTS
  TypeOK
  RetxWithinSent
PROPERTIES
  Settled
CHECK_DEADLOCK FALSE
