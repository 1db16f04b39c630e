SPECIFICATION Spec
CONSTANTS
  SnMod = 4
  Window = 2
  Start = 2
  Lens <- Mixed
  MaxInFlight = 2
  QueueSize = 2
  MayDiscard = TRUE
  Grants <- OneTwo
  PollPdu = 2
  PollByte = 2
  MaxRetx = 1
  MaxSnPerStatus = 2
  MayBeLost = {1, 2}
INVARIANTS
  WindowInOrder
  NeverAccused
  NackedPresent
  StopIsReported
  ReceiverOrdered
  GapIsTimed
  ReportIsCurrent
  PollsOrSilent
PROPERTIES
  KeepsDelivery
CHECK_DEADLOCK FALSE
