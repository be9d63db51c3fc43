SPECIFICATION SFairSpec
CONSTANTS
  p1 = p1
  c1 = c1
  c2 = c2
  None = None
  Producers = {p1}
  Consumers = {c1, c2}
  buffer_max_size = 2
  Sizes = {0, 2, 3}
  MaxSize = 3
  MaxFrames = 4
  MAX_RTP_DATA_SIZE = 1
INVARIANTS
  STypeOK
  LockHeldByCaller
  NoOverrun
  HeapOwned
  RingCoherent
  QueuedIntact
  SentWithinLap
  ForeignIsNewer
PROPERTIES
  ImplementsQueue
  PushReturns
  FrameLeaves
