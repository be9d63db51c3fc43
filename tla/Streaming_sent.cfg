SPECIFICATION SSpec
CONSTANTS
  p1 = p1
  c1 = c1
  c2 = c2
  None = None
  Producers = {p1}
  Consumers = {c1, c2}
  buffer_max_size = 2
  Sizes = {1, 2}
  MaxSize = 2
  MaxFrames = 5
  MAX_RTP_DATA_SIZE = 1
INVARIANTS
  FrameSentWhole
