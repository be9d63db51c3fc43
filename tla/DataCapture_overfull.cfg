SPECIFICATION Spec
CONSTANTS
  p1 = p1
  p2 = p2
  c1 = c1
  None = None
  Producers = {p1, p2}
  Consumers = {c1}
  buffer_max_size = 2
  Sizes = {1}
  MaxSize = 1
  MaxFrames = 5
INVARIANTS
  CapacityRespected
