SPECIFICATION FairSpec
CONSTANTS
  Sizes = {0, 1}
  buffer_max_size = 2
  MaxSpurious = 2
INVARIANTS
  TypeOK
  SilentUntilPlay
  LostWakeupIsARace
PROPERTIES
  CommandReturns
  PlayStartsUnlessRaced
  PauseSleeps
  TeardownEndsAwake
