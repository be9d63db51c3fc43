SPECIFICATION FairSpec
CONSTANTS
  OPUS_FRAME_SIZE = 2
  DeviceBuffer = 4
  Stamps = 5
  FirstStamps = {0, 3}
  MaxClock = 11
  MaxFaults = 2
INVARIANTS
  TypeOK
  FramesAreWhole
  TimestampsLagByLoss
  BlocksAccounted
PROPERTIES
  OverrunRecovers
CHECK_DEADLOCK FALSE
