SPECIFICATION Spec
CONSTANTS
  MAX_RTP_DATA_SIZE = 3
  RTP_HEADER_SIZE = 2
  FU_SIZE = 1
  ReportEvery = 2
  SeqMod = 5
  CountMod = 5
  Sizes = {1, 2, 3, 4, 6, 7, 9, 11}
  MaxFrames = 5
INVARIANTS
  TypeOK
  FragmentsDelimited
  FrameCovered
  PacketsFit
  SeqCountsPackets
  ReportsAreRegular
  OctetsAreSent
