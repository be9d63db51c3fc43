SPECIFICATION Spec
CONSTANTS
  Bytes = {0, 1, 2}
  MaxLength = 10
INVARIANTS
  TypeOK
  FramesAreNals
  AllButLastPushed
  ReadsPastEnd
CHECK_DEADLOCK FALSE
