SPECIFICATION FairSpec
CONSTANT
  MAX_MOTION = 1
INVARIANTS
  TypeOK
  MotionAccounted
  EscapeStaysInside
PROPERTIES
  EverythingReleased
