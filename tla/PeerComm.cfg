SPECIFICATION FairSpec
CONSTANTS
  HOST = "left"
  MasterOut = {0, 2}
  SlaveOut = {1}
  SIZE = 3
  FIRST_BITS = {{}, {2}}
  MSB_BITS = 2
  MAX_LOST = 1
INVARIANTS
  TypeOK
  Intact
PROPERTIES
  Delivered
CHECK_DEADLOCK FALSE
