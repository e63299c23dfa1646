SPECIFICATION FairSpec
CONSTANTS
  SEQ_SIZE = 4
  QUEUE_SIZE = 2
  Side = 1
PROPERTY
  ResetIsTemporary
