SPECIFICATION FairSpec
CONSTANTS
  SEQ_SIZE = 4
  QUEUE_SIZE = 2
  Side = 0
INVARIANTS
  TypeOK
  NeverDropped
  FreshSession
PROPERTIES
  KeepsTalking
  ImplementsPipe
  Settles
