SPECIFICATION FairSpec
CONSTANTS
  MAX_ID = 2
  MAX_BOOTS = 2
  RESTARTS = {"node"}
INVARIANT
  AckMeansReceived
PROPERTY
  TasksAnswered
