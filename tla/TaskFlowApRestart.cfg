SPECIFICATION Spec
CONSTANTS
  MAX_ID = 2
  MAX_BOOTS = 2
  RESTARTS = {"ap"}
INVARIANT
  AckMeansReceived
