SPECIFICATION Spec
CONSTANTS
  MAX_ID = 2
  MAX_BOOTS = 2
  RESTARTS = {"ap", "node", "right"}
CONSTRAINT Distinguishable
INVARIANTS
  TypeOK
  CompletedWasExecuted

  
