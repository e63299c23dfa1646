SPECIFICATION FairSpec
CONSTANTS
  WIDTH = 4
  BASE_POS = 1
  MAX_POS = 7
  Value = {v1, v2, v3}
  Default = v1
  Manual = Manual
  FRESH = {FALSE, TRUE}
  MAX_BEHIND = 2
INVARIANTS
  TypeOK
  KnownMeansHeld
  AppliedIsCurrent
PROPERTIES
  AdjustmentHolds
  NodeCatchesUp
