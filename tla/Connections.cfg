SPECIFICATION FairSpec
CONSTANTS
  Node = {left, right}
INVARIANTS
  TypeOK
PROPERTIES
  ImplementsLink
  Served
  PowersDown
