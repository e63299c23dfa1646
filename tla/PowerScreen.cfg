SPECIFICATION FairSpec
CONSTANTS
  LEVELS = 1
  MINUTES = 3
  CHOICES = {1, 2}
INVARIANTS
  TypeOK
  
PROPERTIES
  SavesWhatIsShown
  SaveIsStored
