SPECIFICATION Spec
CONSTANTS
  BYTE_BITS = 2
  PAGE_SIZE = 4
  SECTOR_SLOTS = 4
  Version = {v1, v2}
  Default = v1
  Erased = Erased
  Foreign = Foreign
  Own = Own
INVARIANTS
  TypeOK
  ProgramsErased
  ReloadAgrees
  TrackerInOrder
PROPERTY
  ImplementsSetting
