SPECIFICATION Spec
INVARIANTS
  TypeOK
  ValuesUsable
  StepsReversible
  SaveIsReadBack
