SPECIFICATION Spec
CONSTANTS
  WideColumns <- MCWideColumns
  MaxId = 3
  None = None
INVARIANTS
  TypeOK
  SchemaOfRevision
  OnlyWidthsRefuse
PROPERTIES
  NothingLost
