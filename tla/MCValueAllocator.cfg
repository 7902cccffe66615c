SPECIFICATION Spec
CONSTANTS
  Lowest = 1
  Highest = 7
  TypeMax = 7
  Promoted = TRUE
INVARIANTS
  TypeOK
  Canonical
PROPERTIES
  IsIdPool
