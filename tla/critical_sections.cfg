SPECIFICATION FairSpec
CONSTANTS
  N = 4
  Programs <- SectionPrograms
INVARIANTS
  TypeOK
  Excluded
  Restored
PROPERTIES
  Completes
CHECK_DEADLOCK FALSE
