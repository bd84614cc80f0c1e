SPECIFICATION DisciplinedSpec
CONSTANTS
  N = 4
  Reg = {"R0", "R1"}
  Banks = 3
  Programs <- SmallPrograms
  MaxDepth = 4
INVARIANTS
  TypeOK
  ConventionKnown
  KeptValues
  OwnBank
PROPERTIES
  Transparent
CHECK_DEADLOCK FALSE
