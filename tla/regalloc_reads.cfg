SPECIFICATION Spec
CONSTANTS
  Registers = 3
  Slots = 6
  Others = 3
  Programs <- Families
INVARIANTS
  TypeOK
  Settled
  NeverNested
  ReadsRight
  PointerReady
PROPERTY AtOnce
