SPECIFICATION Spec
CONSTANTS
  Registers = 3
  Slots = 6
  Others = 3
  Programs <- GenericLoad
INVARIANT
  ReadsRight
