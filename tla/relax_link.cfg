SPECIFICATION Spec
CONSTANTS
  Programs <- SmallPrograms
  Sections = 4
  Page = 16
  Pages = 32
  Back = 8
  Ahead = 7
  CodeStart = 3
  CodeEnd = 48
  MaxIterations = 100
INVARIANTS
  TypeOK
  EncodeFits
  Paid
  Apart
CHECK_DEADLOCK FALSE
