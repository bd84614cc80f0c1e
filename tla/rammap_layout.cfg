SPECIFICATION FairSpec
CONSTANTS
  BankBytes = 2
  BitLo = 4
  BitHi = 6
  ByteBits = 2
  Direct = 14
  ResetSP = 1
  MaxRam = 22
  Programs <- SmallPrograms
INVARIANTS
  TypeOK
  Apart
  Reachable
  StackClear
  Initialized
PROPERTIES
  Ends
CHECK_DEADLOCK FALSE
