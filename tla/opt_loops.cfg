SPECIFICATION Spec
CONSTANTS
  Signatures <- MCSignatures
  Sources <- Reentered
  Fuel = 20
  Rounds = 16
  Inlines = 1
  Sweeps = 30
INVARIANTS Same
CHECK_DEADLOCK FALSE
