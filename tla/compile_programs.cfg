SPECIFICATION CompileSpec
CONSTANTS
  Signatures <- MCSignatures
  Sources <- MCSources
  Programs <- MCPrograms
  Fuel = 100
  Rounds = 16
  Inlines = 1
  Sweeps = 30
INVARIANTS TypeOK Same Verified
PROPERTIES Faithful Ends
CHECK_DEADLOCK FALSE
