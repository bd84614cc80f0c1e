SPECIFICATION CompileSpec
CONSTANTS
  Signatures <- MCSignatures
  Sources <- NoSources
  Programs <- MCBitValues
  Fuel = 100
  Rounds = 16
  Inlines = 0
  Sweeps = 30
PROPERTIES Faithful
CHECK_DEADLOCK FALSE
