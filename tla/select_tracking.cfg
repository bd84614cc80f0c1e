SPECIFICATION Spec
CONSTANTS
  M = 4
  Reg = {0, 1}
  Ram = {10, 11}
  Sfr = {20}
  BitRam = {30}
  SfrBit = {31}
  At <- MCAt
  Window <- MCWindow
  Symbols = {50}
  MaxOffset = 2
  Where <- MCWhere
  Offsets = {0, 1, 5}
  Trees <- MCTrees
  Stored <- MCStored
  Immediate <- MCImmediate
  Pointers = {0, 10}
  Words <- MCWords
  Outside = {2}
  Start <- MCStart
  MaxOps = 2
INVARIANTS TypeOK FactsTrue Delivers Pointed
CHECK_DEADLOCK FALSE
